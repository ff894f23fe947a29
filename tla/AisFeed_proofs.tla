---------------------------- MODULE AisFeed_proofs ----------------------------
(***************************************************************************)
(* Theorems about AisFeed.  That only transmitted messages are delivered is *)
(* not inductive; that every sequence holds the first parts of a single     *)
(* transmission (SequencesAreUnmixed) is, together with the invariant of    *)
(* the assembler.  That no sentence serves twice rests on HeardInv: what a  *)
(* sequence has received has been heard since its message was handed on.    *)
(***************************************************************************)
EXTENDS AisFeed, SentenceAssembler_proofs

UnmixedInv == Inv /\ SequencesAreUnmixed /\ OnlyTransmittedMessages

HeardOK ==
  /\ heard \in [Transmissions -> Nat]
  /\ \A t \in Transmissions : heard[t] <= Header[t].part_count

ReceivedIsHeard ==
  \A id \in DOMAIN sequences : \A t \in Transmissions :
    Collects(sequences[id], id, t) => sequences[id].received <= heard[t]

HeardInv == HeardOK /\ ReceivedIsHeard

(* The sentences of a transmission are sentences parse() returns.           *)
LEMMA PartIsSentence ==
  ASSUME NEW t \in Transmissions, NEW i \in 1 .. Header[t].part_count
  PROVE  /\ Part(t, i) \in Sentence
         /\ Part(t, i).talker = Header[t].talker
         /\ Part(t, i).sentence_type = Header[t].sentence_type
         /\ Part(t, i).part_count = Header[t].part_count
         /\ Part(t, i).part_index = i
         /\ Part(t, i).payload = Fragment(t, i)
         /\ IsMultipart(Part(t, i)) => Part(t, i).seq_id = Header[t].seq_id
         /\ i = Header[t].part_count => Part(t, i).fill_bits = Header[t].fill_bits
<1>1. /\ Header[t].talker \in Talkers
      /\ Header[t].sentence_type \in SentenceTypes
      /\ Header[t].part_count \in 1 .. kMaxSentenceParts
      /\ Header[t].seq_id \in SeqIds
      /\ Header[t].fill_bits \in FillBits
      /\ Fragment(t, i) \in Payloads \ {NoPayload}
      /\ 0 \in FillBits
  BY TrafficAssumption
<1>2. i \in 1 .. kMaxSentenceParts /\ i <= Header[t].part_count
      /\ Header[t].part_count \in Nat
  BY <1>1, SentencesAssumption
<1>3. /\ Part(t, i).talker = Header[t].talker
      /\ Part(t, i).sentence_type = Header[t].sentence_type
      /\ Part(t, i).part_count = Header[t].part_count
      /\ Part(t, i).part_index = i
      /\ Part(t, i).payload = Fragment(t, i)
      /\ Part(t, i).seq_id = IF Header[t].part_count = 1 THEN NoSeqId
                                                         ELSE Header[t].seq_id
      /\ Part(t, i).fill_bits = IF i = Header[t].part_count
                                THEN Header[t].fill_bits ELSE 0
  BY DEF Part
<1>4. Header[t].seq_id # NoSeqId
  BY <1>1, SentencesAssumption
<1>5. Part(t, i) \in Sentence
  BY <1>1, <1>2, <1>3, <1>4 DEF Sentence, Part
<1> QED
  BY <1>2, <1>3, <1>5 DEF IsMultipart

-----------------------------------------------------------------------------
(* A part that opens a sequence or that is due keeps it unmixed.            *)
LEMMA OpenedIsUnmixed ==
  ASSUME NEW t \in Transmissions, NEW i \in 1 .. Header[t].part_count,
         FeedOpen(Part(t, i))
  PROVE  Collects(sequences'[Part(t, i).seq_id], Part(t, i).seq_id, t)
<1> DEFINE s == Part(t, i)
<1>1. /\ s \in Sentence
      /\ s.talker = Header[t].talker
      /\ s.sentence_type = Header[t].sentence_type
      /\ s.part_count = Header[t].part_count
      /\ s.part_index = i
      /\ s.payload = Fragment(t, i)
      /\ IsMultipart(s) => s.seq_id = Header[t].seq_id
  BY PartIsSentence
<1>2. FeedOpen(s)
  OBVIOUS
<1> HIDE DEF s
<1>3. /\ IsMultipart(s) /\ s.part_index = 1
      /\ sequences'[s.seq_id] = Store(NewSequence(s), s)
  BY <1>2 DEF FeedOpen
<1>4. /\ sequences'[s.seq_id].received = 1
      /\ sequences'[s.seq_id].parts[1] = s.payload
      /\ sequences'[s.seq_id].part_count = s.part_count
      /\ sequences'[s.seq_id].talker = s.talker
      /\ sequences'[s.seq_id].sentence_type = s.sentence_type
  BY <1>1, <1>3, OpenedSequence
<1>5. \A k \in 1 .. 1 : sequences'[s.seq_id].parts[k] = Fragment(t, k)
  BY <1>1, <1>3, <1>4
<1>6. Collects(sequences'[s.seq_id], s.seq_id, t)
  BY <1>1, <1>3, <1>4, <1>5 DEF Collects
<1> QED
  BY <1>6 DEF s

(* A part that is due belongs to the transmission the sequence collects:    *)
(* this is where DistinctKeys is needed.                                    *)
LEMMA StoredIsUnmixed ==
  ASSUME Inv, SequencesAreUnmixed,
         NEW t \in Transmissions, NEW i \in 1 .. Header[t].part_count,
         IsDue(Part(t, i))
  PROVE  /\ Collects(Stored(Part(t, i)), Part(t, i).seq_id, t)
         /\ Collects(Existing(Part(t, i)), Part(t, i).seq_id, t)
<1> DEFINE s == Part(t, i)
<1> DEFINE seq == sequences[s.seq_id]
<1>1. /\ s \in Sentence
      /\ s.sentence_type = Header[t].sentence_type
      /\ s.part_count = Header[t].part_count
      /\ s.part_index = i
      /\ s.payload = Fragment(t, i)
      /\ IsMultipart(s) => s.seq_id = Header[t].seq_id
  BY PartIsSentence
<1>2. IsDue(s) /\ Stored(s) = Store(seq, s) /\ Existing(s) = seq
  BY DEF Stored, Existing
<1> HIDE DEF s
<1>3. /\ s.seq_id \in DOMAIN sequences
      /\ IsMultipart(s)
      /\ s.part_count = seq.part_count
      /\ s.sentence_type = seq.sentence_type
      /\ s.part_index = seq.received + 1
  BY <1>2 DEF IsDue, InProgress, SameCount, SameType, ExpectedNext, Existing
<1>4. GoodSequence(seq)
  BY <1>3, InvByEntry
<1>5. PICK u \in Transmissions : Collects(seq, s.seq_id, u)
  BY <1>3 DEF SequencesAreUnmixed
<1>6. u = t
  <2>1. /\ Header[t].part_count > 1
        /\ Header[t].seq_id = Header[u].seq_id
        /\ Header[t].part_count = Header[u].part_count
        /\ Header[t].sentence_type = Header[u].sentence_type
    BY <1>1, <1>3, <1>5 DEF Collects, IsMultipart
  <2> QED
    BY <2>1, DistinctKeys
<1>7. /\ seq.received \in 1 .. seq.part_count - 1
      /\ seq.received \in Nat /\ seq.part_count \in Nat
  BY <1>4, SentencesAssumption DEF GoodSequence, SequenceOK, SequenceRecord
<1> DEFINE new == Store(seq, s)
<1>8. /\ \A k \in 1 .. seq.part_count :
           new.parts[k] = IF k = seq.received + 1 THEN s.payload ELSE seq.parts[k]
      /\ new.received = seq.received + 1
      /\ new.part_count = seq.part_count
      /\ new.talker = seq.talker
      /\ new.sentence_type = seq.sentence_type
  BY <1>1, <1>3, <1>4, StoredSequence
<1> HIDE DEF new, seq
<1>9. ASSUME NEW k \in 1 .. new.received
      PROVE  new.parts[k] = Fragment(t, k)
  <2>1. k \in 1 .. seq.part_count /\ (k # seq.received + 1 => k \in 1 .. seq.received)
    BY <1>7, <1>8
  <2>2. CASE k = seq.received + 1
    BY <1>1, <1>3, <1>8, <2>1, <2>2
  <2>3. CASE k # seq.received + 1
    <3>1. new.parts[k] = seq.parts[k]
      BY <1>8, <2>1, <2>3
    <3>2. seq.parts[k] = Fragment(u, k)
      BY <1>5, <2>1, <2>3 DEF Collects
    <3> QED
      BY <1>6, <3>1, <3>2
  <2> QED
    BY <2>2, <2>3
<1>10. Collects(new, s.seq_id, t)
  BY <1>5, <1>6, <1>8, <1>9 DEF Collects
<1> QED
  BY <1>2, <1>5, <1>6, <1>10 DEF s, new

-----------------------------------------------------------------------------
(* The only part, or the last one that is missing, completes its message.   *)
LEMMA OnlyCompletes ==
  ASSUME NEW t \in Transmissions, NEW i \in 1 .. Header[t].part_count,
         FeedSinglePart(Part(t, i))
  PROVE  /\ result' = Complete(MessageOf(t))
         /\ Header[t].part_count = 1 /\ i = 1
<1> DEFINE s == Part(t, i)
<1>1. /\ s.talker = Header[t].talker
      /\ s.sentence_type = Header[t].sentence_type
      /\ s.part_count = Header[t].part_count
      /\ s.payload = Fragment(t, i)
      /\ i = Header[t].part_count => s.fill_bits = Header[t].fill_bits
      /\ FeedSinglePart(s)
  BY PartIsSentence
<1> HIDE DEF s
<1>2. Header[t].part_count = 1 /\ i = 1
  BY <1>1 DEF FeedSinglePart
<1>3. MessageOf(t).payload = <<s.payload>>
  BY <1>1, <1>2 DEF MessageOf
<1> QED
  BY <1>1, <1>2, <1>3 DEF FeedSinglePart, MessageOf

LEMMA LastCompletes ==
  ASSUME Inv, SequencesAreUnmixed,
         NEW t \in Transmissions, NEW i \in 1 .. Header[t].part_count,
         FeedFinal(Part(t, i))
  PROVE  result' = Complete(MessageOf(t)) /\ i = Header[t].part_count
<1> DEFINE s == Part(t, i)
           seq == sequences[s.seq_id]
<1>1. /\ FeedFinal(s) /\ s \in Sentence
      /\ s.talker = Header[t].talker
      /\ s.sentence_type = Header[t].sentence_type
      /\ s.part_count = Header[t].part_count
      /\ s.part_index = i
      /\ i = Header[t].part_count => s.fill_bits = Header[t].fill_bits
      /\ Header[t].part_count \in Nat
  BY PartIsSentence, TrafficAssumption, SentencesAssumption
<1>2. Collects(Stored(s), s.seq_id, t)
  BY <1>1, StoredIsUnmixed DEF FeedFinal, ReturnMessage
<1> HIDE DEF s
<1>3. /\ s.seq_id \in DOMAIN sequences
      /\ s.part_count = seq.part_count
      /\ s.sentence_type = seq.sentence_type
      /\ s.part_index = seq.received + 1
      /\ Stored(s) = Store(seq, s)
      /\ Stored(s).received >= Stored(s).part_count
  BY <1>1 DEF FeedFinal, ReturnMessage, IsDue, InProgress, SameCount, SameType, ExpectedNext,
              Existing, Stored
<1>4. GoodSequence(seq)
  BY <1>1, <1>3, InvByEntry
<1>5. /\ Stored(s).parts \in Seq(Payloads)
      /\ Len(Stored(s).parts) = seq.part_count
      /\ Stored(s).received = seq.received + 1
      /\ Stored(s).part_count = seq.part_count
      /\ Stored(s).is_own_vessel = (seq.sentence_type = "VDO")
  BY <1>1, <1>3, <1>4, StoredSequence DEF SequenceRecord
<1>6. seq.received \in 1 .. seq.part_count - 1
  BY <1>4 DEF GoodSequence, SequenceOK
<1> HIDE DEF seq
<1>7. i = Header[t].part_count /\ Stored(s).received = Header[t].part_count
  BY <1>1, <1>3, <1>5, <1>6
<1>8. Stored(s).parts = MessageOf(t).payload
  <2>1. \A k \in 1 .. Header[t].part_count : Stored(s).parts[k] = Fragment(t, k)
    BY <1>2, <1>7 DEF Collects
  <2>2. Stored(s).parts = [k \in 1 .. Header[t].part_count |-> Stored(s).parts[k]]
    BY <1>1, <1>3, <1>5, LenProperties
  <2> QED
    BY <2>1, <2>2 DEF MessageOf
<1>9. Stored(s).talker = Header[t].talker
  BY <1>2 DEF Collects
<1> QED
  BY <1>1, <1>3, <1>5, <1>7, <1>8, <1>9 DEF FeedFinal, ReturnMessage, MessageOf

-----------------------------------------------------------------------------
(* One turn of the caller's loop preserves the invariant.                   *)
LEMMA ReceiveUnmixed ==
  ASSUME UnmixedInv,
         NEW t \in Transmissions, NEW i \in 1 .. Header[t].part_count,
         Receive(t, i)
  PROVE  UnmixedInv'
<1> DEFINE s == Part(t, i)
<1>1. /\ Inv /\ SequencesAreUnmixed /\ OnlyTransmittedMessages
      /\ Feed(s) /\ s \in Sentence
      /\ delivered' = delivered \cup
           (IF result'.kind = "message" THEN {result'.message} ELSE {})
  BY PartIsSentence DEF UnmixedInv, Receive
<1>2. Inv'
  BY <1>1, FeedInv
<1>3. ASSUME sequences' = sequences
      PROVE  SequencesAreUnmixed'
  BY <1>1, <1>3 DEF SequencesAreUnmixed, Collects
<1>4. ASSUME result'.kind # "message"
      PROVE  OnlyTransmittedMessages'
  BY <1>1, <1>4 DEF OnlyTransmittedMessages
<1>5. ASSUME result' = Complete(MessageOf(t))
      PROVE  OnlyTransmittedMessages'
  <2>1. result'.message = MessageOf(t)
    BY <1>5 DEF Complete
  <2> QED
    BY <1>1, <2>1 DEF OnlyTransmittedMessages
<1>6. /\ s.talker = Header[t].talker
      /\ s.sentence_type = Header[t].sentence_type
      /\ s.part_count = Header[t].part_count
      /\ s.part_index = i
      /\ s.payload = Fragment(t, i)
      /\ i = Header[t].part_count => s.fill_bits = Header[t].fill_bits
      /\ Header[t].part_count \in Nat
  BY PartIsSentence, TrafficAssumption, SentencesAssumption
<1> HIDE DEF s
<1>7. CASE FeedSinglePart(s)
  <2>1. result' = Complete(MessageOf(t))
    BY <1>7, OnlyCompletes DEF s
  <2> QED
    BY <1>2, <1>3, <1>5, <1>7, <2>1 DEF FeedSinglePart, UnmixedInv
<1>8. CASE FeedOpen(s)
  <2>1. Collects(sequences'[s.seq_id], s.seq_id, t)
    BY <1>8, OpenedIsUnmixed DEF s
  <2>2. /\ result'.kind # "message"
        /\ DOMAIN sequences' = DOMAIN sequences \cup {s.seq_id}
        /\ \A id \in DOMAIN sequences : id # s.seq_id => sequences'[id] = sequences[id]
    BY <1>8 DEF FeedOpen, Nullopt
  <2>3. SequencesAreUnmixed'
    BY <1>1, <2>1, <2>2 DEF SequencesAreUnmixed, Collects
  <2> QED
    BY <1>2, <1>4, <2>2, <2>3 DEF UnmixedInv
<1>9. CASE \/ FeedNotFirst(s) \/ FeedCountMismatch(s) \/ FeedTypeMismatch(s)
           \/ FeedDuplicate(s) \/ FeedGap(s)
  <2>1. sequences' = sequences /\ result'.kind # "message"
    BY <1>9 DEF FeedNotFirst, FeedCountMismatch, FeedTypeMismatch, FeedDuplicate,
                FeedGap, ReturnError, Failure
  <2> QED
    BY <1>2, <1>3, <1>4, <2>1 DEF UnmixedInv
<1>10. CASE FeedMiddle(s)
  <2>1. Collects(Stored(s), s.seq_id, t)
    BY <1>1, <1>10, StoredIsUnmixed DEF FeedMiddle, s
  <2>2. /\ result'.kind # "message"
        /\ DOMAIN sequences' = DOMAIN sequences
        /\ s.seq_id \in DOMAIN sequences
        /\ sequences'[s.seq_id] = Stored(s)
        /\ \A id \in DOMAIN sequences : id # s.seq_id => sequences'[id] = sequences[id]
    BY <1>10 DEF FeedMiddle, Nullopt, IsDue, InProgress
  <2>3. SequencesAreUnmixed'
    BY <1>1, <2>1, <2>2 DEF SequencesAreUnmixed, Collects
  <2> QED
    BY <1>2, <1>4, <2>2, <2>3 DEF UnmixedInv
<1>11. CASE FeedFinal(s)
  <2>1. Collects(Stored(s), s.seq_id, t)
    BY <1>1, <1>11, StoredIsUnmixed DEF FeedFinal, ReturnMessage, s
  <2>2. SequencesAreUnmixed'
    <3>1. /\ DOMAIN sequences' \subseteq DOMAIN sequences
          /\ \A id \in DOMAIN sequences' : sequences'[id] = sequences[id]
      BY <1>11 DEF FeedFinal, ReturnMessage
    <3> QED
      BY <1>1, <3>1 DEF SequencesAreUnmixed, Collects
  <2>3. result' = Complete(MessageOf(t))
    BY <1>1, <1>11, LastCompletes DEF s
  <2> QED
    BY <1>2, <1>5, <2>2, <2>3 DEF UnmixedInv
<1> QED
  BY <1>1, <1>7, <1>8, <1>9, <1>10, <1>11 DEF Feed

(* The invariant holds of an empty assembler, and of every step after it.   *)
LEMMA UnmixedInitially == FeedInit => UnmixedInv
BY InitInv DEF FeedInit, Init, UnmixedInv, SequencesAreUnmixed, OnlyTransmittedMessages

LEMMA UnmixedNext == UnmixedInv /\ [FeedNext]_feedVars => UnmixedInv'
<1> SUFFICES ASSUME UnmixedInv, [FeedNext]_feedVars PROVE UnmixedInv'
  OBVIOUS
<1>1. ASSUME NEW t \in Transmissions, NEW i \in 1 .. Header[t].part_count,
             Receive(t, i)
      PROVE  UnmixedInv'
  BY <1>1, ReceiveUnmixed
<1>2. CASE Evict
  <2>1. Inv'
    BY <1>2, NextInv DEF Evict, Next, UnmixedInv
  <2> QED
    BY <1>2, <2>1 DEF Evict, Reset, UnmixedInv, SequencesAreUnmixed,
                      OnlyTransmittedMessages
<1>3. CASE UNCHANGED feedVars
  <2>1. Inv'
    BY <1>3, NextInv DEF feedVars, vars, UnmixedInv
  <2> QED
    BY <1>3, <2>1 DEF feedVars, UnmixedInv, SequencesAreUnmixed, Collects,
                      OnlyTransmittedMessages
<1> QED
  BY <1>1, <1>2, <1>3 DEF FeedNext

(* Whatever the medium loses, repeats or reorders, and whenever the caller  *)
(* resets: as long as the multi-part transmissions differ in seq_id, count  *)
(* or type, every message handed to the caller is exactly one that was      *)
(* transmitted, with its own flag, talker and fill bits.                    *)
THEOREM NothingIsSpliced == FeedSpec => []OnlyTransmittedMessages
<1>1. UnmixedInv => OnlyTransmittedMessages
  BY DEF UnmixedInv
<1> QED
  BY UnmixedInitially, UnmixedNext, <1>1, PTL DEF FeedSpec

(* In the same circumstances every sequence in the buffer holds the first   *)
(* parts of a single transmission, under that transmission's header.        *)
THEOREM SequencesStayUnmixed == FeedSpec => []SequencesAreUnmixed
<1>1. UnmixedInv => SequencesAreUnmixed
  BY DEF UnmixedInv
<1> QED
  BY UnmixedInitially, UnmixedNext, <1>1, PTL DEF FeedSpec

-----------------------------------------------------------------------------
(* Transmissions that make the same message are the same.                   *)
LEMMA SameMessage ==
  ASSUME NEW t \in Transmissions, NEW u \in Transmissions,
         Complete(MessageOf(t)) = Complete(MessageOf(u))
  PROVE  t = u
<1>1. Header[t].part_count \in Nat \ {0} /\ Header[u].part_count \in Nat \ {0}
  BY TrafficAssumption, SentencesAssumption
<1>2. MessageOf(t) = MessageOf(u)
  BY DEF Complete
<1>3. MessageOf(t).payload[1] = Fragment(t, 1) /\ MessageOf(u).payload[1] = Fragment(u, 1)
  BY <1>1 DEF MessageOf
<1> QED
  BY <1>2, <1>3 DEF Fragment

(* A sequence of several parts collects one transmission.                   *)
LEMMA SameCollected ==
  ASSUME NEW seq, NEW id, NEW t \in Transmissions, NEW u \in Transmissions,
         Collects(seq, id, t), Collects(seq, id, u), Header[t].part_count > 1
  PROVE  t = u
BY DistinctKeys DEF Collects

(* Hearing a sentence takes nothing back, and is about one transmission.    *)
LEMMA Heard ==
  ASSUME HeardOK, NEW t \in Transmissions, NEW i \in 1 .. Header[t].part_count
  PROVE  /\ \A u \in Transmissions :
              /\ Hear(t, i)[u] \in Nat
              /\ heard[u] <= Hear(t, i)[u] /\ Hear(t, i)[u] <= Header[u].part_count
              /\ u # t => Hear(t, i)[u] = heard[u]
         /\ i - 1 <= heard[t] => i <= Hear(t, i)[t]
<1>1. /\ heard \in [Transmissions -> Nat]
      /\ \A u \in Transmissions : heard[u] <= Header[u].part_count
  BY DEF HeardOK
<1>2. Header[t].part_count \in Nat /\ i \in Nat
  BY TrafficAssumption, SentencesAssumption
<1>3. /\ Hear(t, i)[t] = IF i = heard[t] + 1 THEN i ELSE heard[t]
      /\ \A u \in Transmissions : u # t => Hear(t, i)[u] = heard[u]
  BY <1>1 DEF Hear
<1>4. heard[t] \in Nat /\ heard[t] <= Header[t].part_count
  BY <1>1
<1>5. /\ Hear(t, i)[t] \in Nat
      /\ heard[t] <= Hear(t, i)[t] /\ Hear(t, i)[t] <= Header[t].part_count
      /\ i - 1 <= heard[t] => i <= Hear(t, i)[t]
  BY <1>2, <1>3, <1>4
<1>6. ASSUME NEW u \in Transmissions, u # t
      PROVE  /\ Hear(t, i)[u] \in Nat
             /\ heard[u] <= Hear(t, i)[u] /\ Hear(t, i)[u] <= Header[u].part_count
  BY <1>1, <1>3, <1>6
<1> QED
  BY <1>3, <1>5, <1>6

(* Of a message whose next part is due, all the parts before were heard.    *)
LEMMA DueIsHeard ==
  ASSUME Inv, SequencesAreUnmixed, HeardOK, ReceivedIsHeard,
         NEW t \in Transmissions, NEW i \in 1 .. Header[t].part_count,
         IsDue(Part(t, i))
  PROVE  i - 1 <= heard[t] /\ Stored(Part(t, i)).received = i
<1> DEFINE s == Part(t, i)
           seq == sequences[s.seq_id]
<1>1. /\ s \in Sentence /\ s.part_index = i /\ Existing(s) = seq /\ IsDue(s)
      /\ Collects(Existing(s), s.seq_id, t)
  BY PartIsSentence, StoredIsUnmixed DEF Existing
<1> HIDE DEF s
<1>2. /\ s.seq_id \in DOMAIN sequences
      /\ s.part_index = seq.received + 1
      /\ s.part_count = seq.part_count /\ Stored(s) = Store(seq, s)
  BY <1>1 DEF IsDue, InProgress, SameCount, ExpectedNext, Existing, Stored
<1>3. GoodSequence(seq)
  BY <1>1, <1>2, InvByEntry
<1>4. seq.received <= heard[t] /\ seq.received \in Nat /\ heard[t] \in Nat
  BY <1>1, <1>2, <1>3, SentencesAssumption
     DEF ReceivedIsHeard, HeardOK, GoodSequence, SequenceRecord
<1>5. Store(seq, s).received = seq.received + 1
  BY <1>1, <1>2, <1>3, StoredSequence
<1> QED
  BY <1>1, <1>2, <1>4, <1>5 DEF s

(* What a call hands on is the message of the sentence fed, and all its     *)
(* sentences have then been heard.                                          *)
LEMMA HandedOnIsHeard ==
  ASSUME UnmixedInv, HeardInv,
         NEW t \in Transmissions, NEW i \in 1 .. Header[t].part_count,
         Receive(t, i), NEW u \in Transmissions, HandsOn(u)
  PROVE  u = t /\ Hear(t, i)[u] = Header[u].part_count
<1> DEFINE s == Part(t, i)
<1>1. Inv /\ SequencesAreUnmixed /\ HeardOK /\ ReceivedIsHeard /\ Feed(s)
  BY DEF UnmixedInv, HeardInv, Receive
<1>2. /\ Hear(t, i)[t] \in Nat /\ Hear(t, i)[t] <= Header[t].part_count
      /\ i - 1 <= heard[t] => i <= Hear(t, i)[t]
  BY <1>1, Heard
<1>3. Header[t].part_count \in Nat /\ i \in Nat /\ s.part_index = i
  BY PartIsSentence, TrafficAssumption, SentencesAssumption
<1>4. ASSUME result' = Complete(MessageOf(t)), i = Header[t].part_count, i - 1 <= heard[t]
      PROVE  u = t /\ Hear(t, i)[u] = Header[u].part_count
  <2>1. u = t
    BY <1>4, SameMessage DEF HandsOn
  <2> QED
    BY <1>2, <1>3, <1>4, <2>1
<1>5. CASE FeedSinglePart(s)
  <2>1. result' = Complete(MessageOf(t)) /\ Header[t].part_count = 1 /\ i = 1
    BY <1>5, OnlyCompletes
  <2>2. i - 1 <= heard[t]
    BY <1>1, <2>1 DEF HeardOK
  <2> QED
    BY <1>4, <2>1, <2>2
<1>6. CASE FeedFinal(s)
  <2>1. result' = Complete(MessageOf(t)) /\ i = Header[t].part_count
    BY <1>1, <1>6, LastCompletes
  <2>2. i - 1 <= heard[t]
    BY <1>1, <1>3, <1>6, DueIsHeard DEF FeedFinal, ReturnMessage
  <2> QED
    BY <1>4, <2>1, <2>2
<1>7. CASE ~FeedSinglePart(s) /\ ~FeedFinal(s)
  <2>1. result'.kind # "message"
    BY <1>1, <1>7 DEF Feed, FeedOpen, FeedNotFirst, FeedCountMismatch, FeedTypeMismatch,
                      FeedDuplicate, FeedGap, FeedMiddle, ReturnError, Failure, Nullopt
  <2> QED
    BY <2>1 DEF HandsOn, Complete
<1> QED
  BY <1>5, <1>6, <1>7

(* One turn of the caller's loop preserves HeardInv.                        *)
LEMMA ReceiveHeard ==
  ASSUME UnmixedInv, HeardInv,
         NEW t \in Transmissions, NEW i \in 1 .. Header[t].part_count,
         Receive(t, i)
  PROVE  HeardInv'
<1> DEFINE s == Part(t, i)
<1>1. Inv /\ SequencesAreUnmixed /\ HeardOK /\ ReceivedIsHeard /\ Feed(s)
  BY DEF UnmixedInv, HeardInv, Receive
<1>2. heard' = [u \in Transmissions |-> IF HandsOn(u) THEN 0 ELSE Hear(t, i)[u]]
  BY DEF Receive
<1>3. /\ s.part_count = Header[t].part_count /\ s.part_index = i
      /\ s \in Sentence /\ i \in Nat
      /\ IsMultipart(s) => s.seq_id = Header[t].seq_id
      /\ \A u \in Transmissions : Header[u].part_count \in Nat
  BY PartIsSentence, TrafficAssumption, SentencesAssumption
<1>4. HeardOK'
  BY <1>1, <1>2, <1>3, Heard DEF HeardOK
<1>5. ASSUME NEW id \in DOMAIN sequences, NEW u \in Transmissions,
             Collects(sequences[id], id, u), ~HandsOn(u)
      PROVE  sequences[id].received <= heard'[u]
  <2>1. sequences[id].received <= heard[u] /\ sequences[id].received \in Nat
    <3>1. GoodSequence(sequences[id])
      BY <1>1, InvByEntry
    <3> QED
      BY <1>1, <1>5, <3>1, SentencesAssumption
         DEF ReceivedIsHeard, GoodSequence, SequenceRecord
  <2>2. heard[u] \in Nat /\ heard[u] <= Hear(t, i)[u] /\ Hear(t, i)[u] \in Nat
    BY <1>1, Heard DEF HeardOK
  <2> QED
    BY <1>2, <1>5, <2>1, <2>2
<1>6. ASSUME NEW u \in Transmissions, HandsOn(u) PROVE u = t
  BY <1>6, HandedOnIsHeard
<1> HIDE DEF s
<1>7. CASE FeedSinglePart(s)
  <2>1. sequences' = sequences /\ Header[t].part_count = 1
    BY <1>3, <1>7 DEF FeedSinglePart
  <2>2. ASSUME NEW id \in DOMAIN sequences, Collects(sequences[id], id, t) PROVE FALSE
    <3>1. GoodSequence(sequences[id])
      BY <1>1, InvByEntry
    <3>2. sequences[id].received \in 1 .. sequences[id].part_count - 1
          /\ sequences[id].part_count = 1
      BY <2>1, <2>2, <3>1 DEF Collects, GoodSequence, SequenceOK
    <3> QED
      BY <3>2
  <2>3. ReceivedIsHeard'
    BY <1>5, <1>6, <2>1, <2>2 DEF ReceivedIsHeard, Collects
  <2> QED
    BY <1>4, <2>3 DEF HeardInv
<1>8. CASE \/ FeedNotFirst(s) \/ FeedCountMismatch(s) \/ FeedTypeMismatch(s)
           \/ FeedDuplicate(s) \/ FeedGap(s)
  <2>1. sequences' = sequences /\ result'.kind # "message"
    BY <1>8 DEF FeedNotFirst, FeedCountMismatch, FeedTypeMismatch, FeedDuplicate,
                FeedGap, ReturnError, Failure
  <2>2. \A u \in Transmissions : ~HandsOn(u)
    BY <2>1 DEF HandsOn, Complete
  <2>3. ReceivedIsHeard'
    BY <1>5, <2>1, <2>2 DEF ReceivedIsHeard, Collects
  <2> QED
    BY <1>4, <2>3 DEF HeardInv
<1>9. CASE FeedOpen(s) \/ FeedMiddle(s)
  <2>1. \A u \in Transmissions : ~HandsOn(u)
    BY <1>9 DEF FeedOpen, FeedMiddle, Nullopt, HandsOn, Complete
  <2>2. /\ Collects(sequences'[s.seq_id], s.seq_id, t)
        /\ sequences'[s.seq_id].received = i
        /\ i - 1 <= heard[t] /\ IsMultipart(s)
        /\ \A id \in DOMAIN sequences' :
             id # s.seq_id => id \in DOMAIN sequences /\ sequences'[id] = sequences[id]
    <3>1. CASE FeedOpen(s)
      <4>1. Collects(sequences'[s.seq_id], s.seq_id, t)
        BY <3>1, OpenedIsUnmixed DEF s
      <4>2. /\ IsMultipart(s) /\ s.part_index = 1
            /\ sequences'[s.seq_id] = Store(NewSequence(s), s)
            /\ \A id \in DOMAIN sequences' :
                 id # s.seq_id => id \in DOMAIN sequences /\ sequences'[id] = sequences[id]
        BY <3>1 DEF FeedOpen
      <4>3. sequences'[s.seq_id].received = 1
        BY <1>3, <4>2, OpenedSequence
      <4>4. heard[t] \in Nat /\ i = 1
        BY <1>1, <1>3, <4>2 DEF HeardOK
      <4> QED
        BY <4>1, <4>2, <4>3, <4>4
    <3>2. CASE FeedMiddle(s)
      <4>1. IsDue(s) /\ IsMultipart(s) /\ s.seq_id \in DOMAIN sequences
        BY <3>2 DEF FeedMiddle, IsDue, InProgress
      <4>2. Collects(Stored(s), s.seq_id, t) /\ sequences'[s.seq_id] = Stored(s)
        BY <1>1, <3>2, <4>1, StoredIsUnmixed DEF FeedMiddle, s
      <4>3. i - 1 <= heard[t] /\ Stored(s).received = i
        BY <1>1, <4>1, DueIsHeard DEF s
      <4>4. \A id \in DOMAIN sequences' :
              id # s.seq_id => id \in DOMAIN sequences /\ sequences'[id] = sequences[id]
        BY <3>2 DEF FeedMiddle
      <4> QED
        BY <4>1, <4>2, <4>3, <4>4
    <3> QED
      BY <1>9, <3>1, <3>2
  <2>3. i <= heard'[t]
    BY <1>1, <1>2, <2>1, <2>2, Heard
  <2>4. ASSUME NEW id \in DOMAIN sequences', NEW u \in Transmissions,
               Collects(sequences'[id], id, u)
        PROVE  sequences'[id].received <= heard'[u]
    <3>1. CASE id = s.seq_id
      <4>1. Header[t].part_count > 1
        BY <1>3, <2>2 DEF IsMultipart
      <4>2. u = t
        BY <2>2, <2>4, <3>1, <4>1, SameCollected
      <4> QED
        BY <2>2, <2>3, <3>1, <4>2
    <3>2. CASE id # s.seq_id
      BY <1>5, <2>1, <2>2, <2>4, <3>2
    <3> QED
      BY <3>1, <3>2
  <2>5. ReceivedIsHeard'
    BY <2>4 DEF ReceivedIsHeard, Collects
  <2> QED
    BY <1>4, <2>5 DEF HeardInv
<1>10. CASE FeedFinal(s)
  <2>1. IsMultipart(s) /\ \A id \in DOMAIN sequences' :
          id # s.seq_id /\ id \in DOMAIN sequences /\ sequences'[id] = sequences[id]
    BY <1>10 DEF FeedFinal, ReturnMessage, IsDue
  <2>2. ASSUME NEW id \in DOMAIN sequences', NEW u \in Transmissions,
               Collects(sequences'[id], id, u)
        PROVE  sequences'[id].received <= heard'[u]
    <3>1. ~HandsOn(u)
      BY <1>3, <1>6, <2>1, <2>2 DEF Collects
    <3> QED
      BY <1>5, <2>1, <2>2, <3>1
  <2>3. ReceivedIsHeard'
    BY <2>2 DEF ReceivedIsHeard, Collects
  <2> QED
    BY <1>4, <2>3 DEF HeardInv
<1> QED
  BY <1>1, <1>7, <1>8, <1>9, <1>10 DEF Feed

LEMMA HeardInitially == FeedInit => HeardInv
BY TrafficAssumption, SentencesAssumption
   DEF FeedInit, Init, HeardInv, HeardOK, ReceivedIsHeard

LEMMA HeardNext == UnmixedInv /\ HeardInv /\ [FeedNext]_feedVars => HeardInv'
<1> SUFFICES ASSUME UnmixedInv, HeardInv, [FeedNext]_feedVars PROVE HeardInv'
  OBVIOUS
<1>1. ASSUME NEW t \in Transmissions, NEW i \in 1 .. Header[t].part_count,
             Receive(t, i)
      PROVE  HeardInv'
  BY <1>1, ReceiveHeard
<1>2. CASE Evict
  BY <1>2, TrafficAssumption, SentencesAssumption
     DEF Evict, Reset, HeardInv, HeardOK, ReceivedIsHeard
<1>3. CASE UNCHANGED feedVars
  BY <1>3 DEF feedVars, HeardInv, HeardOK, ReceivedIsHeard, Collects
<1> QED
  BY <1>1, <1>2, <1>3 DEF FeedNext

(* No sentence serves twice: whatever the medium loses, repeats or reorders,*)
(* a message is handed on only when all its sentences have arrived in order *)
(* since it was handed on before and since the last reset().  A medium that *)
(* brings them all twice does have it handed on twice.                      *)
THEOREM EachSentenceServesOnce == FeedSpec => NoSentenceServesTwice
<1>1. UnmixedInv /\ HeardInv /\ [FeedNext]_feedVars =>
        [\A u \in Transmissions : HandsOn(u) =>
           \A t \in Transmissions : \A i \in 1 .. Header[t].part_count :
             Receive(t, i) => Hear(t, i)[u] = Header[u].part_count]_feedVars
  BY HandedOnIsHeard
<1> QED
  BY UnmixedInitially, UnmixedNext, HeardInitially, HeardNext, <1>1, PTL
     DEF FeedSpec, NoSentenceServesTwice
=============================================================================
