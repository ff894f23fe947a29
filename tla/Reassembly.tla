------------------------------ MODULE Reassembly ------------------------------
(***************************************************************************)
(* What a SentenceAssembler promises its caller, whatever it stores.  Each  *)
(* seq_id is a slot of its own.  An open slot has seen a first part and the *)
(* parts after it, in order and without a gap; a part that fits is taken, a *)
(* part that does not fit is refused and has no effect; the part that       *)
(* completes the slot yields the message made of exactly the parts taken    *)
(* since the slot was opened, and frees the slot.                           *)
(***************************************************************************)
EXTENDS Sentences

VARIABLES
  slots,   \* the open slots: a function from some of SeqIds to Slot
  answer   \* what the last call answered

vars == <<slots, answer>>

Slot == [count : 2 .. kMaxSentenceParts, type : SentenceTypes,
         talker : Talkers, got : Seq(Payloads)]

Init == slots = <<>> /\ answer = Idle

(* The parts of the sequence taken so far, none when the slot is free.      *)
Open(s) == s.seq_id \in DOMAIN slots

(* The next part of the message the slot is collecting.                     *)
Fits(s) ==
  IF Open(s)
  THEN /\ s.part_count = slots[s.seq_id].count
       /\ s.sentence_type = slots[s.seq_id].type
       /\ s.part_index = Len(slots[s.seq_id].got) + 1
  ELSE s.part_index = 1

MessageOf(payloads, s, talker) ==
  [payload |-> payloads, fill_bits |-> s.fill_bits,
   is_own_vessel |-> s.sentence_type = "VDO", talker |-> talker]

Whole(s) ==
  /\ s.part_count = 1
  /\ answer' = Complete(MessageOf(<<s.payload>>, s, s.talker))
  /\ UNCHANGED slots

Begin(s) ==
  /\ s.part_count > 1 /\ ~Open(s) /\ Fits(s)
  /\ slots' = [id \in DOMAIN slots \cup {s.seq_id} |->
                 IF id = s.seq_id
                 THEN [count |-> s.part_count, type |-> s.sentence_type,
                       talker |-> s.talker, got |-> <<s.payload>>]
                 ELSE slots[id]]
  /\ answer' = Nullopt

Continue(s) ==
  /\ s.part_count > 1 /\ Open(s) /\ Fits(s)
  /\ s.part_index < s.part_count
  /\ slots' = [slots EXCEPT ![s.seq_id].got = Append(@, s.payload)]
  /\ answer' = Nullopt

Finish(s) ==
  /\ s.part_count > 1 /\ Open(s) /\ Fits(s)
  /\ s.part_index = s.part_count
  /\ answer' = Complete(MessageOf(Append(slots[s.seq_id].got, s.payload), s,
                                  slots[s.seq_id].talker))
  /\ slots' = [id \in DOMAIN slots \ {s.seq_id} |-> slots[id]]

Refuse(s) ==
  /\ s.part_count > 1 /\ ~Fits(s)
  /\ answer' \in {Failure(code) : code \in FeedErrors}
  /\ UNCHANGED slots

Call(s) == Whole(s) \/ Begin(s) \/ Continue(s) \/ Finish(s) \/ Refuse(s)

Forget ==
  /\ slots' = <<>>
  /\ answer' = Idle

Next ==
  \/ \E s \in Sentence : Call(s)
  \/ Forget

Spec == Init /\ [][Next]_vars
=============================================================================
