-------------------------- MODULE StationFeed_proofs --------------------------
(***************************************************************************)
(* Theorems about StationFeed, for any number of stations, scripts, faults  *)
(* and repetitions, provided the seq_ids tell the messages apart            *)
(* (SeqIdsTellApart; without it the run reused_seq_id shows what happens).  *)
(*                                                                          *)
(* None of the safety properties is inductive: that what is delivered was   *)
(* transmitted depends on what the buffer holds, and that on where each     *)
(* station is.  StationInv says it.  Each open sequence is the first r      *)
(* sentences of a scripted message that its station is sending, or that a   *)
(* fault has touched (SequencesHeld); what is being sent undamaged has all  *)
(* its sentences so far in the buffer (UndamagedOpen).  So a sentence fed is*)
(* the next one of its message, one of a message that is over, or the last  *)
(* one once more, and SplitFed says what feed() answers in each case.       *)
(***************************************************************************)
EXTENDS StationFeed, SentenceAssembler_proofs

(* The sentences of a transmission.                                         *)
SplitOf(t) == [i \in 1 .. Header[t].part_count |-> Part(t, i)]
HoldsOf(t, r) == Holds(SplitOf(t), r)

(* The r first sentences of the n-th message of st are in the buffer.  Only *)
(* what a fault has touched is incomplete there longer than it is being     *)
(* sent, or is incomplete by more than what is still to come.               *)
HeldAt(st, n, r) ==
  /\ HoldsOf(Script[st][n], r)
  /\ n <= at[st].msg
  /\ n = at[st].msg => r < at[st].part
  /\ n < at[st].msg => Script[st][n] \in damaged
  /\ \/ online /\ "loss" \notin Faults
     \/ Script[st][n] \notin damaged
     => n = at[st].msg /\ r = at[st].part - 1

FeedTypeOK ==
  /\ at \in [Stations -> [msg : Nat, part : Nat]]
  /\ \A st \in Stations :
       /\ at[st].msg \in 1 .. Len(Script[st]) + 1
       /\ at[st].part >= 1
       /\ IF Done(st) THEN at[st].part = 1
                      ELSE at[st].part <= Header[Sending(st)].part_count
  /\ online \in BOOLEAN
  /\ delivered \in Seq({MessageOf(t) : t \in Transmissions})

(* Every open sequence is the beginning of a scripted message.              *)
SequencesHeld ==
  \A id \in DOMAIN sequences :
    \E st \in Stations : \E n \in 1 .. Len(Script[st]) : \E r \in Nat :
      Header[Script[st][n]].seq_id = id /\ HeldAt(st, n, r)

(* What is being sent and undamaged has all its sentences so far in there.  *)
UndamagedOpen ==
  \A st \in Stations :
    ~Done(st) /\ at[st].part > 1 /\ Sending(st) \notin damaged
    => HoldsOf(Sending(st), at[st].part - 1)

StationInv ==
  /\ Inv /\ FeedTypeOK
  /\ SequencesHeld /\ UndamagedOpen
  /\ IntactMessagesDelivered

-----------------------------------------------------------------------------
(* The sentences of a transmission are sentences parse() returns, and the   *)
(* message they make is the one transmitted.                                *)
LEMMA TransmissionSplit ==
  ASSUME NEW t \in Transmissions
  PROVE  /\ Split(SplitOf(t))
         /\ Len(SplitOf(t)) = Header[t].part_count
         /\ Header[t].part_count \in Nat \ {0}
         /\ \A i \in 1 .. Header[t].part_count : SplitOf(t)[i] = Part(t, i)
         /\ Multipart(t) => SplitOf(t)[1].seq_id = Header[t].seq_id
         /\ WholeMessage(SplitOf(t)) = MessageOf(t)
<1> DEFINE ss == SplitOf(t)
           count == Header[t].part_count
<1>1. /\ Header[t].talker \in Talkers
      /\ Header[t].sentence_type \in SentenceTypes
      /\ count \in 1 .. kMaxSentenceParts
      /\ Header[t].seq_id \in SeqIds
      /\ Header[t].fill_bits \in FillBits
      /\ \A i \in 1 .. count : Fragment(t, i) \in Payloads \ {NoPayload}
      /\ 0 \in FillBits
  BY TrafficAssumption
<1>2. count \in Nat \ {0} /\ \A i \in 1 .. count : i \in 1 .. kMaxSentenceParts /\ i <= count
  BY <1>1, SentencesAssumption
<1>3. Len(ss) = count /\ \A i \in 1 .. count : ss[i] = Part(t, i)
  BY <1>2 DEF SplitOf
<1>4. Header[t].seq_id # NoSeqId
  BY <1>1, SentencesAssumption
<1>5. ASSUME NEW i \in 1 .. count
      PROVE  /\ Part(t, i) \in Sentence
             /\ Part(t, i).part_count = count
             /\ Part(t, i).part_index = i
             /\ Part(t, i).seq_id = IF count = 1 THEN NoSeqId ELSE Header[t].seq_id
             /\ Part(t, i).sentence_type = Header[t].sentence_type
             /\ Part(t, i).talker = Header[t].talker
             /\ Part(t, i).payload = Fragment(t, i)
             /\ i = count => Part(t, i).fill_bits = Header[t].fill_bits
  <2>1. Part(t, i) \in Sentence
    BY <1>1, <1>2, <1>4 DEF Sentence, Part
  <2> QED
    BY <2>1 DEF Part
<1>6. ss \in Seq(Sentence)
  BY <1>2, <1>5 DEF SplitOf
<1>7. 1 \in 1 .. count /\ count \in 1 .. count
  BY <1>2
<1> HIDE DEF ss, count
<1>8. Split(ss)
  BY <1>2, <1>3, <1>5, <1>6, <1>7 DEF Split
<1>9. WholeMessage(ss) = MessageOf(t)
  <2>1. FirstPayloads(ss, count) = [i \in 1 .. count |-> Fragment(t, i)]
    BY <1>3, <1>5 DEF FirstPayloads
  <2>2. /\ ss[1].sentence_type = Header[t].sentence_type /\ ss[1].talker = Header[t].talker
        /\ ss[count].fill_bits = Header[t].fill_bits
    BY <1>3, <1>5, <1>7
  <2> QED
    BY <1>3, <2>1, <2>2 DEF WholeMessage, MessageOf, count
<1>10. Multipart(t) => ss[1].seq_id = Header[t].seq_id
  BY <1>2, <1>3, <1>5, <1>7 DEF Multipart, count
<1> QED
  BY <1>2, <1>3, <1>8, <1>9, <1>10 DEF ss, count

(* The fragments tell which transmission a slot has taken, and how much.    *)
LEMMA SameSlot ==
  ASSUME NEW t \in Transmissions, NEW u \in Transmissions,
         NEW r \in 1 .. Len(SplitOf(t)) - 1, NEW q \in 1 .. Len(SplitOf(u)) - 1,
         SlotAfter(SplitOf(t), r) = SlotAfter(SplitOf(u), q)
  PROVE  t = u /\ r = q
<1>1. ASSUME NEW v \in Transmissions, NEW p \in 1 .. Len(SplitOf(v)) - 1
      PROVE  /\ Len(SlotAfter(SplitOf(v), p).got) = p
             /\ SlotAfter(SplitOf(v), p).got[1].of = v
  <2> DEFINE ss == SplitOf(v)
  <2>1. Split(ss) /\ Len(ss) \in Nat /\ Len(ss) = Header[v].part_count
        /\ \A i \in 1 .. Header[v].part_count : ss[i] = Part(v, i)
    BY TransmissionSplit
  <2>2. p \in 1 .. Len(ss) - 1
    OBVIOUS
  <2> HIDE DEF ss
  <2>3. p \in 1 .. Len(ss) /\ 1 \in 1 .. p /\ 1 \in 1 .. Len(ss)
    BY <2>1, <2>2
  <2>4. Len(FirstPayloads(ss, p)) = p
    BY <2>1, <2>3, PayloadsGrow
  <2>5. FirstPayloads(ss, p)[1].of = v
    <3>1. FirstPayloads(ss, p)[1] = ss[1].payload
      BY <2>3 DEF FirstPayloads
    <3>2. ss[1] = Part(v, 1)
      BY <2>1, <2>3
    <3> QED
      BY <3>1, <3>2 DEF Part, Fragment
  <2> QED
    BY <2>4, <2>5 DEF SlotAfter, ss
<1> QED
  BY <1>1

(* What is in the buffer of a transmission is in the slot of its seq_id.    *)
LEMMA HeldParts ==
  ASSUME NEW t \in Transmissions, NEW r, HoldsOf(t, r)
  PROVE  /\ Multipart(t) /\ r \in 1 .. Header[t].part_count - 1 /\ r \in Nat
         /\ ~Vacant(Header[t].seq_id)
         /\ SplitOf(t)[1].seq_id = Header[t].seq_id
BY TransmissionSplit DEF HoldsOf, Holds, Multipart

(* Two transmissions in one slot are one transmission, as far along.        *)
LEMMA SameHolder ==
  ASSUME NEW t \in Transmissions, NEW u \in Transmissions, NEW r, NEW q,
         HoldsOf(t, r), HoldsOf(u, q), Header[t].seq_id = Header[u].seq_id
  PROVE  t = u /\ r = q
<1>1. SlotAfter(SplitOf(t), r) = SlotAfter(SplitOf(u), q)
  BY HeldParts DEF HoldsOf, Holds
<1>2. r \in 1 .. Len(SplitOf(t)) - 1 /\ q \in 1 .. Len(SplitOf(u)) - 1
  BY DEF HoldsOf, Holds
<1> QED
  BY <1>1, <1>2, SameSlot

-----------------------------------------------------------------------------
(* A sentence that can reach the caller now: the one st sends next, the one *)
(* before it, or the last of the message before.                            *)
Place(st, n, k) ==
  /\ st \in Stations /\ n \in 1 .. Len(Script[st]) /\ n \in Nat
  /\ k \in 1 .. Header[Script[st][n]].part_count /\ k \in Nat
  /\ \/ n = at[st].msg /\ k \in {at[st].part - 1, at[st].part}
     \/ n = at[st].msg - 1 /\ at[st].part = 1 /\ k = Header[Script[st][n]].part_count

(* What a script names is a transmission.                                   *)
LEMMA PlaceTransmission ==
  ASSUME NEW st \in Stations, NEW n \in 1 .. Len(Script[st])
  PROVE  Script[st][n] \in Transmissions /\ Script[st][n] \in Scripted(st)
BY StationAssumption DEF Scripted

(* Where the message lies that an open sequence belongs to.                 *)
LEMMA WhoHolds ==
  ASSUME FeedTypeOK, SequencesHeld,
         NEW u \in Transmissions, Multipart(u), ~Vacant(Header[u].seq_id)
  PROVE  \E su \in Stations : \E m \in 1 .. Len(Script[su]) : \E r \in Nat :
           /\ Header[Script[su][m]].seq_id = Header[u].seq_id
           /\ HeldAt(su, m, r) /\ HoldsOf(Script[su][m], r)
           /\ Script[su][m] \in Transmissions /\ Multipart(Script[su][m])
           /\ r >= 1 /\ m \in Nat
<1>1. Header[u].seq_id \in DOMAIN sequences
  BY DEF Vacant, Slots
<1>2. PICK su \in Stations : \E m \in 1 .. Len(Script[su]) : \E r \in Nat :
        Header[Script[su][m]].seq_id = Header[u].seq_id /\ HeldAt(su, m, r)
  BY <1>1 DEF SequencesHeld
<1>2a. PICK m \in 1 .. Len(Script[su]), r \in Nat :
        Header[Script[su][m]].seq_id = Header[u].seq_id /\ HeldAt(su, m, r)
  BY <1>2
<1>3. HoldsOf(Script[su][m], r) /\ Script[su][m] \in Transmissions
  BY <1>2a, PlaceTransmission DEF HeldAt
<1>4. Multipart(Script[su][m]) /\ r \in 1 .. Header[Script[su][m]].part_count - 1
  BY <1>3, HeldParts
<1>5. r >= 1 /\ m \in Nat
  BY <1>4
<1> QED
  BY <1>2a, <1>3, <1>4, <1>5

(* The sequence id of a sentence that arrives is free or holds the message  *)
(* of that sentence: this is what SeqIdsTellApart is for.                   *)
LEMMA HeldIsFed ==
  ASSUME StationInv, SeqIdsTellApart, online,
         NEW st, NEW n, NEW k, Place(st, n, k),
         Multipart(Script[st][n]), ~Vacant(Header[Script[st][n]].seq_id)
  PROVE  \E r \in Nat : r >= 1 /\ HeldAt(st, n, r) /\ HoldsOf(Script[st][n], r)
<1> DEFINE u == Script[st][n]
<1>1. /\ st \in Stations /\ n \in 1 .. Len(Script[st]) /\ n \in Nat
      /\ u \in Transmissions /\ u \in Scripted(st)
  BY PlaceTransmission DEF Place
<1>1a. PICK su \in Stations :
         \E m \in 1 .. Len(Script[su]) : \E r \in Nat :
           /\ Header[Script[su][m]].seq_id = Header[u].seq_id
           /\ HeldAt(su, m, r) /\ HoldsOf(Script[su][m], r)
           /\ Script[su][m] \in Transmissions /\ Multipart(Script[su][m])
           /\ r >= 1 /\ m \in Nat
  BY <1>1, WhoHolds DEF StationInv
<1>2. PICK m \in 1 .. Len(Script[su]), r \in Nat :
        /\ Header[Script[su][m]].seq_id = Header[u].seq_id
        /\ HeldAt(su, m, r) /\ HoldsOf(Script[su][m], r)
        /\ Script[su][m] \in Transmissions /\ Multipart(Script[su][m])
        /\ r >= 1 /\ m \in Nat
  BY <1>1a
<1>3. CASE FreshSeqIds
  <2>1. Script[su][m] = Script[st][n]
    BY <1>1, <1>2, <1>3 DEF FreshSeqIds
  <2>2. su = st /\ m = n
    BY <1>1, <1>2, <2>1 DEF SeqIdsTellApart, SentOnce
  <2> QED
    BY <1>2, <2>2
<1>4. CASE "loss" \notin Faults /\ OwnSeqIds
  <2>1. Script[su][m] \in Scripted(su)
    BY PlaceTransmission
  <2>2. su = st
    BY <1>1, <1>2, <1>4, <2>1 DEF OwnSeqIds
  <2>3. m = at[st].msg /\ r = at[st].part - 1
    BY <1>2, <1>4, <2>2 DEF HeldAt
  <2>4. at[st].part \in Nat
    BY <1>1 DEF StationInv, FeedTypeOK
  <2>5. at[st].part # 1
    BY <1>2, <2>3, <2>4
  <2>6. n = at[st].msg
    BY <2>5 DEF Place
  <2> QED
    BY <1>2, <2>2, <2>3, <2>6
<1> QED
  BY <1>3, <1>4 DEF SeqIdsTellApart

(* What becomes of a sentence that arrives.                                 *)
LEMMA Outcome ==
  ASSUME StationInv, SeqIdsTellApart, online,
         NEW st, NEW n, NEW k, Place(st, n, k), Feed(Part(Script[st][n], k))
  PROVE  LET ss == SplitOf(Script[st][n])
         IN  Passed(ss) \/ Taken(ss, k) \/ Completed(ss, k) \/ Refused(ss, k)
<1> DEFINE u == Script[st][n]
           ss == SplitOf(u)
<1>1. u \in Transmissions /\ k \in 1 .. Header[u].part_count
  BY PlaceTransmission DEF Place
<1>2. /\ Split(ss) /\ Len(ss) = Header[u].part_count /\ ss[k] = Part(u, k)
      /\ Multipart(u) => ss[1].seq_id = Header[u].seq_id
  BY <1>1, TransmissionSplit
<1>3. Multipart(u) <=> Len(ss) > 1
  BY <1>2 DEF Multipart
<1>4. Len(ss) > 1 => Vacant(ss[1].seq_id) \/ \E r \in Nat : Holds(ss, r)
  BY <1>2, <1>3, HeldIsFed DEF HoldsOf
<1>5. Inv /\ Feed(ss[k]) /\ k \in 1 .. Len(ss)
  BY <1>1, <1>2 DEF StationInv
<1> HIDE DEF ss
<1> QED
  BY <1>2, <1>4, <1>5, SplitFed DEF ss

(* The other messages stay as they are, and no third slot is opened.        *)
LEMMA OthersStay ==
  ASSUME StationInv, SeqIdsTellApart, online,
         NEW st, NEW n, NEW k, Place(st, n, k), Feed(Part(Script[st][n], k)),
         NEW t \in Transmissions, t # Script[st][n], NEW r \in Nat
  PROVE  HoldsOf(t, r)' <=> HoldsOf(t, r)
<1> DEFINE u == Script[st][n]
           ss == SplitOf(u)
           tt == SplitOf(t)
<1>1. u \in Transmissions
  BY PlaceTransmission DEF Place
<1>2. CASE Slots' = Slots
  BY <1>2 DEF HoldsOf, Holds, Vacant
<1>3. CASE Taken(ss, k) \/ Completed(ss, k)
  <2>1. OthersKept(ss) /\ Len(ss) > 1 /\ ss[1].seq_id = Header[u].seq_id /\ Multipart(u)
    <3>1. OthersKept(ss) /\ Len(ss) > 1
      BY <1>1, <1>3, TransmissionSplit DEF Taken, Completed, Place
    <3> QED
      BY <1>1, <3>1, TransmissionSplit DEF Multipart
  <2>2. CASE tt[1].seq_id # ss[1].seq_id
    BY <2>1, <2>2 DEF OthersKept, HoldsOf, Holds, Vacant
  <2>3. CASE tt[1].seq_id = ss[1].seq_id
    <3>1. ASSUME HoldsOf(t, r) PROVE FALSE
      <4>1. tt[1].seq_id = Header[t].seq_id /\ ~Vacant(Header[t].seq_id)
        BY <3>1, HeldParts
      <4>2. ~Vacant(Header[u].seq_id) /\ Header[t].seq_id = Header[u].seq_id
        BY <2>1, <2>3, <4>1
      <4>3. PICK q \in Nat : HoldsOf(u, q)
        BY <2>1, <4>2, HeldIsFed
      <4> QED
        BY <1>1, <3>1, <4>2, <4>3, SameHolder
    <3>2. ASSUME HoldsOf(t, r)' PROVE FALSE
      <4>1. /\ ~Vacant(ss[1].seq_id)' /\ r \in 1 .. Len(tt) - 1
            /\ Slots'[ss[1].seq_id] = SlotAfter(tt, r)
        BY <2>3, <3>2 DEF HoldsOf, Holds
      <4>2. Holds(ss, k)'
        BY <1>3, <4>1 DEF Taken, Completed
      <4>3. k \in 1 .. Len(ss) - 1 /\ Slots'[ss[1].seq_id] = SlotAfter(ss, k)
        BY <4>2 DEF Holds
      <4> QED
        BY <1>1, <4>1, <4>3, SameSlot
    <3> QED
      BY <3>1, <3>2
  <2> QED
    BY <2>2, <2>3
<1> QED
  BY <1>2, <1>3, Outcome DEF Passed, Refused

-----------------------------------------------------------------------------
(* What one turn of the caller's loop delivers: nothing, or the message of  *)
(* the sentence that arrived, when it is the only or the last missing one.  *)
LEMMA Deliveries ==
  ASSUME StationInv, SeqIdsTellApart, online,
         NEW st, NEW n, NEW k, Place(st, n, k), Process(Part(Script[st][n], k))
  PROVE  LET u == Script[st][n]
             ss == SplitOf(u)
         IN  /\ delivered' \in Seq({MessageOf(t) : t \in Transmissions})
             /\ IF Passed(ss) \/ Completed(ss, k)
                THEN delivered' = Append(delivered, MessageOf(u))
                ELSE delivered' = delivered
<1> DEFINE u == Script[st][n]
           ss == SplitOf(u)
<1>1. u \in Transmissions
  BY PlaceTransmission DEF Place
<1>2. WholeMessage(ss) = MessageOf(u)
  BY <1>1, TransmissionSplit
<1>3. /\ Feed(Part(u, k))
      /\ delivered' = IF result'.kind = "message" THEN Append(delivered, result'.message)
                                                   ELSE delivered
  BY DEF Process
<1>4. Passed(ss) \/ Taken(ss, k) \/ Completed(ss, k) \/ Refused(ss, k)
  BY <1>3, Outcome
<1>5. delivered \in Seq({MessageOf(t) : t \in Transmissions})
  BY DEF StationInv, FeedTypeOK
<1> HIDE DEF ss
<1>6. ASSUME Passed(ss) \/ Completed(ss, k)
      PROVE  delivered' = Append(delivered, MessageOf(u))
  <2>1. result' = Complete(MessageOf(u))
    BY <1>2, <1>6 DEF Passed, Completed
  <2>2. result'.kind = "message" /\ result'.message = MessageOf(u)
    BY <2>1 DEF Complete
  <2> QED
    BY <1>3, <2>2
<1>7. ASSUME ~(Passed(ss) \/ Completed(ss, k))
      PROVE  delivered' = delivered
  BY <1>3, <1>4, <1>7 DEF Taken, Refused
<1> QED
  BY <1>1, <1>5, <1>6, <1>7 DEF ss

(* What was delivered stays so, and what a call passes on or completes is.  *)
LEMMA DeliveredGrows ==
  ASSUME StationInv, SeqIdsTellApart, online,
         NEW st, NEW n, NEW k, Place(st, n, k), Process(Part(Script[st][n], k))
  PROVE  /\ \A t \in Transmissions : Delivered(t) => Delivered(t)'
         /\ LET ss == SplitOf(Script[st][n])
            IN  Passed(ss) \/ Completed(ss, k) => Delivered(Script[st][n])'
<1> DEFINE u == Script[st][n]
<1>1. delivered' = delivered \/ delivered' = Append(delivered, MessageOf(u))
  BY Deliveries
<1>2. delivered \in Seq({MessageOf(t) : t \in Transmissions}) /\ u \in Transmissions
  BY PlaceTransmission DEF StationInv, FeedTypeOK, Place
<1>3. CASE delivered' = delivered
  <2>1. CASE Passed(SplitOf(u)) \/ Completed(SplitOf(u), k)
    <3>1. delivered' = Append(delivered, MessageOf(u))
      BY <2>1, Deliveries
    <3> QED
      BY <1>2, <1>3, <3>1
  <2> QED
    BY <1>3, <2>1 DEF Delivered
<1>4. CASE delivered' = Append(delivered, MessageOf(u))
  <2> DEFINE len == Len(delivered)
  <2>1. /\ len \in Nat /\ Len(delivered') = len + 1 /\ delivered'[len + 1] = MessageOf(u)
        /\ \A i \in 1 .. len : delivered'[i] = delivered[i]
    BY <1>2, <1>4
  <2> HIDE DEF len
  <2>2. Delivered(u)'
    <3>1. len + 1 \in 1 .. Len(delivered')
      BY <2>1
    <3> QED
      BY <2>1, <3>1 DEF Delivered
  <2>3. ASSUME NEW t \in Transmissions, Delivered(t) PROVE Delivered(t)'
    <3>1. PICK i \in 1 .. len : delivered[i] = MessageOf(t)
      BY <2>3 DEF Delivered, len
    <3>2. i \in 1 .. Len(delivered')
      BY <2>1
    <3> QED
      BY <2>1, <3>1, <3>2 DEF Delivered
  <2> QED
    BY <2>2, <2>3
<1> QED
  BY <1>1, <1>3, <1>4

-----------------------------------------------------------------------------
(* Where the stations are.                                                  *)
LEMMA Position ==
  ASSUME FeedTypeOK, NEW st \in Stations
  PROVE  /\ at[st] = [msg |-> at[st].msg, part |-> at[st].part]
         /\ at[st].msg \in Nat /\ at[st].part \in Nat
         /\ at[st].msg >= 1 /\ at[st].msg <= Len(Script[st]) + 1 /\ Len(Script[st]) \in Nat
         /\ at[st].part >= 1
         /\ Done(st) => at[st].part = 1
         /\ ~Done(st) => /\ at[st].msg \in 1 .. Len(Script[st])
                         /\ Sending(st) \in Transmissions
                         /\ Header[Sending(st)].part_count \in Nat
                         /\ at[st].part <= Header[Sending(st)].part_count
<1>1. at[st] \in [msg : Nat, part : Nat] /\ Len(Script[st]) \in Nat
  BY StationAssumption DEF FeedTypeOK
<1>2. /\ at[st].msg \in 1 .. Len(Script[st]) + 1 /\ at[st].part >= 1
      /\ IF Done(st) THEN at[st].part = 1
                     ELSE at[st].part <= Header[Sending(st)].part_count
  BY DEF FeedTypeOK
<1>3. ASSUME ~Done(st)
      PROVE  /\ at[st].msg \in 1 .. Len(Script[st])
             /\ Sending(st) \in Transmissions
             /\ Header[Sending(st)].part_count \in Nat
  <2>1. at[st].msg \in 1 .. Len(Script[st])
    BY <1>1, <1>2, <1>3 DEF Done
  <2>2. Sending(st) \in Transmissions
    BY <2>1, PlaceTransmission DEF Sending
  <2> QED
    BY <2>1, <2>2, TransmissionSplit
<1> QED
  BY <1>1, <1>2, <1>3

(* The next position, and that it is again one in the script.               *)
LEMMA Advances ==
  ASSUME FeedTypeOK, NEW st \in Stations, ~Done(st), Advance(st)
  PROVE  /\ \A su \in Stations : su # st => at'[su] = at[su]
         /\ IF at[st].part < Header[Sending(st)].part_count
            THEN at'[st].msg = at[st].msg /\ at'[st].part = at[st].part + 1
            ELSE at'[st].msg = at[st].msg + 1 /\ at'[st].part = 1
         /\ at' \in [Stations -> [msg : Nat, part : Nat]]
         /\ \A su \in Stations :
              /\ at'[su].msg \in 1 .. Len(Script[su]) + 1
              /\ at'[su].part >= 1
              /\ IF at'[su].msg > Len(Script[su])
                 THEN at'[su].part = 1
                 ELSE at'[su].part <= Header[Script[su][at'[su].msg]].part_count
<1> DEFINE msg == at[st].msg
           part == at[st].part
           count == Header[Sending(st)].part_count
           len == Len(Script[st])
<1>1. /\ at[st] = [msg |-> msg, part |-> part]
      /\ msg \in Nat /\ part \in Nat /\ msg >= 1 /\ msg <= len /\ len \in Nat
      /\ part >= 1 /\ part <= count /\ count \in Nat
  BY Position
<1>2. at \in [Stations -> [msg : Nat, part : Nat]]
  BY DEF FeedTypeOK
<1>3. /\ \A su \in Stations : su # st => at'[su] = at[su]
      /\ at'[st] = IF part < count THEN [msg |-> msg, part |-> part + 1]
                                   ELSE [msg |-> msg + 1, part |-> 1]
      /\ DOMAIN at' = Stations
      /\ at' = [x \in Stations |-> at'[x]]
  BY <1>2 DEF Advance
<1> HIDE DEF msg, part, count, len
<1>4. IF part < count THEN at'[st].msg = msg /\ at'[st].part = part + 1
                      ELSE at'[st].msg = msg + 1 /\ at'[st].part = 1
  BY <1>3
<1>5. at' \in [Stations -> [msg : Nat, part : Nat]]
  <2>1. at'[st] \in [msg : Nat, part : Nat]
    BY <1>1, <1>3
  <2> QED
    BY <1>2, <1>3, <2>1
<1>6. ASSUME NEW su \in Stations
      PROVE  /\ at'[su].msg \in 1 .. Len(Script[su]) + 1
             /\ at'[su].part >= 1
             /\ IF at'[su].msg > Len(Script[su])
                THEN at'[su].part = 1
                ELSE at'[su].part <= Header[Script[su][at'[su].msg]].part_count
  <2>1. CASE su # st
    <3>1. at'[su] = at[su]
      BY <1>3, <2>1
    <3> QED
      BY <3>1 DEF FeedTypeOK, Done, Sending
  <2>2. CASE su = st /\ part < count
    <3>1. at'[st].msg = msg /\ at'[st].part = part + 1
      BY <1>4, <2>2
    <3>2. count = Header[Script[st][msg]].part_count
      BY DEF count, msg, Sending
    <3> QED
      BY <1>1, <2>2, <3>1, <3>2 DEF len
  <2>3. CASE su = st /\ ~(part < count)
    <3>1. at'[st].msg = msg + 1 /\ at'[st].part = 1
      BY <1>4, <2>3
    <3>2. ASSUME msg + 1 <= len
          PROVE  Header[Script[st][msg + 1]].part_count >= 1
      <4>1. msg + 1 \in 1 .. len
        BY <1>1, <3>2
      <4>2. Script[st][msg + 1] \in Transmissions
        BY <4>1, PlaceTransmission DEF len
      <4> QED
        BY <4>2, TransmissionSplit
    <3> QED
      BY <1>1, <2>3, <3>1, <3>2 DEF len
  <2> QED
    BY <2>1, <2>2, <2>3
<1> QED
  BY <1>3, <1>4, <1>5, <1>6 DEF msg, part, count

(* What is finished stays so, and only the message being sent is added.     *)
LEMMA FinishedByAdvance ==
  ASSUME FeedTypeOK, NEW st \in Stations, ~Done(st), Advance(st),
         NEW t \in Transmissions
  PROVE  /\ Finished(t) => Finished(t)'
         /\ Finished(t)' => \/ Finished(t)
                            \/ t = Sending(st) /\ at[st].part = Header[t].part_count
         /\ t = Sending(st) /\ at[st].part = Header[t].part_count => Finished(t)'
<1>1. /\ \A su \in Stations : su # st => at'[su] = at[su]
      /\ IF at[st].part < Header[Sending(st)].part_count
         THEN at'[st].msg = at[st].msg /\ at'[st].part = at[st].part + 1
         ELSE at'[st].msg = at[st].msg + 1 /\ at'[st].part = 1
  BY Advances
<1>2. /\ at[st].msg \in 1 .. Len(Script[st]) /\ at[st].msg \in Nat /\ at[st].part \in Nat
      /\ Header[Sending(st)].part_count \in Nat
      /\ at[st].part <= Header[Sending(st)].part_count
  BY Position
<1>3. ASSUME Finished(t) PROVE Finished(t)'
  <2>1. PICK su \in Stations : \E n \in 1 .. Len(Script[su]) :
          Script[su][n] = t /\ at[su].msg > n
    BY <1>3 DEF Finished
  <2>2. PICK n \in 1 .. Len(Script[su]) : Script[su][n] = t /\ at[su].msg > n
    BY <2>1
  <2>3. at'[su].msg > n
    BY <1>1, <1>2, <2>2
  <2> QED
    BY <2>2, <2>3 DEF Finished
<1>4. ASSUME Finished(t)', ~Finished(t)
      PROVE  t = Sending(st) /\ at[st].part = Header[t].part_count
  <2>1. PICK su \in Stations : \E n \in 1 .. Len(Script[su]) :
          Script[su][n] = t /\ at'[su].msg > n
    BY <1>4 DEF Finished
  <2>2. PICK n \in 1 .. Len(Script[su]) : Script[su][n] = t /\ at'[su].msg > n
    BY <2>1
  <2>3. ~(at[su].msg > n)
    BY <1>4, <2>2 DEF Finished
  <2>4. su = st
    BY <1>1, <2>2, <2>3
  <2>5. at'[st].msg = at[st].msg + 1 /\ ~(at[st].part < Header[Sending(st)].part_count)
    BY <1>1, <2>2, <2>3, <2>4
  <2>6. n = at[st].msg
    BY <1>2, <2>2, <2>3, <2>4, <2>5
  <2> QED
    BY <1>2, <2>2, <2>4, <2>5, <2>6 DEF Sending
<1>5. ASSUME t = Sending(st), at[st].part = Header[t].part_count
      PROVE  Finished(t)'
  <2>1. at'[st].msg = at[st].msg + 1
    BY <1>1, <1>2, <1>5
  <2>2. at[st].msg \in 1 .. Len(Script[st]) /\ at'[st].msg > at[st].msg
        /\ Script[st][at[st].msg] = t
    BY <1>2, <1>5, <2>1 DEF Sending
  <2> QED
    BY <2>2 DEF Finished
<1> QED
  BY <1>3, <1>4, <1>5

-----------------------------------------------------------------------------
(* The next sentence of an undamaged message is due.                        *)
LEMMA UndamagedIsDue ==
  ASSUME StationInv, SeqIdsTellApart, online,
         NEW st \in Stations, ~Done(st),
         Multipart(Sending(st)), Sending(st) \notin damaged
  PROVE  Due(SplitOf(Sending(st)), at[st].part)
<1> DEFINE n == at[st].msg
           k == at[st].part
           u == Script[st][n]
<1>1. /\ n \in 1 .. Len(Script[st]) /\ n \in Nat /\ k \in Nat /\ k >= 1
      /\ u \in Transmissions /\ k <= Header[u].part_count /\ u = Sending(st)
      /\ Header[u].part_count \in Nat
  BY Position DEF StationInv, Sending
<1>2. Place(st, n, k)
  BY <1>1 DEF Place
<1>3. SplitOf(u)[1].seq_id = Header[u].seq_id
  BY <1>1, TransmissionSplit
<1> HIDE DEF n, k
<1>4. CASE k = 1
  <2>1. ASSUME ~Vacant(Header[u].seq_id) PROVE FALSE
    <3>1. PICK r \in Nat : r >= 1 /\ HeldAt(st, n, r)
      BY <1>1, <1>2, <2>1, HeldIsFed
    <3>2. r < at[st].part
      BY <3>1 DEF HeldAt, n
    <3> QED
      BY <1>4, <3>1, <3>2 DEF k
  <2> QED
    BY <1>1, <1>3, <1>4, <2>1 DEF Due, k
<1>5. CASE k # 1
  <2>1. HoldsOf(Sending(st), at[st].part - 1)
    BY <1>1, <1>5 DEF StationInv, UndamagedOpen, k
  <2> QED
    BY <1>5, <2>1 DEF Due, HoldsOf, k
<1> QED
  BY <1>4, <1>5

(* What the stations other than st have begun stays open.                   *)
LEMMA OthersStayOpen ==
  ASSUME StationInv, SeqIdsTellApart, online,
         NEW st, NEW n, NEW k, Place(st, n, k), Feed(Part(Script[st][n], k)),
         NEW su \in Stations, su # st, ~Done(su),
         NEW m, NEW r, m = at[su].msg, r = at[su].part - 1,
         r >= 1, Script[su][m] \notin damaged
  PROVE  HoldsOf(Script[su][m], r)'
<1> DEFINE t == Script[su][m]
<1>1. /\ m \in 1 .. Len(Script[su]) /\ t \in Transmissions
      /\ at[su].part \in Nat
  BY Position DEF StationInv, Sending
<1>2. r \in Nat /\ at[su].part > 1
  BY <1>1
<1>3. HoldsOf(t, r)
  BY <1>2 DEF StationInv, UndamagedOpen, Sending
<1>4. t # Script[st][n]
  BY <1>1 DEF SeqIdsTellApart, SentOnce, Place
<1> QED
  BY <1>1, <1>2, <1>3, <1>4, OthersStay

(* A sequence that is open after the call has just taken the sentence that  *)
(* arrived, has refused it, or belongs to another message and is unchanged. *)
JustTaken(u, k, id) ==
  Taken(SplitOf(u), k) /\ Header[u].seq_id = id /\ HoldsOf(u, k)'

HasRefused(u, k, id) ==
  /\ Refused(SplitOf(u), k) /\ Multipart(u)
  /\ Header[u].seq_id = id /\ ~Vacant(id)

Undisturbed(u, id) ==
  /\ ~Vacant(id)
  /\ \A t \in Transmissions, r \in Nat :
       HoldsOf(t, r) /\ Header[t].seq_id = id => t # u /\ HoldsOf(t, r)'

(* What a call leaves open or opens, by what it answers.                    *)
LEMMA OpenAfterCall ==
  ASSUME StationInv, SeqIdsTellApart, online,
         NEW st, NEW n, NEW k, Place(st, n, k), Feed(Part(Script[st][n], k)),
         NEW id \in DOMAIN sequences'
  PROVE  \/ JustTaken(Script[st][n], k, id)
         \/ HasRefused(Script[st][n], k, id)
         \/ Undisturbed(Script[st][n], id)
<1> DEFINE u == Script[st][n]
           ss == SplitOf(u)
<1>1. /\ u \in Transmissions /\ Len(ss) = Header[u].part_count /\ Len(ss) \in Nat
      /\ Multipart(u) <=> Len(ss) > 1
      /\ Multipart(u) => ss[1].seq_id = Header[u].seq_id
  BY PlaceTransmission, TransmissionSplit DEF Place, Multipart
<1>2. Passed(ss) \/ Taken(ss, k) \/ Completed(ss, k) \/ Refused(ss, k)
  BY Outcome
<1>3. ~Vacant(id)'
  BY DEF Vacant, Slots
<1> HIDE DEF ss
<1>4. CASE Multipart(u) /\ Header[u].seq_id = id
  <2>1. CASE Taken(ss, k)
    BY <1>1, <1>4, <2>1 DEF JustTaken, Taken, HoldsOf, ss
  <2>2. CASE Refused(ss, k)
    <3>1. ~Vacant(id)
      BY <1>3, <2>2 DEF Refused, Vacant
    <3> QED
      BY <1>4, <2>2, <3>1 DEF HasRefused, ss
  <2>3. ~Passed(ss)
    BY <1>1, <1>4 DEF Passed
  <2>4. ~Completed(ss, k)
    BY <1>1, <1>3, <1>4 DEF Completed
  <2> QED
    BY <1>2, <2>1, <2>2, <2>3, <2>4
<1>5. CASE ~(Multipart(u) /\ Header[u].seq_id = id)
  <2>1. ~Vacant(id)
    <3>1. CASE Slots' = Slots
      BY <1>3, <3>1 DEF Vacant
    <3>2. CASE Taken(ss, k) \/ Completed(ss, k)
      <4>1. OthersKept(ss) /\ Len(ss) > 1
        BY <1>1, <3>2 DEF Taken, Completed, Place
      <4>2. ss[1].seq_id # id
        BY <1>1, <1>5, <4>1
      <4> QED
        BY <1>3, <4>1, <4>2 DEF OthersKept
    <3> QED
      BY <1>2, <3>1, <3>2 DEF Passed, Refused
  <2>2. ASSUME NEW t \in Transmissions, NEW r \in Nat,
               HoldsOf(t, r), Header[t].seq_id = id
        PROVE  t # u /\ HoldsOf(t, r)'
    <3>1. Multipart(t)
      BY <2>2, HeldParts
    <3>2. t # u
      BY <1>5, <2>2, <3>1
    <3> QED
      BY <2>2, <3>2, OthersStay
  <2> QED
    BY <2>1, <2>2 DEF Undisturbed
<1> QED
  BY <1>4, <1>5

-----------------------------------------------------------------------------
(* A holding survives when neither its station nor what is known of the     *)
(* damage changes, or when its message is damaged and stays damaged.        *)
LEMMA HeldAtStays ==
  ASSUME NEW su, NEW m, NEW r, HeldAt(su, m, r), HoldsOf(Script[su][m], r)',
         at'[su] = at[su], damaged' = damaged, online' = online
  PROVE  HeldAt(su, m, r)'
BY DEF HeldAt

(* The sentence that st sends next arrives.                                 *)
LEMMA ReceiveInv ==
  ASSUME StationInv, SeqIdsTellApart, NEW st \in Stations, Receive(st)
  PROVE  StationInv'
<1> PICK n, k : n = at[st].msg /\ k = at[st].part
  OBVIOUS
<1> DEFINE u == Script[st][n]
           ss == SplitOf(u)
           count == Header[u].part_count
<1>1. /\ online /\ ~Done(st) /\ Process(Part(u, k)) /\ Feed(Part(u, k)) /\ Advance(st)
      /\ online' = online /\ damaged' = damaged
  BY DEF Receive, Process, Sending
<1>2. /\ n \in 1 .. Len(Script[st]) /\ n \in Nat /\ k \in Nat /\ k >= 1
      /\ u \in Transmissions /\ u = Sending(st) /\ count \in Nat /\ k \in 1 .. count
  <2>1. u = Sending(st)
    BY DEF Sending
  <2>2. /\ at[st].msg \in 1 .. Len(Script[st]) /\ at[st].msg \in Nat /\ at[st].part \in Nat
        /\ at[st].part >= 1 /\ Sending(st) \in Transmissions
        /\ Header[Sending(st)].part_count \in Nat
        /\ at[st].part <= Header[Sending(st)].part_count
    BY <1>1, Position DEF StationInv
  <2> QED
    BY <2>1, <2>2
<1>3. Place(st, n, k)
  BY <1>2 DEF Place
<1>4. /\ Inv /\ FeedTypeOK /\ SequencesHeld /\ UndamagedOpen
      /\ IntactMessagesDelivered
  BY DEF StationInv
<1>5. /\ \A su \in Stations : su # st => at'[su] = at[su]
      /\ k < count => at'[st].msg = n /\ at'[st].part = k + 1
      /\ k = count => at'[st].msg = n + 1 /\ at'[st].part = 1
  BY <1>1, <1>2, <1>4, Advances
<1>6. Passed(ss) \/ Taken(ss, k) \/ Completed(ss, k) \/ Refused(ss, k)
  BY <1>1, <1>3, Outcome
<1>7. Len(ss) = count /\ (Multipart(u) <=> count > 1)
  BY <1>2, TransmissionSplit DEF Multipart
<1>8. ASSUME u \notin damaged
      PROVE  ~Refused(ss, k)
  BY <1>1, <1>2, <1>7, <1>8, UndamagedIsDue DEF Refused
<1> HIDE DEF ss, count
<1>9. Inv'
  <2>1. Part(u, k) \in Sentence
    BY <1>2, TransmissionSplit DEF Split, count
  <2> QED
    BY <1>1, <1>4, <2>1, FeedInv
<1>10. FeedTypeOK'
  <2>1. delivered' \in Seq({MessageOf(t) : t \in Transmissions})
    BY <1>1, <1>3, Deliveries
  <2>2. /\ at' \in [Stations -> [msg : Nat, part : Nat]]
        /\ \A su \in Stations :
             /\ at'[su].msg \in 1 .. Len(Script[su]) + 1
             /\ at'[su].part >= 1
             /\ IF at'[su].msg > Len(Script[su])
                THEN at'[su].part = 1
                ELSE at'[su].part <= Header[Script[su][at'[su].msg]].part_count
    BY <1>1, <1>4, Advances
  <2> QED
    BY <1>1, <1>4, <2>1, <2>2 DEF FeedTypeOK, Done, Sending
<1>11. SequencesHeld'
  <2> SUFFICES ASSUME NEW id \in DOMAIN sequences'
               PROVE  \E su \in Stations : \E m \in 1 .. Len(Script[su]) : \E r \in Nat :
                        Header[Script[su][m]].seq_id = id /\ HeldAt(su, m, r)'
    BY DEF SequencesHeld
  <2>1. CASE JustTaken(u, k, id)
    <3>0. Taken(ss, k) /\ Header[u].seq_id = id /\ HoldsOf(u, k)'
      BY <2>1 DEF JustTaken, ss
    <3>1. at'[st].msg = n /\ at'[st].part = k + 1
      BY <1>5, <1>7, <3>0 DEF Taken
    <3>2. HeldAt(st, n, k)'
      BY <1>2, <3>0, <3>1 DEF HeldAt
    <3> QED
      BY <1>2, <3>0, <3>2
  <2>2. CASE HasRefused(u, k, id)
    <3>0. /\ Refused(ss, k) /\ Multipart(u)
          /\ Header[u].seq_id = id /\ ~Vacant(Header[u].seq_id)
      BY <2>2 DEF HasRefused, ss
    <3>1. PICK r \in Nat : r >= 1 /\ HeldAt(st, n, r) /\ HoldsOf(u, r)
      BY <1>1, <1>3, <3>0, HeldIsFed
    <3>2. HoldsOf(u, r)'
      BY <3>0, <3>1 DEF Refused, HoldsOf, Holds, Vacant
    <3>3. u \in damaged /\ r < k
      BY <1>8, <3>0, <3>1 DEF HeldAt
    <3>4. online /\ "loss" \notin Faults => FALSE
      <4>1. ASSUME online /\ "loss" \notin Faults PROVE r = k - 1
        BY <3>1, <4>1 DEF HeldAt
      <4>2. ASSUME r = k - 1 PROVE FALSE
        <5>1. Due(ss, k)
          BY <1>2, <3>1, <4>2 DEF Due, HoldsOf, ss
        <5> QED
          BY <3>0, <5>1 DEF Refused
      <4> QED
        BY <4>1, <4>2
    <3>5. HeldAt(st, n, r)'
      <4>1. at'[st].msg = n => r < at'[st].part
        BY <1>2, <1>5, <3>1, <3>3
      <4>2. n <= at'[st].msg
        BY <1>2, <1>5
      <4> QED
        BY <1>1, <3>2, <3>3, <3>4, <4>1, <4>2 DEF HeldAt
    <3> QED
      BY <1>2, <3>0, <3>5
  <2>3. CASE Undisturbed(u, id)
    <3>0. /\ ~Vacant(id)
          /\ \A t \in Transmissions, r \in Nat :
               HoldsOf(t, r) /\ Header[t].seq_id = id => t # u /\ HoldsOf(t, r)'
      BY <2>3 DEF Undisturbed
    <3>1. id \in DOMAIN sequences
      BY <3>0 DEF Vacant, Slots
    <3>2. PICK su \in Stations : \E m \in 1 .. Len(Script[su]) : \E r \in Nat :
            Header[Script[su][m]].seq_id = id /\ HeldAt(su, m, r)
      BY <1>4, <3>1 DEF SequencesHeld
    <3>3. PICK m \in 1 .. Len(Script[su]), r \in Nat :
            Header[Script[su][m]].seq_id = id /\ HeldAt(su, m, r)
      BY <3>2
    <3>4. Script[su][m] \in Transmissions /\ HoldsOf(Script[su][m], r) /\ m \in Nat
      BY <3>3, PlaceTransmission DEF HeldAt
    <3>5. Script[su][m] # u /\ HoldsOf(Script[su][m], r)'
      BY <3>0, <3>3, <3>4
    <3>6. CASE su # st
      <4>1. HeldAt(su, m, r)'
        BY <1>1, <1>5, <3>3, <3>5, <3>6, HeldAtStays
      <4> QED
        BY <3>3, <4>1
    <3>7. CASE su = st
      <4>1. m # n /\ m < n /\ Script[su][m] \in damaged
            /\ ~(online /\ "loss" \notin Faults)
        BY <1>2, <3>3, <3>4, <3>5, <3>7 DEF HeldAt
      <4>2. m < at'[st].msg /\ m # at'[st].msg /\ m <= at'[st].msg
        BY <1>2, <1>5, <3>4, <4>1
      <4>3. HeldAt(su, m, r)'
        BY <1>1, <3>5, <3>7, <4>1, <4>2 DEF HeldAt
      <4> QED
        BY <3>3, <4>3
    <3> QED
      BY <3>6, <3>7
  <2> QED
    BY <1>1, <1>3, <2>1, <2>2, <2>3, OpenAfterCall
<1>12. UndamagedOpen'
  <2> SUFFICES ASSUME NEW su \in Stations, ~Done(su)', at'[su].part > 1,
                      Script[su][at'[su].msg] \notin damaged,
                      NEW m, NEW r, m = at'[su].msg, r = at'[su].part - 1
               PROVE  HoldsOf(Script[su][m], r)'
    BY <1>1 DEF UndamagedOpen, Sending
  <2>1. CASE su # st
    <3>1. ~Done(su) /\ m = at[su].msg /\ r = at[su].part - 1 /\ at[su].part \in Nat
          /\ at[su].part > 1
      BY <1>4, <1>5, <2>1, Position DEF Done
    <3>2. r >= 1
      BY <3>1
    <3> QED
      BY <1>1, <1>3, <2>1, <3>1, <3>2, OthersStayOpen
  <2>2. CASE su = st
    <3>1. k < count /\ m = n /\ r = k
      BY <1>2, <1>5, <2>2
    <3>2. u \notin damaged
      BY <2>2, <3>1
    <3>3. Taken(ss, k)
      BY <1>2, <1>6, <1>7, <1>8, <3>1, <3>2 DEF Passed, Completed
    <3> QED
      BY <2>2, <3>1, <3>3 DEF Taken, HoldsOf, ss
  <2> QED
    BY <2>1, <2>2
<1>13. IntactMessagesDelivered'
  <2> SUFFICES ASSUME NEW t \in Transmissions, Finished(t)', t \notin damaged
               PROVE  Delivered(t)'
    BY <1>1 DEF IntactMessagesDelivered
  <2>1. CASE Finished(t)
    <3>1. Delivered(t)
      BY <1>4, <2>1 DEF IntactMessagesDelivered
    <3> QED
      BY <1>1, <1>3, <3>1, DeliveredGrows
  <2>2. CASE ~Finished(t)
    <3>1. t = u /\ k = count
      BY <1>1, <1>2, <1>4, <2>2, FinishedByAdvance DEF count
    <3>2. Passed(ss) \/ Completed(ss, k)
      BY <1>2, <1>6, <1>7, <1>8, <3>1 DEF Taken
    <3> QED
      BY <1>1, <1>3, <3>1, <3>2, DeliveredGrows DEF ss
  <2> QED
    BY <2>1, <2>2
<1> QED
  BY <1>9, <1>10, <1>11, <1>12, <1>13 DEF StationInv

-----------------------------------------------------------------------------
(* The sentence that st sent last arrives, again or late.                   *)
LEMMA LastSentPlace ==
  ASSUME FeedTypeOK, NEW st \in Stations, at[st].msg > 1 \/ at[st].part > 1
  PROVE  \E n, k :
           /\ Place(st, n, k) /\ LastSent(st) = Part(Script[st][n], k)
           /\ \/ n = at[st].msg /\ k = at[st].part - 1 /\ k < Header[Script[st][n]].part_count
              \/ n < at[st].msg /\ k = Header[Script[st][n]].part_count /\ at[st].part = 1
<1> DEFINE msg == at[st].msg
           part == at[st].part
<1>1. /\ msg \in Nat /\ part \in Nat /\ msg >= 1 /\ part >= 1
      /\ msg <= Len(Script[st]) + 1 /\ Len(Script[st]) \in Nat
      /\ Done(st) => part = 1
      /\ ~Done(st) => /\ msg \in 1 .. Len(Script[st])
                      /\ Header[Script[st][msg]].part_count \in Nat
                      /\ part <= Header[Script[st][msg]].part_count
  BY Position DEF Sending
<1> HIDE DEF msg, part
<1>2. CASE part > 1
  <2>1. /\ msg \in 1 .. Len(Script[st]) /\ Header[Script[st][msg]].part_count \in Nat
        /\ part <= Header[Script[st][msg]].part_count
    BY <1>1, <1>2
  <2>2. /\ part - 1 \in 1 .. Header[Script[st][msg]].part_count /\ part - 1 \in Nat
        /\ part - 1 < Header[Script[st][msg]].part_count
    BY <1>1, <1>2, <2>1
  <2>3. Place(st, msg, part - 1)
    BY <1>1, <2>1, <2>2 DEF Place, msg, part
  <2>4. LastSent(st) = Part(Script[st][msg], part - 1)
    BY <1>2 DEF LastSent, Sending, msg, part
  <2> QED
    BY <2>2, <2>3, <2>4 DEF msg, part
<1>3. CASE ~(part > 1)
  <2> DEFINE n == msg - 1
             k == Header[Script[st][n]].part_count
  <2>1. part = 1 /\ n \in 1 .. Len(Script[st]) /\ n \in Nat /\ n < msg
    BY <1>1, <1>3 DEF msg, part
  <2>2. Script[st][n] \in Transmissions
    BY <2>1, PlaceTransmission
  <2>3. k \in Nat /\ k \in 1 .. k
    BY <2>2, TransmissionSplit
  <2>4. Place(st, n, k)
    BY <2>1, <2>3 DEF Place, msg, part
  <2>5. LastSent(st) = Part(Script[st][n], k)
    BY <1>3 DEF LastSent, msg, part
  <2> QED
    BY <2>1, <2>4, <2>5 DEF msg, part
<1> QED
  BY <1>2, <1>3

(* A sentence arrives once more, in time or late.                           *)
LEMMA RepeatInv ==
  ASSUME StationInv, SeqIdsTellApart, NEW st \in Stations, Repeat(st)
  PROVE  StationInv'
<1>1. /\ online /\ Process(LastSent(st))
      /\ at' = at /\ online' = online /\ damaged' = damaged
      /\ at[st].msg > 1 \/ at[st].part > 1
  BY DEF Repeat
<1>2. /\ Inv /\ FeedTypeOK /\ SequencesHeld /\ UndamagedOpen
      /\ IntactMessagesDelivered
  BY DEF StationInv
<1>3. PICK n, k :
        /\ Place(st, n, k) /\ LastSent(st) = Part(Script[st][n], k)
        /\ \/ n = at[st].msg /\ k = at[st].part - 1 /\ k < Header[Script[st][n]].part_count
           \/ n < at[st].msg /\ k = Header[Script[st][n]].part_count /\ at[st].part = 1
  BY <1>1, <1>2, LastSentPlace
<1> DEFINE u == Script[st][n]
           ss == SplitOf(u)
           count == Header[u].part_count
<1>4. Process(Part(u, k)) /\ Feed(Part(u, k))
  BY <1>1, <1>3 DEF Process
<1>5. /\ u \in Transmissions /\ count \in Nat /\ k \in 1 .. count /\ k \in Nat
      /\ n \in 1 .. Len(Script[st]) /\ n \in Nat
  BY <1>3, PlaceTransmission, TransmissionSplit DEF Place
<1>6. Passed(ss) \/ Taken(ss, k) \/ Completed(ss, k) \/ Refused(ss, k)
  BY <1>1, <1>3, <1>4, Outcome
<1>7. Len(ss) = count /\ (Multipart(u) <=> count > 1)
  BY <1>5, TransmissionSplit DEF Multipart
<1>8. Taken(ss, k) => n = at[st].msg /\ k = at[st].part - 1
  BY <1>3, <1>5, <1>7 DEF Taken
<1> HIDE DEF ss, count
<1>10. Inv'
  <2>1. Part(u, k) \in Sentence
    BY <1>5, TransmissionSplit DEF Split, count
  <2> QED
    BY <1>2, <1>4, <2>1, FeedInv
<1>11. FeedTypeOK'
  <2>1. delivered' \in Seq({MessageOf(t) : t \in Transmissions})
    BY <1>1, <1>3, <1>4, Deliveries
  <2> QED
    BY <1>1, <1>2, <2>1 DEF FeedTypeOK, Done, Sending
<1>12. SequencesHeld'
  <2> SUFFICES ASSUME NEW id \in DOMAIN sequences'
               PROVE  \E su \in Stations : \E m \in 1 .. Len(Script[su]) : \E r \in Nat :
                        Header[Script[su][m]].seq_id = id /\ HeldAt(su, m, r)'
    BY DEF SequencesHeld
  <2>1. CASE JustTaken(u, k, id)
    <3>0. Taken(ss, k) /\ Header[u].seq_id = id /\ HoldsOf(u, k)'
      BY <2>1 DEF JustTaken, ss
    <3>1. n = at[st].msg /\ k = at[st].part - 1 /\ at[st].part \in Nat
      BY <1>2, <1>8, <3>0, Position
    <3>2. n <= at[st].msg /\ k < at[st].part /\ ~(n < at[st].msg)
      BY <1>5, <3>1
    <3>3. HeldAt(st, n, k)'
      BY <1>1, <3>0, <3>1, <3>2 DEF HeldAt
    <3> QED
      BY <1>3, <1>5, <3>0, <3>3
  <2>2. CASE HasRefused(u, k, id)
    <3>0. /\ Refused(ss, k) /\ Multipart(u)
          /\ Header[u].seq_id = id /\ ~Vacant(Header[u].seq_id)
      BY <2>2 DEF HasRefused, ss
    <3>1. PICK r \in Nat : r >= 1 /\ HeldAt(st, n, r) /\ HoldsOf(u, r)
      BY <1>1, <1>3, <3>0, HeldIsFed
    <3>2. HoldsOf(u, r)'
      BY <3>0, <3>1 DEF Refused, HoldsOf, Holds, Vacant
    <3>3. HeldAt(st, n, r)'
      BY <1>1, <3>1, <3>2, HeldAtStays
    <3> QED
      BY <1>3, <1>5, <3>0, <3>3
  <2>3. CASE Undisturbed(u, id)
    <3>0. /\ ~Vacant(id)
          /\ \A t \in Transmissions, r \in Nat :
               HoldsOf(t, r) /\ Header[t].seq_id = id => t # u /\ HoldsOf(t, r)'
      BY <2>3 DEF Undisturbed
    <3>1. id \in DOMAIN sequences
      BY <3>0 DEF Vacant, Slots
    <3>2. PICK su \in Stations : \E m \in 1 .. Len(Script[su]) : \E r \in Nat :
            Header[Script[su][m]].seq_id = id /\ HeldAt(su, m, r)
      BY <1>2, <3>1 DEF SequencesHeld
    <3>3. PICK m \in 1 .. Len(Script[su]), r \in Nat :
            Header[Script[su][m]].seq_id = id /\ HeldAt(su, m, r)
      BY <3>2
    <3>4. Script[su][m] \in Transmissions /\ HoldsOf(Script[su][m], r)
      BY <3>3, PlaceTransmission DEF HeldAt
    <3>5. HeldAt(su, m, r)'
      BY <1>1, <3>0, <3>3, <3>4, HeldAtStays
    <3> QED
      BY <3>3, <3>5
  <2> QED
    BY <1>1, <1>3, <1>4, <2>1, <2>2, <2>3, OpenAfterCall
<1>13. UndamagedOpen'
  <2> SUFFICES ASSUME NEW su \in Stations, ~Done(su), at[su].part > 1,
                      Script[su][at[su].msg] \notin damaged,
                      NEW m, NEW r, m = at[su].msg, r = at[su].part - 1
               PROVE  HoldsOf(Script[su][m], r)'
    BY <1>1 DEF UndamagedOpen, Sending, Done
  <2>1. at[su].part \in Nat /\ r >= 1 /\ r \in Nat
    <3>1. at[su].part \in Nat
      BY <1>2, Position
    <3> QED
      BY <3>1
  <2>2. CASE su # st
    BY <1>1, <1>3, <1>4, <2>1, <2>2, OthersStayOpen
  <2>3. CASE su = st
    <3>1. m = n /\ r = k
      BY <1>3, <2>1, <2>3
    <3>2. HoldsOf(u, k)
      BY <1>2, <2>3, <3>1 DEF UndamagedOpen, Sending
    <3>3. Multipart(u) /\ ~Vacant(Header[u].seq_id) /\ ss[1].seq_id = Header[u].seq_id
      BY <1>5, <3>2, HeldParts DEF ss
    <3>4. ~Due(ss, k)
      <4>1. CASE k = 1
        BY <3>3, <4>1 DEF Due
      <4>2. CASE k # 1
        <5>1. ASSUME HoldsOf(u, k - 1) PROVE FALSE
          <6>1. k = k - 1
            BY <1>5, <3>2, <5>1, SameHolder
          <6> QED
            BY <1>5, <6>1
        <5> QED
          BY <4>2, <5>1 DEF Due, HoldsOf, ss
      <4> QED
        BY <4>1, <4>2
    <3>5. Refused(ss, k)
      BY <1>5, <1>6, <1>7, <3>3, <3>4 DEF Passed, Taken, Completed
    <3> QED
      BY <2>3, <3>1, <3>2, <3>5 DEF Refused, HoldsOf, Holds, Vacant
  <2> QED
    BY <2>2, <2>3
<1>14. \A t \in Transmissions : Finished(t)' <=> Finished(t)
  BY <1>1 DEF Finished
<1>15. IntactMessagesDelivered'
  <2>1. \A t \in Transmissions : Delivered(t) => Delivered(t)'
    BY <1>1, <1>3, <1>4, DeliveredGrows
  <2> QED
    BY <1>1, <1>2, <1>14, <2>1 DEF IntactMessagesDelivered
<1> QED
  BY <1>10, <1>11, <1>12, <1>13, <1>15 DEF StationInv

-----------------------------------------------------------------------------
(* A sentence is lost: its message is damaged from now on.                  *)
LEMMA LoseInv ==
  ASSUME StationInv, NEW st \in Stations, Lose(st)
  PROVE  StationInv'
<1> PICK n, k : n = at[st].msg /\ k = at[st].part
  OBVIOUS
<1> DEFINE u == Script[st][n]
<1>1. /\ "loss" \in Faults \/ ~online
      /\ ~Done(st) /\ Advance(st)
      /\ damaged' = damaged \cup {u}
      /\ sequences' = sequences /\ result' = result /\ online' = online
      /\ delivered' = delivered
  BY DEF Lose, Sending
<1>2. /\ Inv /\ FeedTypeOK /\ SequencesHeld /\ UndamagedOpen
      /\ IntactMessagesDelivered
  BY DEF StationInv
<1>3. /\ \A su \in Stations : su # st => at'[su] = at[su]
      /\ \/ at'[st].msg = n /\ at'[st].part = k + 1
         \/ at'[st].msg = n + 1
      /\ at'[st].msg # n => at'[st].part = 1
      /\ n \in Nat /\ k \in Nat
  BY <1>1, <1>2, Advances, Position
<1>4. u = Sending(st) /\ Slots' = Slots
  BY <1>1 DEF Sending, Slots
<1>5. ASSUME NEW t, NEW r PROVE HoldsOf(t, r)' <=> HoldsOf(t, r)
  BY <1>4 DEF HoldsOf, Holds, Vacant
<1>6. Inv'
  BY <1>1, <1>2, InvByEntry DEF Inv, TypeOK, SequencesInProgress
<1>7. FeedTypeOK'
  <2>1. /\ at' \in [Stations -> [msg : Nat, part : Nat]]
        /\ \A su \in Stations :
             /\ at'[su].msg \in 1 .. Len(Script[su]) + 1
             /\ at'[su].part >= 1
             /\ IF at'[su].msg > Len(Script[su])
                THEN at'[su].part = 1
                ELSE at'[su].part <= Header[Script[su][at'[su].msg]].part_count
    BY <1>1, <1>2, Advances
  <2> QED
    BY <1>1, <1>2, <2>1 DEF FeedTypeOK, Done, Sending
<1>8. SequencesHeld'
  <2> SUFFICES ASSUME NEW id \in DOMAIN sequences
               PROVE  \E su \in Stations : \E m \in 1 .. Len(Script[su]) : \E r \in Nat :
                        Header[Script[su][m]].seq_id = id /\ HeldAt(su, m, r)'
    BY <1>1 DEF SequencesHeld
  <2>1. PICK su \in Stations : \E m \in 1 .. Len(Script[su]) : \E r \in Nat :
          Header[Script[su][m]].seq_id = id /\ HeldAt(su, m, r)
    BY <1>2 DEF SequencesHeld
  <2>2. PICK m \in 1 .. Len(Script[su]), r \in Nat :
          Header[Script[su][m]].seq_id = id /\ HeldAt(su, m, r)
    BY <2>1
  <2>3. HoldsOf(Script[su][m], r)' /\ ~(online' /\ "loss" \notin Faults)
    BY <1>1, <1>5, <2>2 DEF HeldAt
  <2>4. CASE su # st
    <3>1. at'[su] = at[su] /\ damaged \subseteq damaged'
      BY <1>1, <1>3, <2>4
    <3> QED
      BY <1>1, <2>2, <2>3, <3>1 DEF HeldAt
  <2>5. CASE su = st
    <3>1. m <= n /\ (m < n => Script[su][m] \in damaged) /\ (m = n => r < k) /\ m \in Nat
      BY <2>2, <2>5 DEF HeldAt
    <3>2. Script[su][m] \in damaged'
      BY <1>1, <1>3, <2>5, <3>1
    <3>3. m <= at'[st].msg /\ (m = at'[st].msg => r < at'[st].part)
      BY <1>3, <3>1
    <3>4. HeldAt(su, m, r)'
      BY <2>3, <2>5, <3>2, <3>3 DEF HeldAt
    <3> QED
      BY <2>2, <3>4
  <2> QED
    BY <2>4, <2>5
<1>9. UndamagedOpen'
  <2> SUFFICES ASSUME NEW su \in Stations, ~Done(su)', at'[su].part > 1,
                      Script[su][at'[su].msg] \notin damaged',
                      NEW m, NEW r, m = at'[su].msg, r = at'[su].part - 1
               PROVE  HoldsOf(Script[su][m], r)'
    BY DEF UndamagedOpen, Sending
  <2>1. CASE su # st
    <3>1. at'[su] = at[su] /\ Script[su][m] \notin damaged
      BY <1>1, <1>3, <2>1
    <3>2. ~Done(su)
      BY <3>1 DEF Done
    <3>3. HoldsOf(Script[su][m], r)
      BY <1>2, <3>1, <3>2 DEF UndamagedOpen, Sending
    <3> QED
      BY <1>5, <3>3
  <2>2. CASE su = st
    <3>1. at'[st].msg = n
      BY <1>3, <2>2
    <3> QED
      BY <1>1, <2>2, <3>1
  <2> QED
    BY <2>1, <2>2
<1>10. IntactMessagesDelivered'
  <2> SUFFICES ASSUME NEW t \in Transmissions, Finished(t)', t \notin damaged'
               PROVE  Delivered(t)'
    BY DEF IntactMessagesDelivered
  <2>1. t \notin damaged /\ t # u
    BY <1>1
  <2>2. Finished(t)
    BY <1>1, <1>2, <1>4, <2>1, FinishedByAdvance
  <2>3. Delivered(t)
    BY <1>2, <2>1, <2>2 DEF IntactMessagesDelivered
  <2> QED
    BY <1>1, <2>3 DEF Delivered
<1> QED
  BY <1>6, <1>7, <1>8, <1>9, <1>10 DEF StationInv

(* The feed breaks down, or nothing happens: nothing is held that was not   *)
(* before.                                                                  *)
LEMMA QuietInv ==
  ASSUME StationInv, UNCHANGED <<sequences, result, at, delivered, damaged>>,
         online' \in BOOLEAN, online' => online
  PROVE  StationInv'
<1>1. /\ sequences' = sequences /\ result' = result /\ at' = at
      /\ delivered' = delivered /\ damaged' = damaged /\ Slots' = Slots
  BY DEF Slots
<1>2. /\ Inv /\ FeedTypeOK /\ SequencesHeld /\ UndamagedOpen
      /\ IntactMessagesDelivered
  BY DEF StationInv
<1>3. ASSUME NEW t, NEW r PROVE HoldsOf(t, r)' <=> HoldsOf(t, r)
  BY <1>1 DEF HoldsOf, Holds, Vacant
<1>4. Inv' /\ FeedTypeOK'
  BY <1>1, <1>2 DEF Inv, TypeOK, SequencesInProgress, FeedTypeOK, Done, Sending
<1>5. SequencesHeld'
  <2>1. ASSUME NEW st, NEW n, NEW r, HeldAt(st, n, r) PROVE HeldAt(st, n, r)'
    BY <1>1, <1>3, <2>1 DEF HeldAt
  <2> QED
    BY <1>1, <1>2, <2>1 DEF SequencesHeld
<1>6. UndamagedOpen'
  <2> SUFFICES ASSUME NEW su \in Stations, ~Done(su), at[su].part > 1,
                      Script[su][at[su].msg] \notin damaged,
                      NEW m, NEW r, m = at[su].msg, r = at[su].part - 1
               PROVE  HoldsOf(Script[su][m], r)'
    BY <1>1 DEF UndamagedOpen, Sending, Done
  <2>1. HoldsOf(Script[su][m], r)
    BY <1>2 DEF UndamagedOpen, Sending
  <2> QED
    BY <1>3, <2>1
<1>7. IntactMessagesDelivered'
  BY <1>1, <1>2 DEF IntactMessagesDelivered, Finished, Delivered
<1> QED
  BY <1>4, <1>5, <1>6, <1>7 DEF StationInv

(* A reset() empties the buffer and damages whatever was under way.         *)
LEMMA ResetsInv == StationInv /\ (Reconnect \/ Timeout) => StationInv'
<1> SUFFICES ASSUME StationInv, Reconnect \/ Timeout PROVE StationInv'
  OBVIOUS
<1>1. /\ Reset /\ sequences' = <<>> /\ at' = at /\ delivered' = delivered
      /\ damaged' = damaged \cup Underway /\ online' \in BOOLEAN
  BY DEF Reconnect, Timeout, Reset, StationInv, FeedTypeOK
<1>2. Inv /\ FeedTypeOK /\ IntactMessagesDelivered
  BY DEF StationInv
<1>3. Inv'
  BY <1>1, <1>2, NextInv DEF Next
<1>4. FeedTypeOK'
  BY <1>1, <1>2 DEF FeedTypeOK, Done, Sending
<1>5. SequencesHeld'
  BY <1>1 DEF SequencesHeld
<1>6. UndamagedOpen'
  <2>1. ASSUME NEW st \in Stations, ~Done(st), at[st].part > 1
        PROVE  Sending(st) \in damaged'
    BY <1>1, <2>1 DEF Underway
  <2> QED
    BY <1>1, <2>1 DEF UndamagedOpen, Done, Sending
<1>7. IntactMessagesDelivered'
  BY <1>1, <1>2 DEF IntactMessagesDelivered, Finished, Delivered
<1> QED
  BY <1>3, <1>4, <1>5, <1>6, <1>7 DEF StationInv

(* The invariant holds at first and through every step.                     *)
LEMMA StationInvInitially == FeedInit => StationInv
<1> SUFFICES ASSUME FeedInit PROVE StationInv
  OBVIOUS
<1>1. /\ Init /\ sequences = <<>>
      /\ at = [st \in Stations |-> [msg |-> 1, part |-> 1]]
      /\ online = TRUE /\ delivered = <<>> /\ damaged = {}
  BY DEF FeedInit, Init
<1>2. FeedTypeOK
  <2>1. ASSUME NEW st \in Stations
        PROVE  /\ at[st].msg \in 1 .. Len(Script[st]) + 1
               /\ at[st].part >= 1
               /\ IF Done(st) THEN at[st].part = 1
                              ELSE at[st].part <= Header[Sending(st)].part_count
    <3>1. at[st].msg = 1 /\ at[st].part = 1 /\ Len(Script[st]) \in Nat
      BY <1>1, StationAssumption
    <3>2. ASSUME ~Done(st) PROVE Header[Sending(st)].part_count >= 1
      <4>1. 1 \in 1 .. Len(Script[st]) /\ Sending(st) = Script[st][1]
        BY <3>1, <3>2 DEF Done, Sending
      <4>2. Sending(st) \in Transmissions
        BY <4>1, PlaceTransmission
      <4> QED
        BY <4>2, TransmissionSplit
    <3> QED
      BY <3>1, <3>2
  <2> QED
    BY <1>1, <2>1 DEF FeedTypeOK
<1>3. SequencesHeld /\ UndamagedOpen
  BY <1>1 DEF SequencesHeld, UndamagedOpen
<1>4. IntactMessagesDelivered
  <2>1. ASSUME NEW t, Finished(t) PROVE FALSE
    BY <1>1, <2>1 DEF Finished
  <2> QED
    BY <2>1 DEF IntactMessagesDelivered
<1> QED
  BY <1>1, <1>2, <1>3, <1>4, InitInv DEF StationInv

(* One case per action, and one for the step that changes nothing.          *)
LEMMA StationInvNext ==
  ASSUME SeqIdsTellApart
  PROVE  StationInv /\ [FeedNext]_feedVars => StationInv'
<1> SUFFICES ASSUME StationInv, [FeedNext]_feedVars PROVE StationInv'
  OBVIOUS
<1>1. ASSUME NEW st \in Stations, Receive(st) PROVE StationInv'
  BY <1>1, ReceiveInv
<1>2. ASSUME NEW st \in Stations, Repeat(st) PROVE StationInv'
  BY <1>2, RepeatInv
<1>3. ASSUME NEW st \in Stations, Lose(st) PROVE StationInv'
  BY <1>3, LoseInv
<1>4. CASE Disconnect
  BY <1>4, QuietInv DEF Disconnect
<1>5. CASE Reconnect \/ Timeout
  BY <1>5, ResetsInv
<1>6. CASE UNCHANGED feedVars
  BY <1>6, QuietInv DEF feedVars, StationInv, FeedTypeOK
<1> QED
  BY <1>1, <1>2, <1>3, <1>4, <1>5, <1>6 DEF FeedNext

-----------------------------------------------------------------------------
(* With any number of stations, messages and repetitions, whatever of the   *)
(* four faults may happen and whenever the caller resets: every message     *)
(* handed to the caller is one that was transmitted, whole and unmixed.     *)
THEOREM NothingIsMixed ==
  ASSUME SeqIdsTellApart
  PROVE  FeedSpec => []OnlyTransmittedMessages
<1>1. StationInv => OnlyTransmittedMessages
  <2> SUFFICES ASSUME StationInv, NEW n \in 1 .. Len(delivered)
               PROVE  \E t \in Transmissions : delivered[n] = MessageOf(t)
    BY DEF OnlyTransmittedMessages
  <2>1. delivered \in Seq({MessageOf(t) : t \in Transmissions})
    BY DEF StationInv, FeedTypeOK
  <2> QED
    BY <2>1
<1> QED
  BY StationInvInitially, StationInvNext, <1>1, PTL DEF FeedSpec

(* A fault costs the message it touches and no other: what no fault touched *)
(* is delivered as soon as its last sentence has been received.             *)
THEOREM IntactAreDelivered ==
  ASSUME SeqIdsTellApart
  PROVE  FeedSpec => []IntactMessagesDelivered
<1>1. StationInv => IntactMessagesDelivered
  BY DEF StationInv
<1> QED
  BY StationInvInitially, StationInvNext, <1>1, PTL DEF FeedSpec

(* Nothing stays in the buffer but what is being sent and what a fault has  *)
(* touched.                                                                 *)
THEOREM IntactLeaveNothing ==
  ASSUME SeqIdsTellApart
  PROVE  FeedSpec => []OnlyDamagedMessagesLinger
<1>1. StationInv => OnlyDamagedMessagesLinger
  <2> SUFFICES ASSUME StationInv, NEW id \in DOMAIN sequences
               PROVE  \E t \in Underway \cup damaged :
                        sequences[id].parts[1] = Fragment(t, 1)
    BY DEF OnlyDamagedMessagesLinger
  <2>1. Inv /\ FeedTypeOK /\ SequencesHeld
    BY DEF StationInv
  <2>2. PICK st \in Stations : \E n \in 1 .. Len(Script[st]) : \E r \in Nat :
          Header[Script[st][n]].seq_id = id /\ HeldAt(st, n, r)
    BY <2>1 DEF SequencesHeld
  <2>3. PICK n \in 1 .. Len(Script[st]), r \in Nat :
          Header[Script[st][n]].seq_id = id /\ HeldAt(st, n, r)
    BY <2>2
  <2> DEFINE t == Script[st][n]
             ss == SplitOf(t)
             seq == sequences[id]
  <2>4. t \in Transmissions /\ HoldsOf(t, r)
    BY <2>3, PlaceTransmission DEF HeldAt
  <2>5. /\ r \in 1 .. Len(ss) - 1 /\ Slots[id] = SlotAfter(ss, r)
        /\ Split(ss) /\ Len(ss) \in Nat /\ r \in Nat /\ ss[1] = Part(t, 1)
    BY <2>3, <2>4, HeldParts, TransmissionSplit DEF HoldsOf, Holds
  <2>6. t \in Underway \cup damaged
    <3>1. CASE n < at[st].msg
      BY <2>3, <3>1 DEF HeldAt
    <3>2. CASE ~(n < at[st].msg)
      <4>1. /\ at[st].msg \in Nat /\ at[st].part \in Nat /\ Len(Script[st]) \in Nat
        BY <2>1, Position
      <4>2. n <= at[st].msg /\ (n = at[st].msg => r < at[st].part)
        BY <2>3 DEF HeldAt
      <4>3. n = at[st].msg /\ n <= Len(Script[st])
        BY <2>3, <3>2, <4>1, <4>2
      <4>4. r >= 1
        BY <2>5
      <4>5. at[st].part > 1
        BY <2>5, <4>1, <4>2, <4>3, <4>4
      <4>6. ~Done(st) /\ Sending(st) = t
        BY <4>1, <4>3 DEF Done, Sending
      <4> QED
        BY <4>5, <4>6 DEF Underway
    <3> QED
      BY <3>1, <3>2
  <2>7. sequences[id].parts[1] = Fragment(t, 1)
    <3>1. GoodSequence(seq)
      BY <2>1, InvByEntry
    <3>2. /\ Len(SlotOf(seq).got) = seq.received
          /\ \A i \in 1 .. seq.received : SlotOf(seq).got[i] = seq.parts[i]
      BY <3>1, SlotGot
    <3>3. SlotOf(seq).got = FirstPayloads(ss, r)
      BY <2>5 DEF Slots, SlotAfter
    <3> HIDE DEF seq, ss
    <3>4. r \in 1 .. Len(ss) /\ 1 \in 1 .. r
      BY <2>5
    <3>5. Len(FirstPayloads(ss, r)) = r /\ FirstPayloads(ss, r)[1] = ss[1].payload
      BY <2>5, <3>4, PayloadsGrow DEF FirstPayloads
    <3>6. seq.parts[1] = ss[1].payload
      BY <3>2, <3>3, <3>4, <3>5
    <3> QED
      BY <2>5, <3>6 DEF Part, seq
  <2> QED
    BY <2>6, <2>7
<1> QED
  BY StationInvInitially, StationInvNext, <1>1, PTL DEF FeedSpec
=============================================================================
