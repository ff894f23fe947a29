-------------------------------- MODULE AisFeed --------------------------------
(***************************************************************************)
(* A SentenceAssembler behind an arbitrary medium: the sentences of a set   *)
(* of transmissions reach feed() in any order, any number of times or not   *)
(* at all, and the caller may reset() at any moment.                        *)
(*                                                                          *)
(* feed() tells sequences apart by seq_id, and compares the part count and  *)
(* the sentence type of a part with those of the sequence.  DistinctKeys    *)
(* says that no two multi-part transmissions agree on all three.  Then, and *)
(* whatever the medium does, no message is mixed from two transmissions.    *)
(***************************************************************************)
EXTENDS SentenceAssembler, Traffic

ASSUME DistinctKeys ==
  \A t, u \in Transmissions :
    /\ Header[t].part_count > 1
    /\ Header[t].seq_id = Header[u].seq_id
    /\ Header[t].part_count = Header[u].part_count
    /\ Header[t].sentence_type = Header[u].sentence_type
    => t = u

VARIABLES
  delivered,  \* the messages feed() has handed to the caller
  heard       \* heard[t]: how many sentences of t, from the first and in
              \* order, have arrived since t was last handed to the caller
              \* or the caller reset; a history variable

feedVars == <<sequences, result, delivered, heard>>

FeedInit ==
  /\ Init
  /\ delivered = {}
  /\ heard = [t \in Transmissions |-> 0]

(* The i-th sentence of t arrives: it is heard if it is the next one.       *)
Hear(t, i) == [heard EXCEPT ![t] = IF i = @ + 1 THEN i ELSE @]

HandsOn(u) == result' = Complete(MessageOf(u))

(* The loop of the class documentation: parse, feed, and process a complete *)
(* message; errors and nullopt are passed over.                             *)
Receive(t, i) ==
  /\ Feed(Part(t, i))
  /\ delivered' = delivered \cup
       (IF result'.kind = "message" THEN {result'.message} ELSE {})
  /\ heard' = [u \in Transmissions |-> IF HandsOn(u) THEN 0 ELSE Hear(t, i)[u]]

Evict ==
  /\ Reset
  /\ heard' = [t \in Transmissions |-> 0]
  /\ UNCHANGED delivered

FeedNext ==
  \/ \E t \in Transmissions : \E i \in 1 .. Header[t].part_count : Receive(t, i)
  \/ Evict

FeedSpec == FeedInit /\ [][FeedNext]_feedVars

-----------------------------------------------------------------------------
(* Every message handed to the caller is one that was transmitted: all its  *)
(* fragments, in order, of one transmission, with the fill bits of its last *)
(* part, the own-vessel flag of its sentence type and its own talker.       *)
OnlyTransmittedMessages ==
  delivered \subseteq {MessageOf(t) : t \in Transmissions}

(* What makes it so: the parts received in a sequence are the first parts   *)
(* of a single transmission, whose header is the one stored.                *)
Collects(seq, id, t) ==
  /\ Header[t].seq_id = id
  /\ Header[t].part_count = seq.part_count
  /\ Header[t].sentence_type = seq.sentence_type
  /\ Header[t].talker = seq.talker
  /\ \A i \in 1 .. seq.received : seq.parts[i] = Fragment(t, i)

SequencesAreUnmixed ==
  \A id \in DOMAIN sequences :
    \E t \in Transmissions : Collects(sequences[id], id, t)

(* feed() remembers nothing of a message it has handed on, so the sentences *)
(* 1 2 1 2 give it twice.  But no sentence serves twice: a message is handed*)
(* on only when all its sentences have arrived, from the first to the last, *)
(* since it was handed on before and since the last reset().                *)
NoSentenceServesTwice ==
  [][\A u \in Transmissions : HandsOn(u) =>
       \A t \in Transmissions : \A i \in 1 .. Header[t].part_count :
         Receive(t, i) => Hear(t, i)[u] = Header[u].part_count]_feedVars
=============================================================================
