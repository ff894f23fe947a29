----------------------------- MODULE DecoderTable ------------------------------
(***************************************************************************)
(* What MessageRegistry promises the threads that share it: a table from    *)
(* type ids to decoder functions, of which every call sees one state.  In   *)
(* particular a decode() is answered from the entry of its type as it was   *)
(* at one moment between call and return: by the function found there, or   *)
(* by MessageTypeUnsupported if there was none.  No null pointer is called. *)
(***************************************************************************)
EXTENDS Integers

CONSTANTS
  Threads,
  kMaxTypeId,   \* the largest message type id (27)
  TypeIds,      \* the type ids that callers pass and payloads carry
  Decoders,     \* decoder functions
  NoDecoder     \* the null pointer

MessageTypes == 1 .. kMaxTypeId

VARIABLES
  table,    \* the decoder of each message type, NoDecoder if there is none
  call,     \* call[th]: the type id of the payload that th is decoding
  effect,   \* effect[th]: the answer of that call, once it is settled
  answer    \* answer[th]: what th's last call returned

vars == <<table, call, effect, answer>>

NoCall == -1
NoAnswer == [kind |-> "none"]
Unknown == [kind |-> "MessageTypeUnknown"]
Unsupported == [kind |-> "MessageTypeUnsupported"]
DecodedBy(fn) == [kind |-> "decoded", by |-> fn]
Has(yes) == [kind |-> "has_decoder", yes |-> yes]

Answers ==
  {NoAnswer, Unknown, Unsupported} \cup {DecodedBy(fn) : fn \in Decoders}
                                   \cup {Has(yes) : yes \in BOOLEAN}

Answer(t) ==
  IF t \notin MessageTypes THEN Unknown
  ELSE IF table[t] = NoDecoder THEN Unsupported ELSE DecodedBy(table[t])

-----------------------------------------------------------------------------
Init ==
  /\ table = [t \in MessageTypes |-> NoDecoder]
  /\ call = [th \in Threads |-> NoCall]
  /\ effect = [th \in Threads |-> NoAnswer]
  /\ answer = [th \in Threads |-> NoAnswer]

Register(t, fn) ==
  /\ table' = [table EXCEPT ![t] = fn]
  /\ UNCHANGED <<call, effect, answer>>

Clear ==
  /\ table' = [t \in MessageTypes |-> NoDecoder]
  /\ UNCHANGED <<call, effect, answer>>

HasDecoder(th, t) ==
  /\ answer' = [answer EXCEPT ![th] = Has(Answer(t) \notin {Unknown, Unsupported})]
  /\ UNCHANGED <<table, call, effect>>

CallDecode(th, t) ==
  /\ call[th] = NoCall
  /\ call' = [call EXCEPT ![th] = t]
  /\ UNCHANGED <<table, effect, answer>>

(* The call takes effect: from now on the table does not matter to it.      *)
Settle(th) ==
  /\ call[th] # NoCall /\ effect[th] = NoAnswer
  /\ effect' = [effect EXCEPT ![th] = Answer(call[th])]
  /\ UNCHANGED <<table, call, answer>>

ReturnDecode(th) ==
  /\ call[th] # NoCall
  /\ answer' = [answer EXCEPT ![th] =
                  IF effect[th] = NoAnswer THEN Answer(call[th]) ELSE effect[th]]
  /\ call' = [call EXCEPT ![th] = NoCall]
  /\ effect' = [effect EXCEPT ![th] = NoAnswer]
  /\ UNCHANGED table

Next ==
  \/ \E t \in MessageTypes : \E fn \in Decoders : Register(t, fn)
  \/ Clear
  \/ \E th \in Threads : \E t \in TypeIds : HasDecoder(th, t) \/ CallDecode(th, t)
  \/ \E th \in Threads : Settle(th) \/ ReturnDecode(th)

Spec == Init /\ [][Next]_vars
=============================================================================
