---------------------------- MODULE MessageRegistry ----------------------------
(***************************************************************************)
(* The MessageRegistry singleton as threads use it.  decoders_ is a plain   *)
(* array of function pointers: register_decoder() writes one entry,         *)
(* register_all_decoders() and clear() write one after the other, and       *)
(* decode() tests the entry of its type and then calls through it.  Nothing *)
(* is locked.                                                               *)
(*                                                                          *)
(* message.h:264 forbids clear() while any other thread may use the         *)
(* registry, and this rule the callers keep.  message.h:206 also wants all  *)
(* registration to be over before threads decode; that one they may break.  *)
(* The outcomes of the race are those of whole pointers, the old one or the *)
(* new one; and of decode()'s two reads of its entry the second may happen  *)
(* or may be the first one kept in a register.                              *)
(***************************************************************************)
EXTENDS Integers, Sequences

CONSTANTS
  Threads,
  kMaxTypeId,     \* the largest message type id (27)
  TypeIds,        \* the type ids that callers pass and payloads carry
  Decoders,       \* decoder functions
  NoDecoder,      \* the null pointer
  Registrations   \* the calls of register_all_decoders(), <<type id, function>>

MessageTypes == 1 .. kMaxTypeId

ASSUME RegistryAssumption ==
  /\ kMaxTypeId \in Nat
  /\ TypeIds \subseteq Nat
  /\ NoDecoder \notin Decoders
  /\ Registrations \in Seq(MessageTypes \X Decoders)

VARIABLES
  decoders,   \* MessageRegistry::decoders_, without its unused entry 0
  pc,         \* pc[th]: the step that th takes next
  call,       \* call[th]: the type id of the payload th is decoding
  read,       \* read[th]: the pointer th's decode() has tested
  next,       \* next[th]: the entry th's loop comes to next
  answer,     \* answer[th]: what th's last call returned
  promised    \* the types that callers have a right to think supported: a
              \* call has registered them, or has said that they are there

vars == <<decoders, pc, call, read, next, answer, promised>>

NoCall == -1
NoAnswer == [kind |-> "none"]
Unknown == [kind |-> "MessageTypeUnknown"]
Unsupported == [kind |-> "MessageTypeUnsupported"]
DecodedBy(fn) == [kind |-> "decoded", by |-> fn]
Has(yes) == [kind |-> "has_decoder", yes |-> yes]

Init ==
  /\ decoders = [t \in MessageTypes |-> NoDecoder]
  /\ pc = [th \in Threads |-> "idle"]
  /\ call = [th \in Threads |-> NoCall]
  /\ read = [th \in Threads |-> NoDecoder]
  /\ next = [th \in Threads |-> 1]
  /\ answer = [th \in Threads |-> NoAnswer]
  /\ promised = {}

-----------------------------------------------------------------------------
(* The callers' rule: clear() runs alone.                                   *)
Alone(th) == \A other \in Threads \ {th} : pc[other] = "idle"

MayUse(th) == pc[th] = "idle" /\ \A other \in Threads : pc[other] # "clearing"

(* Defect: type 27 is taken to be out of range.                             *)
InRange_Exclusive(t) == t # 0 /\ t < kMaxTypeId

InRange(t) == t # 0 /\ t <= kMaxTypeId

Registered(t, fn) == IF InRange(t) THEN [decoders EXCEPT ![t] = fn] ELSE decoders

(* register_decoder() of one caller's own, of a type id in [1, 27].         *)
RegisterDecoder(th, t, fn) ==
  /\ MayUse(th)
  /\ decoders' = Registered(t, fn)
  /\ promised' = promised \cup {t}
  /\ UNCHANGED <<pc, call, read, next, answer>>

(* register_all_decoders(), whose calls of register_decoder() are steps.    *)
RegisterAll(th) ==
  /\ MayUse(th)
  /\ pc' = [pc EXCEPT ![th] = "registering"]
  /\ UNCHANGED <<decoders, call, read, next, answer, promised>>

RegisterNext(th) ==
  /\ pc[th] = "registering" /\ next[th] <= Len(Registrations)
  /\ decoders' = Registered(Registrations[next[th]][1], Registrations[next[th]][2])
  /\ next' = [next EXCEPT ![th] = @ + 1]
  /\ UNCHANGED <<pc, call, read, answer, promised>>

AllRegistered(th) ==
  /\ pc[th] = "registering" /\ next[th] > Len(Registrations)
  /\ pc' = [pc EXCEPT ![th] = "idle"]
  /\ next' = [next EXCEPT ![th] = 1]
  /\ promised' = promised \cup {Registrations[i][1] : i \in DOMAIN Registrations}
  /\ UNCHANGED <<decoders, call, read, answer>>

HasDecoder(th, t) ==
  LET yes == InRange(t) /\ decoders[t] # NoDecoder
  IN  /\ MayUse(th)
      /\ answer' = [answer EXCEPT ![th] = Has(yes)]
      /\ promised' = IF yes THEN promised \cup {t} ELSE promised
      /\ UNCHANGED <<decoders, pc, call, read, next>>

(* clear(): the entries are set to null one after the other.                *)
Clear(th) ==
  /\ MayUse(th) /\ Alone(th)
  /\ pc' = [pc EXCEPT ![th] = "clearing"]
  /\ promised' = {}
  /\ UNCHANGED <<decoders, call, read, next, answer>>

(* Defect: the loop goes one entry too far.                                 *)
ClearNext_OneTooFar(th) ==
  /\ pc[th] = "clearing" /\ next[th] <= kMaxTypeId + 1
  /\ decoders' = [decoders EXCEPT ![next[th]] = NoDecoder]
  /\ next' = [next EXCEPT ![th] = @ + 1]
  /\ UNCHANGED <<pc, call, read, answer, promised>>

ClearNext(th) ==
  /\ pc[th] = "clearing" /\ next[th] <= kMaxTypeId
  /\ decoders' = [decoders EXCEPT ![next[th]] = NoDecoder]
  /\ next' = [next EXCEPT ![th] = @ + 1]
  /\ UNCHANGED <<pc, call, read, answer, promised>>

Cleared(th) ==
  /\ pc[th] = "clearing" /\ next[th] > kMaxTypeId
  /\ pc' = [pc EXCEPT ![th] = "idle"]
  /\ next' = [next EXCEPT ![th] = 1]
  /\ UNCHANGED <<decoders, call, read, answer, promised>>

-----------------------------------------------------------------------------
(* decode(): the payload is unpacked and its type id taken from it ...      *)
Decode(th, t) ==
  /\ MayUse(th)
  /\ pc' = [pc EXCEPT ![th] = "lookup"]
  /\ call' = [call EXCEPT ![th] = t]
  /\ UNCHANGED <<decoders, read, next, answer, promised>>

Return(th, result) ==
  /\ answer' = [answer EXCEPT ![th] = result]
  /\ pc' = [pc EXCEPT ![th] = "idle"]
  /\ call' = [call EXCEPT ![th] = NoCall]
  /\ read' = [read EXCEPT ![th] = NoDecoder]
  /\ UNCHANGED <<decoders, next, promised>>

(* Defect: a type id out of range is reported like a type without decoder.  *)
RefuseUnknown_AsUnsupported(th) ==
  /\ pc[th] = "lookup" /\ ~InRange(call[th])
  /\ Return(th, Unsupported)

(* ... the type id and the entry are tested ...                             *)
RefuseUnknown(th) ==
  /\ pc[th] = "lookup" /\ ~InRange(call[th])
  /\ Return(th, Unknown)

RefuseUnsupported(th) ==
  /\ pc[th] = "lookup" /\ InRange(call[th]) /\ decoders[call[th]] = NoDecoder
  /\ Return(th, Unsupported)

(* Defect: the entry is called without a test.                              *)
Lookup_NotTested(th) ==
  /\ pc[th] = "lookup" /\ InRange(call[th])
  /\ read' = [read EXCEPT ![th] = decoders[call[th]]]
  /\ \E step \in {"invoke", "reload"} : pc' = [pc EXCEPT ![th] = step]
  /\ UNCHANGED <<decoders, call, next, answer, promised>>

Lookup(th) ==
  /\ pc[th] = "lookup" /\ InRange(call[th]) /\ decoders[call[th]] # NoDecoder
  /\ read' = [read EXCEPT ![th] = decoders[call[th]]]
  /\ \E step \in {"invoke", "reload"} : pc' = [pc EXCEPT ![th] = step]
  /\ UNCHANGED <<decoders, call, next, answer, promised>>

(* ... and the function is called, by the pointer that was tested or by one *)
(* that is read again.                                                      *)
Invoke(th) ==
  /\ pc[th] = "invoke"
  /\ Return(th, DecodedBy(read[th]))

Reload(th) ==
  /\ pc[th] = "reload"
  /\ Return(th, DecodedBy(decoders[call[th]]))

Step(th) ==
  \/ \E t \in TypeIds \cap MessageTypes, fn \in Decoders : RegisterDecoder(th, t, fn)
  \/ RegisterAll(th) \/ RegisterNext(th) \/ AllRegistered(th)
  \/ Clear(th) \/ ClearNext(th) \/ Cleared(th)
  \/ \E t \in TypeIds : HasDecoder(th, t) \/ Decode(th, t)
  \/ RefuseUnknown(th) \/ RefuseUnsupported(th)
  \/ Lookup(th) \/ Invoke(th) \/ Reload(th)

Next == \E th \in Threads : Step(th)

Spec == Init /\ [][Next]_vars
-----------------------------------------------------------------------------
(* Type invariant.  A thread in decode() has a type id at hand, one beyond  *)
(* the tests has one in range; a loop does not run past its last entry.     *)
TypeOK ==
  /\ decoders \in [MessageTypes -> Decoders \cup {NoDecoder}]
  /\ pc \in [Threads -> {"idle", "registering", "clearing", "lookup", "invoke", "reload"}]
  /\ call \in [Threads -> TypeIds \cup {NoCall}]
  /\ read \in [Threads -> Decoders \cup {NoDecoder}]
  /\ next \in [Threads -> Nat]
  /\ promised \subseteq MessageTypes
  /\ \A th \in Threads :
       /\ pc[th] = "lookup" => call[th] \in TypeIds
       /\ pc[th] \in {"invoke", "reload"} => call[th] \in MessageTypes
       /\ pc[th] \notin {"lookup", "invoke", "reload"} => call[th] = NoCall
       /\ pc[th] = "registering" => next[th] \in 1 .. Len(Registrations) + 1
       /\ pc[th] = "clearing" => next[th] \in 1 .. kMaxTypeId + 1
       /\ pc[th] \notin {"registering", "clearing"} => next[th] = 1

(* While a thread clears, the others are outside the registry.              *)
ClearsAlone ==
  \A th \in Threads : pc[th] = "clearing" => Alone(th)

(* Between its test and its call, decode() never finds that the entry has   *)
(* become null: registering threads may race with it, since they replace    *)
(* pointers by other pointers.                                              *)
NoNullCall ==
  \A th \in Threads :
    /\ pc[th] = "invoke" => read[th] # NoDecoder
    /\ pc[th] = "reload" => decoders[call[th]] # NoDecoder

(* What a thread has been told holds for all threads: a type that has been  *)
(* registered, or that has_decoder() has vouched for, has its decoder until *)
(* the next clear(), whoever registers once more in the meantime.           *)
PromisesKept ==
  \A t \in promised : decoders[t] # NoDecoder

(* What makes both inductive: a loop has done its work up to its next entry.*)
LoopsProgress ==
  \A th \in Threads :
    /\ pc[th] = "registering" =>
         \A i \in 1 .. next[th] - 1 : decoders[Registrations[i][1]] # NoDecoder
    /\ pc[th] = "clearing" =>
         /\ promised = {}
         /\ \A t \in 1 .. next[th] - 1 : decoders[t] = NoDecoder

(* A decoder table in which calls take effect at one moment each: clear()   *)
(* when it is called, a registration when its entry is written, decode()    *)
(* when it reads the pointer that it calls, or the null that it reports.    *)
Clearing(t) == \E th \in Threads : pc[th] = "clearing" /\ t >= next[th]

Shared == INSTANCE DecoderTable WITH
  table  <- [t \in MessageTypes |-> IF Clearing(t) THEN NoDecoder ELSE decoders[t]],
  effect <- [th \in Threads |-> IF pc[th] = "invoke" THEN DecodedBy(read[th])
                                                     ELSE NoAnswer]

ImplementsDecoderTable == Shared!Spec
=============================================================================
