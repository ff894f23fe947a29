------------------------- MODULE MessageRegistry_proofs -------------------------
(***************************************************************************)
(* Theorems about MessageRegistry, for any threads, types, decoders and     *)
(* registrations: no null pointer is called, what callers were promised is  *)
(* kept, and the registry implements the atomic table of DecoderTable.      *)
(***************************************************************************)
EXTENDS MessageRegistry, SequenceTheorems, TLAPS

Inv == TypeOK /\ ClearsAlone /\ NoNullCall /\ PromisesKept /\ LoopsProgress

Looping(th) == pc[th] \in {"registering", "clearing"}

(* Entries of the registration list.                                        *)
LEMMA RegistrationFacts ==
  ASSUME NEW i \in 1 .. Len(Registrations)
  PROVE  /\ Registrations[i][1] \in MessageTypes
         /\ Registrations[i][2] \in Decoders
<1>1. Registrations[i] \in MessageTypes \X Decoders
  BY RegistryAssumption, ElementOfSeq
<1> QED
  BY <1>1

LEMMA RangeOfTypes ==
  /\ Len(Registrations) \in Nat
  /\ \A t \in MessageTypes : InRange(t)
  /\ \A t \in TypeIds : InRange(t) <=> t \in MessageTypes
  /\ NoCall \notin TypeIds
BY RegistryAssumption, LenProperties DEF MessageTypes, InRange, NoCall

-----------------------------------------------------------------------------
(* A registration writes a decoder to one entry and so cannot harm a thread *)
(* that is about to call, nor a promise.                                    *)
LEMMA RegistrationKeeps ==
  ASSUME TypeOK, NEW t \in MessageTypes, NEW fn \in Decoders,
         decoders' = Registered(t, fn)
  PROVE  /\ decoders' \in [MessageTypes -> Decoders \cup {NoDecoder}]
         /\ decoders'[t] = fn /\ decoders'[t] # NoDecoder
         /\ \A u \in MessageTypes : u # t => decoders'[u] = decoders[u]
         /\ \A u \in MessageTypes : decoders[u] # NoDecoder => decoders'[u] # NoDecoder
<1>1. decoders' = [decoders EXCEPT ![t] = fn]
  BY RangeOfTypes DEF Registered
<1> QED
  BY <1>1, RegistryAssumption DEF TypeOK

LEMMA InitInv == Init => Inv
<1> SUFFICES ASSUME Init PROVE Inv
  OBVIOUS
<1>1. TypeOK
  BY RegistryAssumption DEF Init, TypeOK, NoCall
<1>2. ClearsAlone /\ NoNullCall /\ PromisesKept /\ LoopsProgress
  BY DEF Init, ClearsAlone, NoNullCall, PromisesKept, LoopsProgress
<1> QED
  BY <1>1, <1>2 DEF Inv

(* The calls that write entries.                                            *)
LEMMA RegisterDecoderInv ==
  ASSUME Inv, NEW th \in Threads, NEW t \in TypeIds \cap MessageTypes,
         NEW fn \in Decoders, RegisterDecoder(th, t, fn)
  PROVE  Inv'
<1>1. /\ pc[th] = "idle" /\ \A u \in Threads : pc[u] # "clearing"
      /\ decoders' = Registered(t, fn)
      /\ promised' = promised \cup {t}
      /\ UNCHANGED <<pc, call, read, next, answer>>
  BY DEF RegisterDecoder, MayUse
<1>2. /\ decoders' \in [MessageTypes -> Decoders \cup {NoDecoder}]
      /\ decoders'[t] # NoDecoder
      /\ \A u \in MessageTypes : decoders[u] # NoDecoder => decoders'[u] # NoDecoder
  BY <1>1, RegistrationKeeps DEF Inv
<1>3. TypeOK'
  BY <1>1, <1>2 DEF Inv, TypeOK
<1>4. ClearsAlone'
  BY <1>1 DEF ClearsAlone
<1>5. NoNullCall'
  BY <1>1, <1>2 DEF Inv, TypeOK, NoNullCall
<1>6. PromisesKept'
  BY <1>1, <1>2 DEF Inv, TypeOK, PromisesKept
<1>7. LoopsProgress'
  <2>1. ASSUME NEW u \in Threads, pc[u] = "registering", NEW i \in 1 .. next[u] - 1
        PROVE  decoders'[Registrations[i][1]] # NoDecoder
    <3>1. i \in 1 .. Len(Registrations)
      BY <2>1, RangeOfTypes DEF Inv, TypeOK
    <3> QED
      BY <1>2, <2>1, <3>1, RegistrationFacts DEF Inv, LoopsProgress
  <2> QED
    BY <1>1, <2>1 DEF LoopsProgress
<1> QED
  BY <1>3, <1>4, <1>5, <1>6, <1>7 DEF Inv

LEMMA RegisterNextInv ==
  ASSUME Inv, NEW th \in Threads, RegisterNext(th)
  PROVE  Inv'
<1> DEFINE t == Registrations[next[th]][1]
<1> DEFINE fn == Registrations[next[th]][2]
<1>1. /\ pc[th] = "registering" /\ next[th] <= Len(Registrations)
      /\ decoders' = Registered(t, fn)
      /\ next' = [next EXCEPT ![th] = @ + 1]
      /\ UNCHANGED <<pc, call, read, answer, promised>>
  BY DEF RegisterNext
<1>2. next[th] \in 1 .. Len(Registrations)
  BY <1>1, RangeOfTypes DEF Inv, TypeOK
<1>3. t \in MessageTypes /\ fn \in Decoders
  BY <1>2, RegistrationFacts
<1> HIDE DEF fn
<1>4. /\ decoders' \in [MessageTypes -> Decoders \cup {NoDecoder}]
      /\ decoders'[t] # NoDecoder
      /\ \A u \in MessageTypes : decoders[u] # NoDecoder => decoders'[u] # NoDecoder
  BY <1>1, <1>3, RegistrationKeeps DEF Inv
<1>5. \A u \in Threads : pc[u] # "clearing"
  BY <1>1 DEF Inv, ClearsAlone, Alone
<1>6. /\ next' \in [Threads -> Nat]
      /\ next'[th] = next[th] + 1
      /\ \A u \in Threads : u # th => next'[u] = next[u]
  BY <1>1 DEF Inv, TypeOK
<1>7. TypeOK'
  <2>1. ASSUME NEW u \in Threads, pc[u] = "registering"
        PROVE  next'[u] \in 1 .. Len(Registrations) + 1
    <3>1. CASE u = th
      BY <1>2, <1>6, <3>1, RangeOfTypes
    <3>2. CASE u # th
      BY <1>6, <2>1, <3>2 DEF Inv, TypeOK
    <3> QED
      BY <3>1, <3>2
  <2>2. \A u \in Threads :
          pc[u] \notin {"registering", "clearing"} => next'[u] = 1
    BY <1>1, <1>6 DEF Inv, TypeOK
  <2> QED
    BY <1>1, <1>4, <1>5, <1>6, <2>1, <2>2 DEF Inv, TypeOK
<1>8. ClearsAlone'
  BY <1>1, <1>5 DEF ClearsAlone
<1>9. NoNullCall'
  BY <1>1, <1>4 DEF Inv, TypeOK, NoNullCall
<1>10. PromisesKept'
  BY <1>1, <1>4 DEF Inv, TypeOK, PromisesKept
<1>11. LoopsProgress'
  <2>1. ASSUME NEW u \in Threads, pc[u] = "registering", NEW i \in 1 .. next'[u] - 1
        PROVE  decoders'[Registrations[i][1]] # NoDecoder
    <3>1. next[u] \in 1 .. Len(Registrations) + 1
      BY <2>1 DEF Inv, TypeOK
    <3>2. CASE i \in 1 .. next[u] - 1
      <4>1. i \in 1 .. Len(Registrations)
        BY <3>1, <3>2, RangeOfTypes
      <4> QED
        BY <1>4, <2>1, <3>2, <4>1, RegistrationFacts DEF Inv, LoopsProgress
    <3>3. CASE i \notin 1 .. next[u] - 1
      <4>1. u = th /\ i = next[th]
        BY <1>6, <2>1, <3>1, <3>3
      <4> QED
        BY <1>4, <4>1
    <3> QED
      BY <3>2, <3>3
  <2> QED
    BY <1>1, <1>5, <2>1 DEF LoopsProgress
<1> QED
  BY <1>7, <1>8, <1>9, <1>10, <1>11 DEF Inv

LEMMA ClearNextInv ==
  ASSUME Inv, NEW th \in Threads, ClearNext(th)
  PROVE  Inv'
<1>1. /\ pc[th] = "clearing" /\ next[th] <= kMaxTypeId
      /\ decoders' = [decoders EXCEPT ![next[th]] = NoDecoder]
      /\ next' = [next EXCEPT ![th] = @ + 1]
      /\ UNCHANGED <<pc, call, read, answer, promised>>
  BY DEF ClearNext
<1>2. next[th] \in MessageTypes
  BY <1>1, RegistryAssumption DEF Inv, TypeOK, MessageTypes
<1>3. promised = {} /\ \A u \in Threads \ {th} : pc[u] = "idle"
  BY <1>1 DEF Inv, LoopsProgress, ClearsAlone, Alone
<1>4. /\ decoders' \in [MessageTypes -> Decoders \cup {NoDecoder}]
      /\ decoders'[next[th]] = NoDecoder
      /\ \A u \in MessageTypes : u # next[th] => decoders'[u] = decoders[u]
      /\ next' \in [Threads -> Nat]
      /\ next'[th] = next[th] + 1
      /\ \A u \in Threads : u # th => next'[u] = next[u]
  BY <1>1, <1>2 DEF Inv, TypeOK
<1>5. TypeOK'
  <2>1. next'[th] \in 1 .. kMaxTypeId + 1
    BY <1>1, <1>2, <1>4, RegistryAssumption DEF MessageTypes
  <2> QED
    BY <1>1, <1>3, <1>4, <2>1 DEF Inv, TypeOK
<1>6. ClearsAlone'
  BY <1>1 DEF Inv, ClearsAlone, Alone
<1>7. NoNullCall' /\ PromisesKept'
  BY <1>1, <1>3 DEF NoNullCall, PromisesKept
<1>8. LoopsProgress'
  <2>1. ASSUME NEW t \in 1 .. next'[th] - 1
        PROVE  decoders'[t] = NoDecoder
    <3>1. t \in MessageTypes /\ (t = next[th] \/ t \in 1 .. next[th] - 1)
      BY <1>1, <1>2, <1>4, <2>1, RegistryAssumption DEF MessageTypes
    <3> QED
      BY <1>1, <1>4, <3>1 DEF Inv, LoopsProgress
  <2> QED
    BY <1>1, <1>3, <2>1 DEF LoopsProgress
<1> QED
  BY <1>5, <1>6, <1>7, <1>8 DEF Inv

-----------------------------------------------------------------------------
(* The calls that leave the entries alone.                                  *)
LEMMA ReturnInv ==
  ASSUME Inv, NEW th \in Threads, NEW result, Return(th, result), ~Looping(th)
  PROVE  Inv'
<1>1. /\ pc' = [pc EXCEPT ![th] = "idle"]
      /\ call' = [call EXCEPT ![th] = NoCall]
      /\ read' = [read EXCEPT ![th] = NoDecoder]
      /\ UNCHANGED <<decoders, next, promised>>
  BY DEF Return
<1>2. next[th] = 1
  BY DEF Inv, TypeOK, Looping
<1>3. TypeOK'
  BY <1>1, <1>2 DEF Inv, TypeOK
<1>4. ClearsAlone'
  BY <1>1 DEF Inv, TypeOK, ClearsAlone, Alone
<1>5. NoNullCall'
  BY <1>1 DEF Inv, TypeOK, NoNullCall
<1>6. PromisesKept'
  BY <1>1 DEF Inv, PromisesKept
<1>7. LoopsProgress'
  BY <1>1 DEF Inv, TypeOK, LoopsProgress
<1> QED
  BY <1>3, <1>4, <1>5, <1>6, <1>7 DEF Inv

LEMMA AllRegisteredInv ==
  ASSUME Inv, NEW th \in Threads, AllRegistered(th)
  PROVE  Inv'
<1>1. /\ pc[th] = "registering" /\ next[th] > Len(Registrations)
      /\ pc' = [pc EXCEPT ![th] = "idle"]
      /\ next' = [next EXCEPT ![th] = 1]
      /\ promised' = promised \cup {Registrations[i][1] : i \in DOMAIN Registrations}
      /\ UNCHANGED <<decoders, call, read, answer>>
  BY DEF AllRegistered
<1>2. DOMAIN Registrations = 1 .. Len(Registrations)
  BY RegistryAssumption, LenProperties
<1>3. next[th] = Len(Registrations) + 1
  BY <1>1, RangeOfTypes DEF Inv, TypeOK
<1>4. \A i \in DOMAIN Registrations :
        /\ Registrations[i][1] \in MessageTypes
        /\ decoders[Registrations[i][1]] # NoDecoder
  BY <1>1, <1>2, <1>3, RangeOfTypes, RegistrationFacts DEF Inv, LoopsProgress
<1>5. \A u \in Threads : pc[u] # "clearing"
  BY <1>1 DEF Inv, ClearsAlone, Alone
<1>6. TypeOK'
  BY <1>1, <1>4 DEF Inv, TypeOK
<1>7. ClearsAlone'
  BY <1>1, <1>5 DEF Inv, TypeOK, ClearsAlone
<1>8. NoNullCall'
  BY <1>1 DEF Inv, TypeOK, NoNullCall
<1>9. PromisesKept'
  BY <1>1, <1>4 DEF Inv, PromisesKept
<1>10. LoopsProgress'
  BY <1>1, <1>5 DEF Inv, TypeOK, LoopsProgress
<1> QED
  BY <1>6, <1>7, <1>8, <1>9, <1>10 DEF Inv

(* RegisterAll, Clear and Decode begin, Cleared and Lookup go on.           *)
LEMMA BeginInv ==
  ASSUME Inv, NEW th \in Threads,
         \/ RegisterAll(th)
         \/ Clear(th)
         \/ Cleared(th)
         \/ Lookup(th)
         \/ \E t \in TypeIds : HasDecoder(th, t) \/ Decode(th, t)
  PROVE  Inv'
<1> USE DEF Inv
<1>1. CASE RegisterAll(th)
  <2>1. /\ pc[th] = "idle" /\ \A u \in Threads : pc[u] # "clearing"
        /\ pc' = [pc EXCEPT ![th] = "registering"]
        /\ UNCHANGED <<decoders, call, read, next, answer, promised>>
    BY <1>1 DEF RegisterAll, MayUse
  <2>2. TypeOK'
    BY <2>1, RangeOfTypes DEF TypeOK
  <2>3. ClearsAlone' /\ NoNullCall' /\ PromisesKept'
    BY <2>1 DEF TypeOK, ClearsAlone, NoNullCall, PromisesKept
  <2>4. LoopsProgress'
    BY <2>1 DEF TypeOK, LoopsProgress
  <2> QED
    BY <2>2, <2>3, <2>4
<1>2. CASE Clear(th)
  <2>1. /\ pc[th] = "idle" /\ \A u \in Threads \ {th} : pc[u] = "idle"
        /\ pc' = [pc EXCEPT ![th] = "clearing"]
        /\ promised' = {}
        /\ UNCHANGED <<decoders, call, read, next, answer>>
    BY <1>2 DEF Clear, MayUse, Alone
  <2>2. TypeOK'
    BY <2>1, RegistryAssumption DEF TypeOK
  <2>3. ClearsAlone'
    BY <2>1 DEF TypeOK, ClearsAlone, Alone
  <2>4. NoNullCall' /\ PromisesKept'
    BY <2>1 DEF TypeOK, NoNullCall, PromisesKept
  <2>5. LoopsProgress'
    BY <2>1 DEF TypeOK, LoopsProgress
  <2> QED
    BY <2>2, <2>3, <2>4, <2>5
<1>3. CASE Cleared(th)
  <2>1. /\ pc[th] = "clearing"
        /\ pc' = [pc EXCEPT ![th] = "idle"]
        /\ next' = [next EXCEPT ![th] = 1]
        /\ UNCHANGED <<decoders, call, read, answer, promised>>
    BY <1>3 DEF Cleared
  <2>2. TypeOK'
    BY <2>1 DEF TypeOK
  <2>3. ClearsAlone' /\ NoNullCall' /\ PromisesKept'
    BY <2>1 DEF TypeOK, ClearsAlone, Alone, NoNullCall, PromisesKept
  <2>4. LoopsProgress'
    BY <2>1 DEF TypeOK, LoopsProgress
  <2> QED
    BY <2>2, <2>3, <2>4
<1>4. CASE Lookup(th)
  <2>1. /\ pc[th] = "lookup" /\ InRange(call[th]) /\ decoders[call[th]] # NoDecoder
        /\ read' = [read EXCEPT ![th] = decoders[call[th]]]
        /\ UNCHANGED <<decoders, call, next, answer, promised>>
    BY <1>4 DEF Lookup
  <2>2. PICK step \in {"invoke", "reload"} : pc' = [pc EXCEPT ![th] = step]
    BY <1>4 DEF Lookup
  <2>3. call[th] \in MessageTypes
    BY <2>1, RangeOfTypes DEF TypeOK
  <2>4. TypeOK'
    BY <2>1, <2>2, <2>3 DEF TypeOK
  <2>5. ClearsAlone' /\ PromisesKept'
    BY <2>1, <2>2 DEF TypeOK, ClearsAlone, Alone, PromisesKept
  <2>6. NoNullCall'
    BY <2>1, <2>2 DEF TypeOK, NoNullCall
  <2>7. LoopsProgress'
    BY <2>1, <2>2 DEF TypeOK, LoopsProgress
  <2> QED
    BY <2>4, <2>5, <2>6, <2>7
<1>5. ASSUME NEW t \in TypeIds, HasDecoder(th, t)
      PROVE  Inv'
  <2>1. /\ UNCHANGED <<decoders, pc, call, read, next>>
        /\ \A u \in Threads : pc[u] # "clearing"
        /\ \/ promised' = promised
           \/ promised' = promised \cup {t} /\ InRange(t) /\ decoders[t] # NoDecoder
    BY <1>5 DEF HasDecoder, MayUse
  <2>2. TypeOK' /\ PromisesKept'
    BY <2>1, RangeOfTypes DEF TypeOK, PromisesKept
  <2>3. ClearsAlone' /\ NoNullCall' /\ LoopsProgress'
    BY <2>1 DEF ClearsAlone, Alone, NoNullCall, LoopsProgress
  <2> QED
    BY <2>2, <2>3
<1>6. ASSUME NEW t \in TypeIds, Decode(th, t)
      PROVE  Inv'
  <2>1. /\ pc[th] = "idle" /\ \A u \in Threads : pc[u] # "clearing"
        /\ pc' = [pc EXCEPT ![th] = "lookup"]
        /\ call' = [call EXCEPT ![th] = t]
        /\ UNCHANGED <<decoders, read, next, answer, promised>>
    BY <1>6 DEF Decode, MayUse
  <2>2. TypeOK'
    BY <2>1 DEF TypeOK
  <2>3. ClearsAlone' /\ NoNullCall' /\ PromisesKept' /\ LoopsProgress'
    BY <2>1 DEF TypeOK, ClearsAlone, NoNullCall, PromisesKept, LoopsProgress
  <2> QED
    BY <2>2, <2>3
<1> QED
  BY <1>1, <1>2, <1>3, <1>4, <1>5, <1>6

LEMMA StepInv == Inv /\ [Next]_vars => Inv'
<1> SUFFICES ASSUME Inv, [Next]_vars PROVE Inv'
  OBVIOUS
<1>1. CASE UNCHANGED vars
  BY <1>1 DEF vars, Inv, TypeOK, ClearsAlone, Alone, NoNullCall, PromisesKept,
              LoopsProgress
<1>2. ASSUME NEW th \in Threads, Step(th)
      PROVE  Inv'
  <2>1. CASE \E t \in TypeIds \cap MessageTypes, fn \in Decoders :
               RegisterDecoder(th, t, fn)
    BY <2>1, RegisterDecoderInv
  <2>2. CASE RegisterNext(th)
    BY <2>2, RegisterNextInv
  <2>3. CASE AllRegistered(th)
    BY <2>3, AllRegisteredInv
  <2>4. CASE ClearNext(th)
    BY <2>4, ClearNextInv
  <2>5. CASE \/ RefuseUnknown(th) \/ RefuseUnsupported(th) \/ Invoke(th) \/ Reload(th)
    <3>1. /\ ~Looping(th)
          /\ \E result : Return(th, result)
      BY <2>5 DEF RefuseUnknown, RefuseUnsupported, Invoke, Reload, Looping
    <3> QED
      BY <3>1, ReturnInv
  <2>6. CASE \/ RegisterAll(th) \/ Clear(th) \/ Cleared(th) \/ Lookup(th)
             \/ \E t \in TypeIds : HasDecoder(th, t) \/ Decode(th, t)
    BY <2>6, BeginInv
  <2> QED
    BY <1>2, <2>1, <2>2, <2>3, <2>4, <2>5, <2>6 DEF Step
<1> QED
  BY <1>1, <1>2 DEF Next

(* The state of the registry and of its callers has its type.               *)
THEOREM TypeCorrect == Spec => []TypeOK
<1>1. Inv => TypeOK
  BY DEF Inv
<1> QED
  BY InitInv, StepInv, <1>1, PTL DEF Spec

(* No decode() calls a null pointer, however registrations race with it, as *)
(* long as clear() keeps to its rule.                                       *)
THEOREM NullIsNeverCalled == Spec => []NoNullCall
<1>1. Inv => NoNullCall
  BY DEF Inv
<1> QED
  BY InitInv, StepInv, <1>1, PTL DEF Spec

(* A type that one thread has registered, or was told is supported, is      *)
(* supported for every thread until the registry is cleared.                *)
THEOREM PromisesAreKept == Spec => []PromisesKept
<1>1. Inv => PromisesKept
  BY DEF Inv
<1> QED
  BY InitInv, StepInv, <1>1, PTL DEF Spec

-----------------------------------------------------------------------------
(* Refinement.  The entries that the readers can see are those of decoders_,*)
(* since they are outside while a thread clears; to a clear() in progress   *)
(* all entries are gone.                                                    *)
View == [t \in MessageTypes |-> IF Clearing(t) THEN NoDecoder ELSE decoders[t]]
Effect == [th \in Threads |-> IF pc[th] = "invoke" THEN DecodedBy(read[th])
                                                  ELSE NoAnswer]

LEMMA ViewIsTable ==
  ASSUME Inv, \A th \in Threads : pc[th] # "clearing"
  PROVE  View = decoders
BY DEF Inv, TypeOK, View, Clearing

LEMMA ViewIsTableNext ==
  ASSUME Inv', \A th \in Threads : pc'[th] # "clearing"
  PROVE  View' = decoders'
BY DEF Inv, TypeOK, View, Clearing

LEMMA ViewIsEmpty ==
  ASSUME Inv, NEW th \in Threads, pc[th] = "clearing"
  PROVE  View = [t \in MessageTypes |-> NoDecoder]
<1>1. ASSUME NEW t \in MessageTypes, ~Clearing(t)
      PROVE  decoders[t] = NoDecoder
  <2>1. next[th] \in 1 .. kMaxTypeId + 1 /\ ~(t >= next[th])
    BY <1>1 DEF Inv, TypeOK, Clearing
  <2>2. t \in 1 .. next[th] - 1
    BY <2>1, RegistryAssumption DEF MessageTypes
  <2> QED
    BY <2>2 DEF Inv, LoopsProgress
<1> QED
  BY <1>1 DEF View

LEMMA ViewIsEmptyNext ==
  ASSUME Inv', NEW th \in Threads, pc'[th] = "clearing"
  PROVE  View' = [t \in MessageTypes |-> NoDecoder]
<1>1. ASSUME NEW t \in MessageTypes, ~Clearing(t)'
      PROVE  decoders'[t] = NoDecoder
  <2>1. next'[th] \in 1 .. kMaxTypeId + 1 /\ ~(t >= next'[th])
    BY <1>1 DEF Inv, TypeOK, Clearing
  <2>2. t \in 1 .. next'[th] - 1
    BY <2>1, RegistryAssumption DEF MessageTypes
  <2> QED
    BY <2>2 DEF Inv, LoopsProgress
<1> QED
  BY <1>1 DEF View

(* Answers can be told apart.                                               *)
LEMMA AnswersDiffer ==
  /\ Unknown # Unsupported
  /\ \A fn : /\ DecodedBy(fn) # NoAnswer
             /\ DecodedBy(fn) # Unknown
             /\ DecodedBy(fn) # Unsupported
<1>1. Unknown.kind # Unsupported.kind
  BY DEF Unknown, Unsupported
<1>2. ASSUME NEW fn
      PROVE  /\ DecodedBy(fn).kind # NoAnswer.kind
             /\ DecodedBy(fn).kind # Unknown.kind
             /\ DecodedBy(fn).kind # Unsupported.kind
  BY DEF DecodedBy, NoAnswer, Unknown, Unsupported
<1> QED
  BY <1>1, <1>2

(* The answer that the table gives, in the terms of the registry.           *)
LEMMA AnswerOf ==
  ASSUME NEW t \in TypeIds, View = decoders
  PROVE  Shared!Answer(t) =
           IF ~InRange(t) THEN Unknown
           ELSE IF decoders[t] = NoDecoder THEN Unsupported
           ELSE DecodedBy(decoders[t])
BY RangeOfTypes DEF Shared!Answer, Shared!MessageTypes, MessageTypes, View,
   Shared!Unknown, Shared!Unsupported, Shared!DecodedBy,
   Unknown, Unsupported, DecodedBy

Unseen == View' = View /\ Effect' = Effect /\ call' = call /\ answer' = answer

LEMMA UnseenIsStutter == Unseen => UNCHANGED Shared!vars
BY DEF Unseen, View, Effect, Shared!vars

(* A decode() that returns without having settled before.                   *)
LEMMA ReturnSimulates ==
  ASSUME Inv, Inv', NEW th \in Threads, ~Looping(th), call[th] \in TypeIds,
         NEW result, Return(th, result), View = decoders,
         \/ pc[th] # "invoke" /\ result = Shared!Answer(call[th])
         \/ pc[th] = "invoke" /\ result = DecodedBy(read[th])
  PROVE  Shared!ReturnDecode(th)
<1>1. /\ answer' = [answer EXCEPT ![th] = result]
      /\ pc' = [pc EXCEPT ![th] = "idle"]
      /\ call' = [call EXCEPT ![th] = NoCall]
      /\ read' = [read EXCEPT ![th] = NoDecoder]
      /\ UNCHANGED <<decoders, next, promised>>
  BY DEF Return
<1>2. call[th] # NoCall
  BY RangeOfTypes
<1>3. result = IF Effect[th] = NoAnswer THEN Shared!Answer(call[th]) ELSE Effect[th]
  BY AnswersDiffer DEF Effect
<1>4. Effect' = [Effect EXCEPT ![th] = NoAnswer]
  BY <1>1 DEF Effect, Inv, TypeOK
<1>5. View' = View
  BY <1>1 DEF View, Clearing, Inv, TypeOK, Looping
<1> QED
  BY <1>1, <1>2, <1>3, <1>4, <1>5
     DEF Shared!ReturnDecode, Shared!NoCall, NoCall, Shared!NoAnswer, NoAnswer, Effect, View

(* The writers: each entry a registration writes is a step of the table, a  *)
(* clear() is one when it begins.                                           *)
LEMMA WriterSimulates ==
  ASSUME Inv, Inv', NEW th \in Threads,
         \/ \E t \in TypeIds \cap MessageTypes, fn \in Decoders :
              RegisterDecoder(th, t, fn)
         \/ RegisterAll(th) \/ RegisterNext(th) \/ AllRegistered(th)
         \/ Clear(th) \/ ClearNext(th) \/ Cleared(th)
  PROVE  Shared!Next \/ Unseen
<1>1. ASSUME NEW t \in MessageTypes, NEW fn \in Decoders,
             decoders' = Registered(t, fn),
             UNCHANGED <<pc, call, read, answer>>,
             \A u \in Threads : pc[u] # "clearing"
      PROVE  Shared!Next
  <2>1. View = decoders /\ View' = decoders' /\ Effect' = Effect
    BY <1>1, ViewIsTable, ViewIsTableNext DEF Effect
  <2>2. decoders' = [decoders EXCEPT ![t] = fn]
    BY <1>1, RangeOfTypes DEF Registered
  <2>3. Shared!Register(t, fn)
    BY <1>1, <2>1, <2>2 DEF Shared!Register, View, Effect
  <2> QED
    BY <2>3 DEF Shared!Next, Shared!MessageTypes, MessageTypes
<1>2. CASE \E t \in TypeIds \cap MessageTypes, fn \in Decoders :
             RegisterDecoder(th, t, fn)
  BY <1>1, <1>2 DEF RegisterDecoder, MayUse
<1>3. CASE RegisterNext(th)
  <2>1. next[th] \in 1 .. Len(Registrations)
    BY <1>3, RangeOfTypes DEF RegisterNext, Inv, TypeOK
  <2>2. \A u \in Threads : pc[u] # "clearing"
    BY <1>3 DEF RegisterNext, Inv, ClearsAlone, Alone
  <2> QED
    BY <1>1, <1>3, <2>1, <2>2, RegistrationFacts DEF RegisterNext
<1>4. CASE RegisterAll(th) \/ AllRegistered(th)
  <2>1. \A u \in Threads : pc[u] # "clearing"
    BY <1>4 DEF RegisterAll, AllRegistered, MayUse, Inv, ClearsAlone, Alone
  <2>2. /\ pc[th] \notin {"invoke", "clearing"}
        /\ pc'[th] \notin {"invoke", "clearing"}
        /\ \A u \in Threads : u # th => pc'[u] = pc[u]
        /\ UNCHANGED <<decoders, call, read, answer>>
    BY <1>4 DEF RegisterAll, AllRegistered, MayUse, Inv, TypeOK
  <2>3. View' = View
    BY <2>1, <2>2, ViewIsTable, ViewIsTableNext
  <2> QED
    BY <2>2, <2>3 DEF Unseen, Effect
<1>5. CASE Clear(th)
  <2>1. /\ pc[th] = "idle" /\ pc'[th] = "clearing"
        /\ \A u \in Threads : u # th => pc'[u] = pc[u]
        /\ UNCHANGED <<decoders, call, read, answer>>
    BY <1>5 DEF Clear, MayUse, Inv, TypeOK
  <2>2. View' = [t \in MessageTypes |-> NoDecoder] /\ Effect' = Effect
    BY <2>1, ViewIsEmptyNext DEF Effect
  <2>3. Shared!Clear
    BY <2>1, <2>2 DEF Shared!Clear, Shared!MessageTypes, MessageTypes, View, Effect
  <2> QED
    BY <2>3 DEF Shared!Next
<1>6. CASE ClearNext(th)
  <2>1. pc[th] = "clearing" /\ UNCHANGED <<pc, call, read, answer>>
    BY <1>6 DEF ClearNext
  <2>2. View' = View
    BY <2>1, ViewIsEmpty, ViewIsEmptyNext
  <2> QED
    BY <2>1, <2>2 DEF Unseen, Effect
<1>7. CASE Cleared(th)
  <2>1. /\ pc[th] = "clearing" /\ pc'[th] = "idle"
        /\ \A u \in Threads : u # th => pc[u] = "idle" /\ pc'[u] = pc[u]
        /\ UNCHANGED <<decoders, call, read, answer>>
    BY <1>7 DEF Cleared, Inv, TypeOK, ClearsAlone, Alone
  <2>2. View = [t \in MessageTypes |-> NoDecoder] /\ View' = decoders'
    BY <2>1, ViewIsEmpty, ViewIsTableNext
  <2>3. \A t \in MessageTypes : decoders[t] = NoDecoder
    <3>1. next[th] = kMaxTypeId + 1
      BY <1>7, RegistryAssumption DEF Cleared, Inv, TypeOK
    <3> QED
      BY <2>1, <3>1, RegistryAssumption DEF Inv, LoopsProgress, MessageTypes
  <2>4. View' = View
    BY <2>1, <2>2, <2>3 DEF Inv, TypeOK
  <2> QED
    BY <2>1, <2>4 DEF Unseen, Effect
<1> QED
  BY <1>2, <1>3, <1>4, <1>5, <1>6, <1>7

(* The readers: no thread clears while they are at it, so they see decoders_.*)
LEMMA ReaderSimulates ==
  ASSUME Inv, Inv', NEW th \in Threads,
         \/ \E t \in TypeIds : HasDecoder(th, t) \/ Decode(th, t)
         \/ RefuseUnknown(th) \/ RefuseUnsupported(th)
         \/ Lookup(th) \/ Invoke(th) \/ Reload(th)
  PROVE  Shared!Next \/ Unseen
<1>1. \A u \in Threads : pc[u] # "clearing"
  BY DEF HasDecoder, Decode, MayUse, RefuseUnknown, RefuseUnsupported, Lookup,
         Invoke, Reload, Inv, ClearsAlone, Alone
<1>2. View = decoders
  BY <1>1, ViewIsTable
<1>3. ASSUME NEW t \in TypeIds, HasDecoder(th, t)
      PROVE  Shared!Next
  <2>1. Has(InRange(t) /\ decoders[t] # NoDecoder)
          = Shared!Has(Shared!Answer(t) \notin {Shared!Unknown, Shared!Unsupported})
    BY <1>2, AnswerOf, AnswersDiffer
       DEF Has, Shared!Has, Unknown, Unsupported, Shared!Unknown, Shared!Unsupported
  <2>2. UNCHANGED <<decoders, pc, call, read, next>> /\ View' = View /\ Effect' = Effect
    BY <1>3 DEF HasDecoder, View, Clearing, Effect
  <2>3. Shared!HasDecoder(th, t)
    BY <1>3, <2>1, <2>2 DEF HasDecoder, Shared!HasDecoder, View, Effect
  <2> QED
    BY <2>3 DEF Shared!Next
<1>4. ASSUME NEW t \in TypeIds, Decode(th, t)
      PROVE  Shared!Next
  <2>1. /\ pc[th] = "idle"
        /\ pc' = [pc EXCEPT ![th] = "lookup"]
        /\ call' = [call EXCEPT ![th] = t]
        /\ UNCHANGED <<decoders, read, next, answer, promised>>
    BY <1>4 DEF Decode, MayUse
  <2>2. call[th] = NoCall
    BY <2>1 DEF Inv, TypeOK
  <2>3. View' = View /\ Effect' = Effect
    BY <2>1 DEF View, Clearing, Effect, Inv, TypeOK
  <2>4. Shared!CallDecode(th, t)
    BY <2>1, <2>2, <2>3 DEF Shared!CallDecode, Shared!NoCall, NoCall, View, Effect
  <2> QED
    BY <2>4 DEF Shared!Next
<1>5. CASE Lookup(th)
  <2>1. /\ pc[th] = "lookup" /\ InRange(call[th]) /\ decoders[call[th]] # NoDecoder
        /\ read' = [read EXCEPT ![th] = decoders[call[th]]]
        /\ UNCHANGED <<decoders, call, next, answer, promised>>
    BY <1>5 DEF Lookup
  <2>2. call[th] \in TypeIds /\ call[th] # NoCall
    BY <2>1, RangeOfTypes DEF Inv, TypeOK
  <2>3. PICK step \in {"invoke", "reload"} : pc' = [pc EXCEPT ![th] = step]
    BY <1>5 DEF Lookup
  <2>4. View' = View
    BY <2>1, <2>3 DEF View, Clearing, Inv, TypeOK
  <2>5. CASE step = "reload"
    <3>1. Effect' = Effect
      BY <2>1, <2>3, <2>5 DEF Effect, Inv, TypeOK
    <3> QED
      BY <2>1, <2>4, <3>1 DEF Unseen
  <2>6. CASE step = "invoke"
    <3>1. Effect' = [Effect EXCEPT ![th] = DecodedBy(decoders[call[th]])]
      BY <2>1, <2>3, <2>6 DEF Effect, Inv, TypeOK
    <3>2. Effect[th] = NoAnswer
      BY <2>1 DEF Effect
    <3>3. Shared!Answer(call[th]) = DecodedBy(decoders[call[th]])
      BY <1>2, <2>1, <2>2, AnswerOf
    <3>4. Shared!Settle(th)
      BY <2>1, <2>2, <2>4, <3>1, <3>2, <3>3
         DEF Shared!Settle, Shared!NoCall, NoCall, Shared!NoAnswer, NoAnswer, View, Effect
    <3> QED
      BY <3>4 DEF Shared!Next
  <2> QED
    BY <2>3, <2>5, <2>6
<1>6. CASE RefuseUnknown(th) \/ RefuseUnsupported(th) \/ Invoke(th) \/ Reload(th)
  <2>1. pc[th] \in {"lookup", "invoke", "reload"} /\ ~Looping(th)
    BY <1>6 DEF RefuseUnknown, RefuseUnsupported, Invoke, Reload, Looping
  <2>2. call[th] \in TypeIds
    BY <2>1, RegistryAssumption DEF Inv, TypeOK, MessageTypes, NoCall
  <2>3. pc[th] \in {"invoke", "reload"} => InRange(call[th])
    BY RangeOfTypes DEF Inv, TypeOK
  <2>4. Shared!ReturnDecode(th)
    <3>1. CASE RefuseUnknown(th) \/ RefuseUnsupported(th)
      BY <1>2, <2>1, <2>2, <3>1, AnswerOf, ReturnSimulates
         DEF RefuseUnknown, RefuseUnsupported
    <3>2. CASE Reload(th)
      <4>1. decoders[call[th]] # NoDecoder
        BY <3>2 DEF Reload, Inv, NoNullCall
      <4> QED
        BY <1>2, <2>1, <2>2, <2>3, <3>2, <4>1, AnswerOf, ReturnSimulates DEF Reload
    <3>3. CASE Invoke(th)
      BY <1>2, <2>1, <2>2, <3>3, ReturnSimulates DEF Invoke
    <3> QED
      BY <1>6, <3>1, <3>2, <3>3
  <2> QED
    BY <2>4 DEF Shared!Next
<1> QED
  BY <1>3, <1>4, <1>5, <1>6

LEMMA StepSimulates == Inv /\ Inv' /\ [Next]_vars => [Shared!Next]_Shared!vars
<1> SUFFICES ASSUME Inv, Inv', [Next]_vars
             PROVE  Shared!Next \/ UNCHANGED Shared!vars
  BY DEF Shared!vars
<1>1. CASE UNCHANGED vars
  <2>1. Unseen
    BY <1>1 DEF Unseen, vars, View, Clearing, Effect
  <2> QED
    BY <2>1, UnseenIsStutter
<1>2. ASSUME NEW th \in Threads, Step(th)
      PROVE  Shared!Next \/ Unseen
  BY <1>2, WriterSimulates, ReaderSimulates DEF Step
<1> QED
  BY <1>1, <1>2, UnseenIsStutter DEF Next

(* The registry is a table whose calls take effect at one moment each:      *)
(* every decode() is answered by a decoder that its type had during the     *)
(* call, or by none if it had none, whoever registers at the same time.     *)
THEOREM Refinement == Spec => ImplementsDecoderTable
<1>1. Init => Shared!Init
  BY DEF Init, Shared!Init, Clearing, NoCall, Shared!NoCall, NoAnswer,
         Shared!NoAnswer, MessageTypes, Shared!MessageTypes
<1> QED
  BY InitInv, StepInv, StepSimulates, <1>1, PTL
     DEF Spec, Shared!Spec, ImplementsDecoderTable
=============================================================================
