------------------------------ MODULE StationFeed ------------------------------
(***************************************************************************)
(* A SentenceAssembler at the end of a live feed.  Each station transmits   *)
(* its messages one after the other and each message's sentences in order;  *)
(* the feed interleaves the stations.  It can lose a sentence, deliver the  *)
(* one a station sent last once more, or break down for a while; the caller *)
(* can reset() the assembler, always after the feed came back and at any    *)
(* time as a timeout policy, as the documentation of reset() has it.        *)
(*                                                                          *)
(* The feed does not bring back sentences older than that: AisFeed is where *)
(* any sentence can arrive again at any time.                               *)
(*                                                                          *)
(* Unlike AisFeed, a station may reuse a seq_id, as stations do when they   *)
(* have run through the ten there are.                                      *)
(***************************************************************************)
EXTENDS SentenceAssembler, Traffic

CONSTANTS
  Stations,
  Script,      \* Script[st]: the sequence of transmissions st makes
  Faults,      \* what can go wrong: a subset of the four below
  MaxRepeats   \* bound on the sentences delivered twice

ASSUME StationAssumption ==
  /\ Faults \subseteq {"loss", "repeat", "outage", "timeout"}
  /\ Script \in [Stations -> Seq(Transmissions)]
  /\ MaxRepeats \in Nat

VARIABLES
  at,         \* at[st]: the message and the part st sends next
  online,     \* whether the feed is up
  repeats,    \* how many sentences were delivered twice
  delivered,  \* the messages handed to the caller, in order
  damaged     \* the transmissions a fault or a reset() has touched

feedVars == <<sequences, result, at, online, repeats, delivered, damaged>>

FeedInit ==
  /\ Init
  /\ at = [st \in Stations |-> [msg |-> 1, part |-> 1]]
  /\ online = TRUE
  /\ repeats = 0
  /\ delivered = <<>>
  /\ damaged = {}

-----------------------------------------------------------------------------
Done(st) == at[st].msg > Len(Script[st])
Sending(st) == Script[st][at[st].msg]

Advance(st) ==
  at' = [at EXCEPT ![st] =
           IF @.part < Header[Sending(st)].part_count
           THEN [msg |-> @.msg, part |-> @.part + 1]
           ELSE [msg |-> @.msg + 1, part |-> 1]]

(* The transmissions of which some parts were sent and some are to come.    *)
Underway == { Sending(st) : st \in {x \in Stations : ~Done(x) /\ at[x].part > 1} }

(* One turn of the caller's loop: a complete message is processed, an error *)
(* and nullopt are passed over.                                             *)
Process(sentence) ==
  /\ Feed(sentence)
  /\ delivered' = IF result'.kind = "message"
                  THEN Append(delivered, result'.message)
                  ELSE delivered

Receive(st) ==
  /\ online /\ ~Done(st)
  /\ Process(Part(Sending(st), at[st].part))
  /\ Advance(st)
  /\ UNCHANGED <<online, repeats, damaged>>

(* The sentence that st sent last arrives once more or, if it was lost, late.*)
LastSent(st) ==
  IF at[st].part > 1
  THEN Part(Sending(st), at[st].part - 1)
  ELSE LET t == Script[st][at[st].msg - 1] IN Part(t, Header[t].part_count)

Repeat(st) ==
  /\ "repeat" \in Faults /\ online /\ repeats < MaxRepeats
  /\ at[st].msg > 1 \/ at[st].part > 1
  /\ Process(LastSent(st))
  /\ repeats' = repeats + 1
  /\ UNCHANGED <<at, online, damaged>>

(* A sentence never reaches the caller: one is lost by a lossy feed, all    *)
(* are while the feed is down.                                              *)
Lose(st) ==
  /\ "loss" \in Faults \/ ~online
  /\ ~Done(st)
  /\ damaged' = damaged \cup {Sending(st)}
  /\ Advance(st)
  /\ UNCHANGED <<sequences, result, online, repeats, delivered>>

Disconnect ==
  /\ "outage" \in Faults /\ online
  /\ online' = FALSE
  /\ UNCHANGED <<sequences, result, at, repeats, delivered, damaged>>

(* "This should be called when a receiver reconnects ..."                   *)
Reconnect ==
  /\ ~online
  /\ online' = TRUE
  /\ Reset
  /\ damaged' = damaged \cup Underway
  /\ UNCHANGED <<at, repeats, delivered>>

(* "... or when a timeout policy evicts stale partial sequences."           *)
Timeout ==
  /\ "timeout" \in Faults /\ online
  /\ Reset
  /\ damaged' = damaged \cup Underway
  /\ UNCHANGED <<at, online, repeats, delivered>>

FeedNext ==
  \/ \E st \in Stations : Receive(st) \/ Repeat(st) \/ Lose(st)
  \/ Disconnect \/ Reconnect \/ Timeout

(* The caller's loop takes every sentence the feed brings, and a feed that  *)
(* is down comes back.                                                      *)
Fairness ==
  /\ \A st \in Stations : WF_feedVars(Receive(st) \/ Lose(st))
  /\ WF_feedVars(Reconnect)

FeedSpec == FeedInit /\ [][FeedNext]_feedVars /\ Fairness

-----------------------------------------------------------------------------
Scripted(st) == {Script[st][n] : n \in 1 .. Len(Script[st])}

(* What the stations must do for a receiver that goes by the seq_id.  Each  *)
(* transmission is made once.  Then either no seq_id is used for a second   *)
(* message of several parts, or no sentence is lost without the receiver    *)
(* noticing and no two stations use the same seq_id.                        *)
Multipart(t) == Header[t].part_count > 1

SentOnce ==
  \A st, su \in Stations : \A n \in 1 .. Len(Script[st]), m \in 1 .. Len(Script[su]) :
    Script[st][n] = Script[su][m] => st = su /\ n = m

FreshSeqIds ==
  \A t, u \in Transmissions :
    Multipart(t) /\ Multipart(u) /\ Header[t].seq_id = Header[u].seq_id => t = u

OwnSeqIds ==
  \A st, su \in Stations : \A t \in Scripted(st), u \in Scripted(su) :
    Multipart(t) /\ Multipart(u) /\ Header[t].seq_id = Header[u].seq_id => st = su

SeqIdsTellApart ==
  SentOnce /\ (FreshSeqIds \/ ("loss" \notin Faults /\ OwnSeqIds))

-----------------------------------------------------------------------------
Delivered(t) == \E n \in 1 .. Len(delivered) : delivered[n] = MessageOf(t)

Finished(t) ==
  \E st \in Stations : \E n \in 1 .. Len(Script[st]) :
    Script[st][n] = t /\ at[st].msg > n

(* Every message handed to the caller is one that a station transmitted,    *)
(* whole and unmixed, with its own flag, talker and fill bits.              *)
OnlyTransmittedMessages ==
  \A n \in 1 .. Len(delivered) :
    \E t \in Transmissions : delivered[n] = MessageOf(t)

(* A fault costs the message it touches and no other: a transmission that   *)
(* no fault touched has been delivered when its last sentence was received. *)
IntactMessagesDelivered ==
  \A t \in Transmissions : Finished(t) /\ t \notin damaged => Delivered(t)

(* A sequence stays in the buffer only while its message is being sent or   *)
(* because a fault has touched it: an undamaged message leaves nothing.     *)
(* It would if its first part came back after its last: that part opens a   *)
(* sequence, and this feed repeats a sentence only before the next one.     *)
OnlyDamagedMessagesLinger ==
  \A id \in DOMAIN sequences :
    \E t \in Underway \cup damaged : sequences[id].parts[1] = Fragment(t, 1)

(* In the end every transmission is delivered, or a fault has touched it:   *)
(* none waits in the assembler or is refused for ever.                      *)
EveryMessageAccountedFor ==
  <>(\A t \in Transmissions : Delivered(t) \/ t \in damaged)
=============================================================================
