----------------------------- MODULE MCStationFeed -----------------------------
(***************************************************************************)
(* The scripts of the feeds that are checked.  Two stations, one of them    *)
(* the own vessel (VDO), whose seq_ids never meet.                          *)
(***************************************************************************)
EXTENDS StationFeed

MCStations == {"shore", "own"}

header(talker, type, count, id, fill) ==
  [talker |-> talker, sentence_type |-> type, part_count |-> count,
   seq_id |-> id, fill_bits |-> fill]

(* Every multi-part message has a seq_id to itself.                         *)
FreshScript == [shore |-> <<"a", "b", "c">>, own |-> <<"d", "e">>]
FreshHeader ==
  [a |-> header("AI", "VDM", 2, 0, 2), b |-> header("BS", "VDM", 1, 0, 0),
   c |-> header("AI", "VDM", 3, 1, 0), d |-> header("AI", "VDO", 2, 2, 2),
   e |-> header("AI", "VDO", 2, 3, 0)]

(* Each station uses one seq_id over and over, also with another count.     *)
ReuseScript == [shore |-> <<"a", "b", "c">>, own |-> <<"d", "e">>]
ReuseHeader ==
  [a |-> header("AI", "VDM", 2, 0, 2), b |-> header("AI", "VDM", 2, 0, 2),
   c |-> header("BS", "VDM", 3, 0, 0), d |-> header("AI", "VDO", 2, 1, 2),
   e |-> header("AI", "VDO", 2, 1, 0)]

(* The theorems about the feed cover every run but the one that shows why   *)
(* they need their hypothesis.                                              *)
ASSUME Covered == SeqIdsTellApart \/ (Header = ReuseHeader /\ "loss" \in Faults)

MCTransmissions == {"a", "b", "c", "d", "e"}
MCPayloads == {NoPayload} \cup [of : MCTransmissions, part : 1 .. 3]
=============================================================================
