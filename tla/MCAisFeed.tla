------------------------------- MODULE MCAisFeed -------------------------------
(***************************************************************************)
(* Two identifiers, and on the first of them three transmissions that feed()*)
(* can only tell apart by their count or by their type; a single-part       *)
(* message; talkers that differ.                                            *)
(***************************************************************************)
EXTENDS AisFeed

MCTransmissions == {"report", "static", "longer", "own", "other"}

header(talker, type, count, id, fill) ==
  [talker |-> talker, sentence_type |-> type, part_count |-> count,
   seq_id |-> id, fill_bits |-> fill]

MCHeader ==
  [report |-> header("AI", "VDM", 1, 0, 2),
   static |-> header("AI", "VDM", 2, 0, 2),
   longer |-> header("BS", "VDM", 3, 0, 4),
   own    |-> header("AI", "VDO", 2, 0, 2),
   other  |-> header("BS", "VDM", 2, 1, 0)]

MCPayloads ==
  {NoPayload} \cup [of : MCTransmissions, part : 1 .. 3]
=============================================================================
