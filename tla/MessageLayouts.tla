---------------------------- MODULE MessageLayouts ----------------------------
(***************************************************************************)
(* The bit layouts of the message classes (src/src/messages/msg*.cpp).      *)
(* Every class describes its layout twice: encode() is a sequence of writes *)
(* that follow one another, decode() is a set of reads at offsets written   *)
(* out as numbers.  Both are transcribed here, as the code has them: that   *)
(* they agree is what MessageCodec checks, not what it assumes.             *)
(***************************************************************************)
EXTENDS Naturals, Sequences

(* A write_uint, write_int, write_bool or write_text of encode().           *)
Uint(field, width) == [field |-> field, kind |-> "uint", width |-> width]
Sint(field, width)  == [field |-> field, kind |-> "int",  width |-> width]
Bool(field)        == [field |-> field, kind |-> "bool", width |-> 1]
Text(field, chars) == [field |-> field, kind |-> "text", width |-> 6 * chars]
Spare(width)       == Uint("spare", width)

(* A read of decode(): its offset, its width and the width of the member    *)
(* that the static_cast puts it in.                                         *)
UintAt(field, offset, width, member) ==
  [field |-> field, kind |-> "uint", offset |-> offset, width |-> width,
   member |-> member]
IntAt(field, offset, width, member) ==
  [field |-> field, kind |-> "int", offset |-> offset, width |-> width,
   member |-> member]
BoolAt(field, offset) ==
  [field |-> field, kind |-> "bool", offset |-> offset, width |-> 1, member |-> 1]
TextAt(field, offset, chars) ==
  [field |-> field, kind |-> "text", offset |-> offset, width |-> 6 * chars,
   member |-> 6 * chars]

(* The three fields that every encode() writes and every decode() reads     *)
(* first.  Below is what follows them; Writes and Reads put the two together.*)
HeaderWrites == <<Uint("type", 6), Uint("repeat_indicator", 2), Uint("mmsi", 30)>>
HeaderReads == {UintAt("type", 0, 6, 8), UintAt("repeat_indicator", 6, 2, 8),
                UintAt("mmsi", 8, 30, 32)}

-----------------------------------------------------------------------------
(* Types 1, 2 and 3: Class A position report.                               *)
Msg1_3Writes ==
  <<Uint("nav_status", 4), Sint("rot", 8), Uint("sog", 10),
    Bool("position_accuracy"), Sint("longitude", 28), Sint("latitude", 27),
    Uint("cog", 12), Uint("true_heading", 9), Uint("time_stamp", 6),
    Uint("manoeuvre_indicator", 2), Spare(3), Bool("raim"),
    Uint("radio_status", 19)>>

Msg1_3Reads ==
  {UintAt("nav_status", 38, 4, 8), IntAt("rot", 42, 8, 8),
   UintAt("sog", 50, 10, 16), BoolAt("position_accuracy", 60),
   IntAt("longitude", 61, 28, 32), IntAt("latitude", 89, 27, 32),
   UintAt("cog", 116, 12, 16), UintAt("true_heading", 128, 9, 16),
   UintAt("time_stamp", 137, 6, 8), UintAt("manoeuvre_indicator", 143, 2, 8),
   BoolAt("raim", 148), UintAt("radio_status", 149, 19, 32)}

(* Types 4 and 11: base station report, UTC and date response.              *)
Msg4_11Writes ==
  <<Uint("utc_year", 14), Uint("utc_month", 4), Uint("utc_day", 5),
    Uint("utc_hour", 5), Uint("utc_minute", 6), Uint("utc_second", 6),
    Bool("position_accuracy"), Sint("longitude", 28), Sint("latitude", 27),
    Uint("epfd", 4), Spare(10), Bool("raim"), Uint("radio_status", 19)>>

Msg4_11Reads ==
  {UintAt("utc_year", 38, 14, 16), UintAt("utc_month", 52, 4, 8),
   UintAt("utc_day", 56, 5, 8), UintAt("utc_hour", 61, 5, 8),
   UintAt("utc_minute", 66, 6, 8), UintAt("utc_second", 72, 6, 8),
   BoolAt("position_accuracy", 78), IntAt("longitude", 79, 28, 32),
   IntAt("latitude", 107, 27, 32), UintAt("epfd", 134, 4, 8),
   BoolAt("raim", 148), UintAt("radio_status", 149, 19, 32)}

(* Type 5: static and voyage related data.                                  *)
Msg5Writes ==
  <<Uint("ais_version", 2), Uint("imo_number", 30), Text("call_sign", 7),
    Text("vessel_name", 20), Uint("ship_type", 8), Uint("dim_to_bow", 9),
    Uint("dim_to_stern", 9), Uint("dim_to_port", 6),
    Uint("dim_to_starboard", 6), Uint("epfd", 4), Uint("eta_month", 4),
    Uint("eta_day", 5), Uint("eta_hour", 5), Uint("eta_minute", 6),
    Uint("draught", 8), Text("destination", 20), Bool("dte"), Spare(2)>>

Msg5Reads ==
  {UintAt("ais_version", 38, 2, 8), UintAt("imo_number", 40, 30, 32),
   TextAt("call_sign", 70, 7), TextAt("vessel_name", 112, 20),
   UintAt("ship_type", 232, 8, 8), UintAt("dim_to_bow", 240, 9, 16),
   UintAt("dim_to_stern", 249, 9, 16), UintAt("dim_to_port", 258, 6, 8),
   UintAt("dim_to_starboard", 264, 6, 8), UintAt("epfd", 270, 4, 8),
   UintAt("eta_month", 274, 4, 8), UintAt("eta_day", 278, 5, 8),
   UintAt("eta_hour", 283, 5, 8), UintAt("eta_minute", 288, 6, 8),
   UintAt("draught", 294, 8, 8), TextAt("destination", 302, 20),
   BoolAt("dte", 422)}

(* Type 9: search and rescue aircraft position report.                      *)
Msg9Writes ==
  <<Uint("altitude", 12), Uint("sog", 10), Bool("position_accuracy"),
    Sint("longitude", 28), Sint("latitude", 27), Uint("cog", 12),
    Uint("time_stamp", 6), Uint("regional_reserved", 6), Bool("dte"), Spare(5),
    Bool("assigned"), Bool("raim"), Uint("radio_status", 20)>>

Msg9Reads ==
  {UintAt("altitude", 38, 12, 16), UintAt("sog", 50, 10, 16),
   BoolAt("position_accuracy", 60), IntAt("longitude", 61, 28, 32),
   IntAt("latitude", 89, 27, 32), UintAt("cog", 116, 12, 16),
   UintAt("time_stamp", 128, 6, 8), UintAt("regional_reserved", 134, 6, 8),
   BoolAt("dte", 140), BoolAt("assigned", 146), BoolAt("raim", 147),
   UintAt("radio_status", 148, 20, 32)}

(* Type 10: UTC and date inquiry.                                           *)
(* Defect: the spare bits before the destination are not written.           *)
Msg10Writes_SpareOmitted == <<Uint("destination_mmsi", 30), Spare(2)>>

Msg10Writes == <<Spare(2), Uint("destination_mmsi", 30), Spare(2)>>

Msg10Reads == {UintAt("destination_mmsi", 40, 30, 32)}

-----------------------------------------------------------------------------
(* Type 18: Class B position report.                                        *)
Msg18Writes ==
  <<Spare(8), Uint("sog", 10), Bool("position_accuracy"),
    Sint("longitude", 28), Sint("latitude", 27), Uint("cog", 12),
    Uint("true_heading", 9), Uint("time_stamp", 6), Uint("regional_reserved", 2),
    Bool("cs_flag"), Bool("display_flag"), Bool("dsc_flag"), Bool("band_flag"),
    Bool("msg22_flag"), Bool("assigned"), Bool("raim"), Uint("radio_status", 20)>>

Msg18Reads ==
  {UintAt("sog", 46, 10, 16), BoolAt("position_accuracy", 56),
   IntAt("longitude", 57, 28, 32), IntAt("latitude", 85, 27, 32),
   UintAt("cog", 112, 12, 16), UintAt("true_heading", 124, 9, 16),
   UintAt("time_stamp", 133, 6, 8), UintAt("regional_reserved", 139, 2, 8),
   BoolAt("cs_flag", 141), BoolAt("display_flag", 142), BoolAt("dsc_flag", 143),
   BoolAt("band_flag", 144), BoolAt("msg22_flag", 145), BoolAt("assigned", 146),
   BoolAt("raim", 147), UintAt("radio_status", 148, 20, 32)}

(* Type 19: extended Class B position report.                               *)
Msg19Writes ==
  <<Spare(10), Uint("sog", 10), Bool("position_accuracy"),
    Sint("longitude", 28), Sint("latitude", 27), Uint("cog", 12),
    Uint("true_heading", 9), Uint("time_stamp", 6), Uint("regional_reserved", 4),
    Text("name", 20), Uint("ship_type", 8), Uint("dim_bow", 9),
    Uint("dim_stern", 9), Uint("dim_port", 6),
    Uint("dim_starboard", 6), Uint("epfd_type", 4), Bool("raim"),
    Bool("dte"), Bool("assigned"), Spare(2)>>

Msg19Reads ==
  {UintAt("sog", 48, 10, 16), BoolAt("position_accuracy", 58),
   IntAt("longitude", 59, 28, 32), IntAt("latitude", 87, 27, 32),
   UintAt("cog", 114, 12, 16), UintAt("true_heading", 126, 9, 16),
   UintAt("time_stamp", 135, 6, 8), UintAt("regional_reserved", 141, 4, 8),
   TextAt("name", 145, 20), UintAt("ship_type", 265, 8, 8),
   UintAt("dim_bow", 273, 9, 16), UintAt("dim_stern", 282, 9, 16),
   UintAt("dim_port", 291, 6, 8), UintAt("dim_starboard", 297, 6, 8),
   UintAt("epfd_type", 303, 4, 8), BoolAt("raim", 307), BoolAt("dte", 308),
   BoolAt("assigned", 309)}

(* Type 24: Class B static data, whose part_number chooses what follows it. *)
Msg24Writes(part) ==
  IF part = 0
  THEN <<Uint("part_number", 2), Text("vessel_name", 20), Spare(8)>>
  ELSE <<Uint("part_number", 2), Uint("ship_type", 8), Text("vendor_id", 7),
         Text("call_sign", 7), Uint("dim_to_bow", 9), Uint("dim_to_stern", 9),
         Uint("dim_to_port", 6), Uint("dim_to_starboard", 6),
         Uint("epfd", 4), Spare(2)>>

Msg24Reads(part) == {UintAt("part_number", 38, 2, 8)} \cup
  CASE part = 0 -> {TextAt("vessel_name", 40, 20)}
    [] part = 1 -> {UintAt("ship_type", 40, 8, 8), TextAt("vendor_id", 48, 7),
                    TextAt("call_sign", 90, 7), UintAt("dim_to_bow", 132, 9, 16),
                    UintAt("dim_to_stern", 141, 9, 16),
                    UintAt("dim_to_port", 150, 6, 8),
                    UintAt("dim_to_starboard", 156, 6, 8),
                    UintAt("epfd", 162, 4, 8)}
    [] OTHER -> {}

(* Type 27: long-range position report.                                     *)
Msg27Writes ==
  <<Bool("position_accuracy"), Bool("raim"), Uint("nav_status", 4),
    Sint("longitude", 18), Sint("latitude", 17), Uint("sog", 6),
    Uint("cog", 9), Bool("gnss_position_status"), Spare(1)>>

Msg27Reads ==
  {BoolAt("position_accuracy", 38), BoolAt("raim", 39),
   UintAt("nav_status", 40, 4, 8), IntAt("longitude", 44, 18, 32),
   IntAt("latitude", 62, 17, 32), UintAt("sog", 79, 6, 8),
   UintAt("cog", 85, 9, 16), BoolAt("gnss_position_status", 94)}

-----------------------------------------------------------------------------
(* The message classes by their type ids.                                   *)
Classes == {"1_3", "4_11", "5", "9", "10", "18", "19", "24", "27"}

Writes(class, part) == HeaderWrites \o
  CASE class = "1_3" -> Msg1_3Writes [] class = "4_11" -> Msg4_11Writes
    [] class = "5"   -> Msg5Writes   [] class = "9"    -> Msg9Writes
    [] class = "10"  -> Msg10Writes  [] class = "18"   -> Msg18Writes
    [] class = "19"  -> Msg19Writes  [] class = "24"   -> Msg24Writes(part)
    [] class = "27"  -> Msg27Writes

Reads(class, part) == HeaderReads \cup
  CASE class = "1_3" -> Msg1_3Reads [] class = "4_11" -> Msg4_11Reads
    [] class = "5"   -> Msg5Reads   [] class = "9"    -> Msg9Reads
    [] class = "10"  -> Msg10Reads  [] class = "18"   -> Msg18Reads
    [] class = "19"  -> Msg19Reads  [] class = "24"   -> Msg24Reads(part)
    [] class = "27"  -> Msg27Reads
=============================================================================
