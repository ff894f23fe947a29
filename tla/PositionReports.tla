---------------------------- MODULE PositionReports ----------------------------
(***************************************************************************)
(* Where a vessel is, as its reports tell.  A vessel may report in any of   *)
(* the classes that carry a position, and the classes have units, widths    *)
(* and "not available" values of their own; a program that tracks it asks   *)
(* longitude(), latitude() and altitude_m() of the message it got last.     *)
(* Here the fields are integers, and every member is computed as decode()   *)
(* computes it from the layout of its class.                                *)
(***************************************************************************)
EXTENDS MessageLayouts, Integers

CONSTANTS
  Longitudes, Latitudes,  \* of vessels, in tenths of a degree
  Altitudes,              \* in metres
  Unavailable,            \* what is not known
  RawNumbers              \* what faulty transmitters put in a field

ASSUME PositionAssumption ==
  /\ Longitudes \subseteq -1800 .. 1800
  /\ Latitudes \subseteq -900 .. 900
  /\ Altitudes \subseteq 0 .. 4094
  /\ Unavailable \notin Int
  /\ RawNumbers \subseteq Int

VARIABLES
  vessel,   \* where the vessel is, as far as it knows
  message,  \* the last message decoded
  sent      \* where the vessel was when it sent that message

reportVars == <<vessel, message, sent>>

Nowhere == [longitude |-> Unavailable, latitude |-> Unavailable, altitude |-> Unavailable]
NoMessage == [class |-> "none"]
Garbage == [kind |-> "garbage"]

Positions ==
  [longitude : Longitudes \cup {Unavailable}, latitude : Latitudes \cup {Unavailable},
   altitude : Altitudes \cup {Unavailable}]

PositionClasses == {"1_3", "4_11", "9", "18", "19", "27"}
IsLongRange(class) == class = "27"

-----------------------------------------------------------------------------
(* The accessors of the classes.  A coordinate is a quotient of integers.   *)
kLongitudeUnavailable == 108600000   \* 0x6791AC0
kLatitudeUnavailable == 54600000     \* 0x3412140
kMsg27LongitudeUnavailable == 1810
kMsg27LatitudeUnavailable == 910
kAltitudeUnavailable == 4095

Degrees(raw, unit) == [kind |-> "degrees", raw |-> raw, unit |-> unit]
Nullopt == [kind |-> "nullopt"]

Coordinate(raw, unavailable, unit) ==
  IF raw = unavailable THEN Nullopt ELSE Degrees(raw, unit)

longitude(m) ==
  IF IsLongRange(m.class)
  THEN Coordinate(m.longitude, kMsg27LongitudeUnavailable, 10)
  ELSE Coordinate(m.longitude, kLongitudeUnavailable, 600000)

(* Defect: the latitude is compared with the longitude's value.             *)
latitude_OtherSentinel(m) ==
  IF IsLongRange(m.class)
  THEN Coordinate(m.latitude, kMsg27LatitudeUnavailable, 10)
  ELSE Coordinate(m.latitude, kLongitudeUnavailable, 600000)

latitude(m) ==
  IF IsLongRange(m.class)
  THEN Coordinate(m.latitude, kMsg27LatitudeUnavailable, 10)
  ELSE Coordinate(m.latitude, kLatitudeUnavailable, 600000)

altitude_m(m) == IF m.altitude = kAltitudeUnavailable THEN Unavailable ELSE m.altitude

-----------------------------------------------------------------------------
(* The bits of a field as read_uint() or read_int() return them; the members*)
(* are wide enough for either.                                              *)
Field(class, name) == CHOOSE r \in Reads(class, 0) : r.field = name

(* Defect: the bits are taken for an unsigned number.                       *)
ReadNumber_Unsigned(r, n) == n % 2^r.width

ReadNumber(r, n) ==
  LET u == n % 2^r.width
  IN  IF r.kind = "int" /\ u >= 2^(r.width - 1) THEN u - 2^r.width ELSE u

(* decode() of a class, of which the three members are kept.                *)
Decode(class, raw) ==
  [class     |-> class,
   longitude |-> ReadNumber(Field(class, "longitude"), raw.longitude),
   latitude  |-> ReadNumber(Field(class, "latitude"), raw.latitude),
   altitude  |-> IF class = "9" THEN ReadNumber(Field(class, "altitude"), raw.altitude)
                                ELSE kAltitudeUnavailable]

(* What a transmitter puts in the fields: tenths of a degree in a long-range*)
(* report, 1/10 000 minutes in the others, and for what it does not know    *)
(* 181 degrees, 91 degrees and 4095 metres.                                 *)
InUnits(class, tenths) == IF IsLongRange(class) THEN tenths ELSE 60000 * tenths

Known(value, otherwise) == IF value = Unavailable THEN otherwise ELSE value

Raw(class, place) ==
  [longitude |-> InUnits(class, Known(place.longitude, 1810)),
   latitude  |-> InUnits(class, Known(place.latitude, 910)),
   altitude  |-> Known(place.altitude, 4095)]

-----------------------------------------------------------------------------
ReportInit ==
  /\ vessel = Nowhere
  /\ message = NoMessage
  /\ sent = Garbage

(* The vessel gets a position, or loses it.                                 *)
Move ==
  /\ vessel' \in Positions
  /\ UNCHANGED <<message, sent>>

Report(class) ==
  /\ message' = Decode(class, Raw(class, vessel))
  /\ sent' = vessel
  /\ UNCHANGED vessel

(* A faulty transmitter.                                                    *)
Misreport(class) ==
  /\ \E n \in RawNumbers :
       message' = Decode(class, [longitude |-> n, latitude |-> n, altitude |-> n])
  /\ sent' = Garbage
  /\ UNCHANGED vessel

ReportNext ==
  \/ Move
  \/ \E class \in PositionClasses : Report(class) \/ Misreport(class)

ReportSpec == ReportInit /\ [][ReportNext]_reportVars

-----------------------------------------------------------------------------
(* Type invariant: a decoded coordinate is one that its field can hold.     *)
ReportTypeOK ==
  /\ vessel \in Positions
  /\ message # NoMessage =>
       /\ message.class \in PositionClasses
       /\ \A name \in {"longitude", "latitude"} :
            LET bound == 2^(Field(message.class, name).width - 1)
            IN  message[name] \in -bound .. bound - 1
       /\ message.altitude \in 0 .. 4095
  /\ sent \in Positions \cup {Garbage}

(* In tenths of a degree an answer is `tenths`, or that nothing is known.   *)
Means(answer, tenths) ==
  IF tenths = Unavailable THEN answer = Nullopt
  ELSE answer.kind = "degrees" /\ 10 * answer.raw = tenths * answer.unit

(* Whatever class a vessel chooses for its report, the accessors locate it  *)
(* where it was when it sent it, at the poles, the date line and the equator*)
(* too, and never where it did not know its position.  So the fields hold   *)
(* every position, and no position is one of the "not available" values.    *)
LocatedWhereSent ==
  sent # Garbage =>
    /\ Means(longitude(message), sent.longitude)
    /\ Means(latitude(message), sent.latitude)
    /\ message.class = "9" => altitude_m(message) = sent.altitude
=============================================================================
