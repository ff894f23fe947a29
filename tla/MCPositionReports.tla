--------------------------- MODULE MCPositionReports ---------------------------
(***************************************************************************)
(* The positions at which a field could be too narrow or a value stand for  *)
(* two things, and the numbers at both ends of the fields.                  *)
(***************************************************************************)
EXTENDS PositionReports

MCLongitudes == {-1800, -1, 0, 910, 1800}
MCLatitudes == {-900, -1, 0, 900}
MCRawNumbers == {0, 2^16, 2^17, 2^26, 2^27 - 1, 2^27, 2^28 - 1}
=============================================================================
