CONSTANTS
  Longitudes <- MCLongitudes
  Latitudes <- MCLatitudes
  Altitudes = {0, 4094}
  Unavailable = Unavailable
  RawNumbers <- MCRawNumbers
SPECIFICATION ReportSpec
INVARIANT ReportTypeOK
INVARIANT LocatedWhereSent
