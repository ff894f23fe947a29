SPECIFICATION Spec
CONSTANTS
  TextShapes <- MCTextShapes
  OtherTypes <- MCOtherTypes
  Changes <- MCChanges
INVARIANTS
  TypeOK
  EncodeRestoresPayload
  NoReadOutOfRange
PROPERTIES
  RoundTrip
  DispatchMatchesType
