SPECIFICATION Spec
CONSTANTS
  TextShapes <- MCTextShapes
  OtherTypes <- MCOtherTypes
  Changes <- MCChanges
INVARIANT ShortPayloadsRefused
