CONSTANTS
  Words <- MCWords
  Widths = {0, 1, 7, 64, 65}
  Texts <- MCTexts
  CharCounts = {0, 2}
  Sources <- MCSources
  MaxFields = 3
SPECIFICATION Spec
INVARIANT TypeOK
INVARIANT PaddedWithZeros
INVARIANT FieldsReadBack
CHECK_DEADLOCK FALSE
