CONSTANTS
  kMaxSentenceParts = 5
  SeqIds = {0, 1, 2, 3, 4, 5, 6, 7, 8, 9}
  NoSeqId = NoSeqId
  Talkers <- kValidTalkers
  Payloads <- MCPayloads
  NoPayload <- MCNoPayload
  FillBits = {0, 1, 2, 3, 4, 5}
  Code <- MCCode
  Numerals <- MCNumerals
  WrittenLines <- MCWrittenLines
  ExposedLines <- MCTransmittedLines
  MaxFaults = 1
SPECIFICATION Spec
INVARIANT TypeOK
 
INVARIANT DamageIsDetected
CHECK_DEADLOCK FALSE
