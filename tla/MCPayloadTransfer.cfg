CONSTANTS
  kMaxSentenceParts = 5
  SeqIds = {0, 1}
  NoSeqId = NoSeqId
  Talkers = {"AB", "AI"}
  Payloads <- MCPayloads
  NoPayload <- MCNoPayload
  FillBits = {0, 1, 2, 3, 4, 5}
  Stations <- MCStations
  Contents <- MCContents
  MaxParts = 3
  Talker <- MCTalker
  SeqIdOf <- MCSeqIdOf
  IntermediateFills = {0, 5}
SPECIFICATION TransferSpec
INVARIANT ExactBitsArrive
CHECK_DEADLOCK FALSE
