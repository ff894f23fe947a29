CONSTANTS
  kMaxSentenceParts = 3
  SeqIds = {0, 1, 2, 3}
  NoSeqId = NoSeqId
  Talkers = {"AI", "BS"}
  Payloads <- MCPayloads
  NoPayload = NoPayload
  FillBits = {0, 2}
  Transmissions <- MCTransmissions
  Header <- FreshHeader
  Stations <- MCStations
  Script <- FreshScript
  Faults = {"loss", "repeat"}
  MaxRepeats = 1
SPECIFICATION FeedSpec
INVARIANT IntactMessagesDelivered
INVARIANT OnlyDamagedMessagesLinger
PROPERTY EveryMessageAccountedFor
CHECK_DEADLOCK FALSE
