CONSTANTS
  kMaxSentenceParts = 3
  SeqIds = {0, 1}
  NoSeqId = NoSeqId
  Talkers = {"AI", "BS"}
  Payloads <- MCPayloads
  NoPayload = NoPayload
  FillBits = {0, 2}
  Transmissions <- MCTransmissions
  Header <- ReuseHeader
  Stations <- MCStations
  Script <- ReuseScript
  Faults = {"outage", "timeout", "repeat"}
  MaxRepeats = 1
SPECIFICATION FeedSpec
INVARIANT OnlyTransmittedMessages
INVARIANT IntactMessagesDelivered
CHECK_DEADLOCK FALSE
