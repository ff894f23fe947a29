CONSTANTS
  kMaxSentenceParts = 3
  SeqIds = {0, 1}
  NoSeqId = NoSeqId
  Talkers = {"AI", "BS"}
  Payloads <- MCPayloads
  NoPayload = NoPayload
  FillBits = {0, 2, 4}
  Transmissions <- MCTransmissions
  Header <- MCHeader
SPECIFICATION FeedSpec
INVARIANT OnlyTransmittedMessages
INVARIANT SequencesAreUnmixed
PROPERTY NoSentenceServesTwice
