CONSTANTS
  kMaxSentenceParts = 3
  SeqIds = {id0, id1}
  NoSeqId = NoSeqId
  Talkers = {AI, BS}
  Payloads = {NoPayload, p}
  NoPayload = NoPayload
  FillBits = {0}
SPECIFICATION Spec
SYMMETRY Symmetry
INVARIANT TypeOK
INVARIANT SequencesInProgress
PROPERTY ImplementsReassembly
PROPERTY CallsMeetReassembly
