SPECIFICATION FairSpec
CONSTANTS
  PageMsgs = {1, 2, 3}
  ApiMsgs = {4}
  QueueCap = 1
  MaxHandlers = 2
  MaxTroubles = 1
INVARIANTS AnsweredStored PageSerializes
PROPERTY PageUnblocks
CHECK_DEADLOCK FALSE
