CONSTANTS
  Types <- MCTypes
  StreamTypes <- MCStreamTypes
  Payloads <- MCPayloads
  Usages = {0, 1, 2}
  Sizes = {1, 3}
  Tidy = TRUE
  Buffer = 2
  MaxTail = 1
  Limit = 5
  MaxLines = 6

SPECIFICATION Spec
CHECK_DEADLOCK FALSE

INVARIANTS
  EventsFaithful
  UsageIsLast
  CaptureHonest
  CompleteMeansAll
