CONSTANTS
  r1 = r1
  r2 = r2
  Requests <- MCRequests
  Budget = 3
  MaxBody = 2
  RewriteFactor = 1
  KeyLength = 0
  CaptureLimit = 1
  Lengths <- MCLengths
  ChunkedSizes <- MCChunkedSizes
  UpstreamStatuses <- MCUpstreamStatuses

SPECIFICATION RequestSpec

INVARIANTS
  RowTellsOutcome
  ChargeCoversBody
PROPERTY
  EveryRequestAnswered
