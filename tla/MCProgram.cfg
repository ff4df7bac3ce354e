\* The program stops for good in the end: no deadlock check.
CONSTANTS
  r1 = r1
  r2 = r2
  d1 = d1
  d2 = d2
  p1 = p1
  Requests <- MCRequests
  Deletions <- MCDeletions
  Past <- MCPast

SPECIFICATION Spec

CHECK_DEADLOCK FALSE

INVARIANT
  NoSpaceForgotten

PROPERTIES
  SignalEndsProgram
  SpaceComesBack
