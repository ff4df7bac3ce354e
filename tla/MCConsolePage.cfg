\* With the changes and the user's loads at an end and the table up to date
\* nothing is left to do: no deadlock check.
CONSTANTS
  c1 = c1
  Clients <- MCClients
  Slow <- MCSlow
  MaxChanges = 2
  MaxLoads = 2
  MaxExtra = 2
  MaxCloses = 1

SPECIFICATION PageSpec

CHECK_DEADLOCK FALSE

PROPERTY
  PageCatchesUp
