\* Two slots that cannot both hold a large body.
CONSTANTS
  N = 2
  Budget = 3
  MaxBody = 2
  Lengths <- MCLengths
  NoOne = NoOne

SPECIFICATION Spec

INVARIANTS
  BudgetConserved
  NoLostWakeup

PROPERTIES
  ReserveReturns
  ImplementsBudget
