CONSTANTS
  Ids = {1, 2, 3}
  BatchSize = 2
  HeaderColumns <- MCHeaderColumns
  CapturedColumns <- MCCapturedColumns
  AddedColumns <- MCAddedColumns
  Codes = {0, 200, 502}
  Texts <- MCTexts
  Credentials = {"secret"}
  Redacted <- MCRedacted
  Shrinks = {"long", "zipped"}
  Magic = {"zipped"}
  Archive = "archive"
  InitialDBs <- MCInitialDBs
  NewRows <- MCNewRows

SPECIFICATION Spec

INVARIANTS
  MarkedIsMigrated

PROPERTIES
  Transparent
  StartEnds
