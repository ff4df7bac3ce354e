CONSTANTS
  h1 = h1
  h2 = h2
  Builtins <- MCBuiltins
  Customs <- MCCustoms
  Legacy <- MCLegacy
  Keys <- MCKeys
  OwnKey <- MCOwnKey
  OwnBase <- MCOwnBase
  OwnAgent = "v1"
  ProxyURLs <- MCProxyURLs
  Ops <- MCOps
  NoFile = NoFile
  NoOne = NoOne
  Nothing = Nothing
  Handlers <- MCHandlers
  InitialFiles <- MCFiles

SYMMETRY MCSymmetry

SPECIFICATION InstallSpec

INVARIANTS
  FileLoadable
  SavedIsRunning
  InstalledUnlessRaced

PROPERTIES
  KeysStayDistinct
  ImplementsRegister
