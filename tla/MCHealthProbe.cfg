CONSTANTS
  st = st
  team = team
  ui = ui
  m1 = m1
  m2 = m2
  r1 = r1
  t1 = t1
  Builtins <- MCBuiltins
  Customs <- MCCustoms
  Reserved <- MCReserved
  Settings <- MCSettings
  Added <- MCAdded
  Initial <- MCInitial
  ProxyURLs = {"noproxy", "proxy"}
  DefaultProxy = "noproxy"
  NoBase = "none"
  Direct = "direct"
  Managers <- MCManagers
  Requests <- MCRequests
  MaxChanges = 2
  MaxServed = 1
  Ticker = Ticker
  Testers <- MCTesters
  Nothing = Nothing

SPECIFICATION HealthSpec

INVARIANTS
  AnsweredAsConfigured
  SentAsConfigured

PROPERTY
  HealthSettles
