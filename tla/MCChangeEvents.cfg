CONSTANTS
  w1 = w1
  w2 = w2
  c1 = c1
  c2 = c2
  Writers <- MCWriters
  Clients <- MCClients
  Slow <- MCSlow
  MaxChanges = 2
  NoOne = NoOne

SPECIFICATION Spec

INVARIANTS
  NoSendOnClosedChannel
  NoChangeLost

PROPERTIES
  ImplementsFeed
  NotifyReturns
  SubscriptionReleased
