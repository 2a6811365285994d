SPECIFICATION Spec
CONSTANTS
  c1 = c1
  c2 = c2
  Conns = {c1}
  Topics = {t1, t2}
  MaxClients = 2
  RetryLimit = 1
  NoConn = NoConn
  Stored <- StoredOne
  OfThing = {c1}
  Suggested = {t1}
  MaxTokens = 1
  MaxEdits = 1
  MaxPending = 1
INVARIANT TypeOK
INVARIANT KeepListed
INVARIANT StorageFollows
INVARIANT ShownAreHeld
PROPERTY RemovedStaysRemoved
PROPERTY NoInheritedSubs
CHECK_DEADLOCK FALSE
