SPECIFICATION FairSpec
CONSTANTS
  c1 = c1
  c2 = c2
  Conns = {c1, c2}
  Topics = {}
  MaxClients = 2
  RetryLimit = 2
  NoConn = NoConn
  Stored <- StoredOne
  OfThing = {c1}
  Suggested = {}
  MaxTokens = 0
  MaxEdits = 0
  MaxPending = 0
INVARIANT ConnectingHasCause
PROPERTY KeepsPromises
PROPERTY AttemptsEnd
PROPERTY OverlayLifts
CHECK_DEADLOCK FALSE
