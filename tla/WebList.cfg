SPECIFICATION FairSpec
CONSTANTS
  t1 = t1
  t2 = t2
  c1 = c1
  NoThing = NoThing
  NoConn = NoConn
  Things <- TwoThings
  Opened = {}
  Managed = {t1}
  Conns = {c1}
  Typed <- Selected
  Logins = {"right", "wrong"}
  Queries = {"all", "none"}
  Apis = {}
  MaxTokens = 0
  MaxCalls = 2
INVARIANT LoggedOutShowsLogin
INVARIANT BusyHasCause
PROPERTY SessionLasts
PROPERTY OverlaysEnd
CHECK_DEADLOCK FALSE
