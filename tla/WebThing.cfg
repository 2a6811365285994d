SPECIFICATION Spec
CONSTANTS
  t1 = t1
  t2 = t2
  c1 = c1
  NoThing = NoThing
  NoConn = NoConn
  Things <- TwoThings
  Opened = {t1, t2}
  Managed = {}
  Conns = {c1}
  Typed <- SelectedOrTyped
  Logins = {"right"}
  Queries = {"all"}
  Apis = {"tags"}
  MaxTokens = 1
  MaxCalls = 2
CONSTRAINT QueryOrConnect
INVARIANT TypeOK
INVARIANT BusyHasCause
INVARIANT ReportsToItsThing
CHECK_DEADLOCK FALSE
