CONSTANTS
  None = None
  MaxQuery = 3
  Chunk = 2
  Service = s
  Completers = {c1}
  Handlers = {h1}
  PoolMayFail = TRUE
  MaxReports = 3
  MaxConnects = 3
SPECIFICATION FairSpec
CHECK_DEADLOCK FALSE
INVARIANTS ListsMatch OneRequest
PROPERTIES CallsWhatIsConnected EventsAreDispatched
