CONSTANTS
  Clients = {0, 1}
  Sessions <- TwoEach
  observer <- MadeFor
  NoSession = NoSession
  Callbacks = {exitCallback}
  ExitCallback = exitCallback
  NoCallback = NoCallback
  MaxRetry = 1
  Configs <- Keyless
  Lossy = {TRUE, FALSE}
  MaxKeys = 0
SPECIFICATION PlayerSpec
INVARIANTS
  PlayerTypeOK
  ExitedIsOffline
  StopsWithoutSessions
  ThrowsOnlyAfterLoss
PROPERTIES
  Ends
  ComesBack
\* The instance stops when every client has exited, or on an uncaught exception.
CHECK_DEADLOCK FALSE
