CONSTANTS
  Clients = {0, 1}
  Sessions <- TwoEach
  observer <- MadeFor
  NoSession = NoSession
  Callbacks = {exitCallback}
  ExitCallback = exitCallback
  NoCallback = NoCallback
  MaxRetry = 0
  Configs <- OnceOnly
  Lossy = {FALSE}
  MaxKeys = 0
SPECIFICATION PlayerSpec
INVARIANTS NoUncaughtException
CHECK_DEADLOCK FALSE
