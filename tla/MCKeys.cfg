CONSTANTS
  Clients = {0}
  Sessions <- TwoEach
  observer <- MadeFor
  NoSession = NoSession
  Callbacks = {exitCallback}
  ExitCallback = exitCallback
  NoCallback = NoCallback
  MaxRetry = 0
  Configs <- Keyed
  Lossy = {TRUE}
  MaxKeys = 2
SPECIFICATION PlayerSpec
INVARIANTS
  NeverLost
  OneContinuation
PROPERTIES
  PauseTakesHold
CHECK_DEADLOCK FALSE
