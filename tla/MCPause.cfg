CONSTANTS
  Clients = {0}
  Sessions <- TwoEach
  observer <- MadeFor
  NoSession = NoSession
  Callbacks = {exitCallback}
  ExitCallback = exitCallback
  NoCallback = NoCallback
  MaxRetry = 0
  Configs <- Keyed
  Lossy = {FALSE}
  MaxKeys = 1
SPECIFICATION PlayerSpec
PROPERTIES PauseSilences
CHECK_DEADLOCK FALSE
