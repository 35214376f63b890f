CONSTANTS
  Clients = {c1}
  Sessions <- TwoEach
  observer <- MadeFor
  NoSession = NoSession
  Callbacks = {exit}
  NoCallback = NoCallback
  MaxRetry = 1
SPECIFICATION Spec
PROPERTIES RetryReplacesNothing
CHECK_DEADLOCK FALSE
