CONSTANTS
  Clients = {c1, c2}
  Sessions <- TwoEach
  observer <- MadeFor
  NoSession = NoSession
  Callbacks = {exit}
  NoCallback = NoCallback
  MaxRetry = 2
SPECIFICATION Spec
INVARIANTS
  OneSessionEach
  ClosingExact
  RetryArmedOnlyOffline
  ConnectedHasFullBudget
PROPERTIES
  LinkSpec
  LostSessionsRecover
\* The process may end on an uncaught exception.
CHECK_DEADLOCK FALSE
