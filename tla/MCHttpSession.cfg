CONSTANTS
  Sessions = {s1, s2}
  Urls = {"http", "https", "other", "none"}
  Targets = {"health", "rpc", "ui"}
  NoRequest = NoRequest
  NoResponse = NoResponse
SPECIFICATION Spec
INVARIANTS
  OneHandler
  AnswersTheRequest
  StepsHaveDeadlines
PROPERTIES
  NobodyReadsForEver
  ExchangeSpec
