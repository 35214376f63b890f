CONSTANTS
  Givens = {{"url", "channel"}, {"url", "channel", "name", "metadata"}, {"url"}, {"channel"}}
  MaxEntries = 2
  MaxNum = 2
  Ids = {"one"}
  PoolSize = 3
  LeastSize = 0
  MostSize = 4
  MessageSizeMin = 2
  MessageSizeMax = 7
  GivenSizes = {1, 2, 3, 7, 8}
  MaxChannels = 2
  ChunkSizes = {0, 2, 4}
  MaxChunks = 3
SPECIFICATION Spec
INVARIANTS
  EachInstanceItsOwn
  RpcAnswers
  MessageIsCut
  WavIsRead
\* Each reader comes to an end.
CHECK_DEADLOCK FALSE
