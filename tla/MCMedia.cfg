CONSTANTS
  VoiceLength = 3
  MaxVoices = 2
  Types = {"FakeAudio", "External"}
  SampleRate = 200
  FakeChannels = 2
  FakeSize = 6
  MaxLate = 2
  HeaderLengths = {1, 2}
  Size = 2
  Start = 3
  MaxFrames = 3
  FpsNum = 4
  FpsDen = 2
  Second = 3
  VideoTypes = {"Drawn", "Y4MFile"}
  MaxStep = 6
  MaxTime = 20
SPECIFICATION MediaSpec
INVARIANTS
  UsesLiveBuffer
  ReadsInData
  HeardInOrder
  CaptureTypeOK
  ShowsPictureOfTime
  WholeFileIsPlayed
PROPERTIES
  AudioFlows
  CallsReturn
  VideoFlows
\* The capturer may be gone.
CHECK_DEADLOCK FALSE
