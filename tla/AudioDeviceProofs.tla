-------------------------- MODULE AudioDeviceProofs --------------------------
(***************************************************************************)
(* The audio thread never finds its buffer gone, the device keeps its      *)
(* types, for every rate, size and number of channels, every length of a   *)
(* voice and every order of calls; where the data is whole samples it is   *)
(* not left, and where the rate is too, what is heard is in order.         *)
(***************************************************************************)
EXTENDS AudioDevice, SequenceTheorems, TLAPS

\* While there is a thread, the device counts as recording, which keeps Terminate away,
\* and who waits for a thread waits for one that is there.
ThreadRecords ==
  /\ thread # "none" => recording /\ deviceBuffer
  /\ caller # "none" => thread # "none"

LEMMA InitThreadRecords == Init => ThreadRecords
BY DEF Init, ThreadRecords

\* The steps of WebRTC's thread.
LEMMA CallsKeep ==
  ASSUME ThreadRecords,
         InitDevice \/ InitRecording \/ StartRecording \/ StopRecording \/ Joined \/ Terminate
  PROVE  ThreadRecords'
<1>1. CASE InitDevice
  BY <1>1 DEF InitDevice, threadVars, ThreadRecords
<1>2. CASE InitRecording
  BY <1>2 DEF InitRecording, threadVars, ThreadRecords
<1>3. CASE StartRecording
  <2>1. CASE TellsToStop("StartRecording") /\ UNCHANGED recording
    BY <1>3, <2>1 DEF StartRecording, TellsToStop, ThreadRecords
  <2>2. CASE NewThread /\ recording' = TRUE /\ UNCHANGED <<caller, threadStopped>>
    BY <1>3, <2>2 DEF StartRecording, NewThread, ThreadRecords
  <2> QED BY <1>3, <2>1, <2>2 DEF StartRecording
<1>4. CASE StopRecording
  BY <1>4 DEF StopRecording, TellsToStop, ThreadRecords
<1>5. CASE Joined
  <2>1. CASE caller = "StartRecording"
    BY <1>5, <2>1 DEF Joined, AfterJoin, NewThread, ThreadRecords
  <2>2. CASE caller # "StartRecording"
    BY <1>5, <2>2 DEF Joined, AfterJoin, ThreadRecords
  <2> QED BY <2>1, <2>2
<1>6. CASE Terminate
  <2>1. thread = "none"
    BY <1>6 DEF Terminate, ThreadRecords
  <2> QED BY <1>6, <2>1 DEF Terminate, threadVars, ThreadRecords
<1> QED BY <1>1, <1>2, <1>3, <1>4, <1>5, <1>6

\* The audio thread calls nothing, and Plays is not its own.
LEMMA ThreadKeeps ==
  ASSUME ThreadRecords, Wakes \/ Fills \/ Renders \/ Delivers \/ EndsTurn \/ Tests \/ Plays
  PROVE  ThreadRecords'
<1>1. CASE Plays
  BY <1>1 DEF Plays, deviceVars, threadVars, ThreadRecords
<1>2. CASE Wakes \/ Fills \/ Renders \/ Delivers \/ EndsTurn \/ Tests
  <2>1. thread # "none"
    BY <1>2 DEF Wakes, Fills, Renders, Delivers, Delivered, EndsTurn, Tests
  <2>2. UNCHANGED deviceVars
    BY <1>2 DEF Wakes, Fills, Renders, Delivers, Delivered, EndsTurn, Tests
  <2>3. thread' # "none"
    BY <1>2 DEF Wakes, Fills, Renders, Delivers, Delivered, EndsTurn, Tests
  <2> QED BY <2>1, <2>2, <2>3 DEF deviceVars, ThreadRecords
<1> QED BY <1>1, <1>2

LEMMA NextThreadRecords == ThreadRecords /\ [Next]_vars => ThreadRecords'
<1> SUFFICES ASSUME ThreadRecords, [Next]_vars PROVE ThreadRecords'
  OBVIOUS
<1>1. CASE UNCHANGED vars
  BY <1>1 DEF vars, deviceVars, threadVars, ThreadRecords
<1>2. CASE Next
  BY <1>2, CallsKeep, ThreadKeeps DEF Next
<1> QED BY <1>1, <1>2

\* A thread that delivers has a buffer: Terminate() destroys it only after the join
\* (zakuro_audio_device_module.h:92-99, zakuro_audio_device_module.cpp:99-114, 122-128).
THEOREM BufferOutlivesThread == Spec => []UsesLiveBuffer
<1>1. ThreadRecords => UsesLiveBuffer
  BY DEF ThreadRecords, UsesLiveBuffer
<1> QED
  BY <1>1, InitThreadRecords, NextThreadRecords, PTL DEF Spec, Safety

-----------------------------------------------------------------------------
(* Sizes.                                                                   *)

\* n values are whole samples of all channels.
Whole(n) == \E m \in Nat : n = m * Channels

\* There is a channel, and a size of a block.
LEMMA ChannelsPositive == type \in Types => Channels \in Nat \ {0}
BY AudioAssumption DEF Channels

LEMMA BlockSize == type \in Types => BufSize \in Nat
<1> SUFFICES ASSUME type \in Types PROVE BufSize \in Nat
  OBVIOUS
<1>1. SampleRate \in Nat /\ Channels \in Nat
  BY AudioAssumption, ChannelsPositive
<1> DEFINE c == Channels
<1> HIDE DEF c
<1>2. SampleRate * c \in Nat
  BY <1>1, Z3 DEF c
<1>3. (SampleRate * c * 10) \div 1000 \in Nat
  <2> DEFINE p == SampleRate * c
  <2>1. p \in Nat
    BY <1>2
  <2> HIDE DEF p
  <2>2. (p * 10) \div 1000 \in Nat
    BY <2>1
  <2> QED BY <2>2 DEF p
<1> QED BY <1>3 DEF BufSize, c

\* Between two different numbers of samples there is a whole one.
LEMMA WholeSteps ==
  ASSUME NEW c \in Nat \ {0}, NEW m \in Nat, NEW n \in Nat, m * c < n * c
  PROVE  m * c + c <= n * c
<1>1. m < n
  <2>1. ASSUME n <= m PROVE FALSE
    <3>1. m - n \in Nat
      BY <2>1
    <3>2. (m - n) * c >= 0
      BY <3>1, Z3
    <3>3. (m - n) * c = m * c - n * c
      BY Z3
    <3>4. m * c \in Int /\ n * c \in Int
      BY Z3
    <3> QED BY <3>2, <3>3, <3>4
  <2> QED BY <2>1
<1>2. n - m - 1 \in Nat
  BY <1>1
<1>3. (n - m - 1) * c >= 0
  BY <1>2, Z3
<1>4. (n - m - 1) * c = n * c - m * c - c
  BY Z3
<1>5. m * c \in Int /\ n * c \in Int
  BY Z3
<1> QED BY <1>3, <1>4, <1>5

\* Whole data is a number of samples.
LEMMA FakeWhole == WholeData => \E n \in Nat : FakeSize = n * FakeChannels
<1> SUFFICES ASSUME WholeData PROVE \E n \in Nat : FakeSize = n * FakeChannels
  OBVIOUS
<1>1. FakeSize \in Nat \ {0} /\ FakeChannels \in Nat \ {0} /\ FakeSize % FakeChannels = 0
  BY AudioAssumption DEF WholeData
<1>2. FakeSize = FakeChannels * (FakeSize \div FakeChannels) + (FakeSize % FakeChannels)
  BY <1>1, Z3
<1> DEFINE n == FakeSize \div FakeChannels
<1>3. n \in Nat
  BY <1>1, Z3
<1>4. FakeSize = n * FakeChannels
  BY <1>1, <1>2, <1>3, Z3
<1> QED BY <1>3, <1>4

\* A place in the data; the first one is there even if the data is empty.
Place(i) == i \in Nat /\ (i # 0 => i < FakeSize)

\* The place in the data after a sample of all channels, whatever the data.
LEMMA NextPlace ==
  ASSUME type \in Types, NEW i \in Nat, Whole(i)
  PROVE  Place(Wrapped(i + Channels)) /\ Whole(Wrapped(i + Channels))
<1>1. Channels \in Nat \ {0} /\ FakeSize \in Nat
  BY AudioAssumption, ChannelsPositive
<1>2. PICK m \in Nat : i = m * Channels
  BY DEF Whole
<1>3. Whole(0) /\ Whole(i + Channels)
  <2>1. 0 = 0 * Channels /\ i + Channels = (m + 1) * Channels
    BY <1>1, <1>2, Z3
  <2> QED BY <2>1 DEF Whole
<1>4. Wrapped(i + Channels) = 0 \/ (Wrapped(i + Channels) = i + Channels /\ i + Channels < FakeSize)
  BY <1>1 DEF Wrapped
<1>5. Place(Wrapped(i + Channels))
  BY <1>1, <1>4 DEF Place
<1> QED BY <1>3, <1>4, <1>5

\* In whole data all channels of a sample are there.
LEMMA SampleIsThere ==
  ASSUME WholeData, type = "FakeAudio", type \in Types, NEW i, Place(i), Whole(i)
  PROVE  /\ i \in 0 .. FakeSize - 1 /\ i + Channels <= FakeSize
         /\ Wrapped(i + Channels) = IF i + Channels = FakeSize THEN 0 ELSE i + Channels
<1>1. /\ Channels = FakeChannels /\ Channels \in Nat \ {0} /\ FakeSize \in Nat \ {0}
  BY AudioAssumption DEF Channels, WholeData
<1>2. i \in 0 .. FakeSize - 1
  BY <1>1 DEF Place
<1>3. PICK m \in Nat : i = m * Channels
  BY DEF Whole
<1>4. PICK n \in Nat : FakeSize = n * Channels
  BY <1>1, FakeWhole
<1>5. i + Channels <= FakeSize
  BY <1>1, <1>2, <1>3, <1>4, WholeSteps
<1>6. Wrapped(i + Channels) = IF i + Channels = FakeSize THEN 0 ELSE i + Channels
  BY <1>1, <1>2, <1>5 DEF Wrapped
<1> QED BY <1>2, <1>5, <1>6

-----------------------------------------------------------------------------
(* Types.                                                                   *)

\* What is heard is pairs, of silence, of the fake audio and of voices.
Sound == Nat \X Nat

\* A block is only as long as has to be delivered at once.
ShapeInv ==
  /\ TypeOK
  /\ buf \in Seq(Sound) /\ heard \in Seq(Sound)
  /\ Whole(index)
  /\ type = "FakeAudio" => /\ Whole(Len(buf))
                           /\ IF thread = "delivering" THEN Len(buf) >= BufSize
                              ELSE Len(buf) < BufSize \/ buf = << >>
  /\ type = "External" => IF thread = "delivering" THEN Len(buf) = BufSize ELSE buf = << >>

LEMMA ShapeInit == Init => ShapeInv
<1> SUFFICES ASSUME Init PROVE ShapeInv
  OBVIOUS
<1>1. type \in Types
  BY DEF Init
<1>2. BufSize \in Nat /\ Channels \in Nat \ {0}
  BY <1>1, BlockSize, ChannelsPositive
<1>3. Whole(0)
  <2>1. 0 = 0 * Channels
    BY <1>2, Z3
  <2> QED BY <2>1 DEF Whole
<1>4. GameTypeOK
  BY VoiceAssumption, EmptySeq DEF Init, GameInit, GameTypeOK
<1>5. Len(<< >>) = 0 /\ << >> \in Seq(Sound)
  BY EmptySeq
<1>6. Len(buf) <= BufSize + Channels /\ index = 0
  BY <1>2, <1>5 DEF Init
<1>7. due \in 0 .. SampleRate \div 100 + MaxLate
  <2>1. SampleRate \div 100 + MaxLate \in Nat
    BY AudioAssumption
  <2> QED BY <2>1 DEF Init
<1>8. index \in Nat /\ (index # 0 => index < FakeSize)
  BY <1>6
<1>9. TypeOK
  BY <1>1, <1>4, <1>6, <1>7, <1>8 DEF Init, TypeOK
<1> QED BY <1>3, <1>5, <1>9 DEF Init, ShapeInv

\* A new thread has nothing, and the calls leave alone what a thread has.
LEMMA CallsKeepShape ==
  ASSUME ShapeInv, UNCHANGED <<type, gameVars>>,
         deviceBuffer' \in BOOLEAN, recordingInitialized' \in BOOLEAN, recording' \in BOOLEAN,
         caller' \in {"none", "StartRecording", "StopRecording", "Terminate"},
         threadStopped' \in BOOLEAN,
         \/ UNCHANGED <<index, buf, due, heard>> /\ thread' = thread
         \/ UNCHANGED <<index, buf, due, heard>> /\ thread = "over" /\ thread' = "none"
         \/ NewThread
  PROVE  ShapeInv'
<1>1. type \in Types /\ BufSize \in Nat /\ Channels \in Nat \ {0}
  BY BlockSize, ChannelsPositive DEF ShapeInv, TypeOK
<1>2. BufSize' = BufSize /\ Channels' = Channels
  BY DEF BufSize, Channels
<1> HIDE DEF BufSize, Channels
<1>3. GameTypeOK'
  BY DEF ShapeInv, TypeOK, GameTypeOK, gameVars
<1>4. CASE UNCHANGED <<index, buf, due, heard>> /\ thread' = thread
  BY <1>2, <1>3, <1>4 DEF ShapeInv, TypeOK, Whole
<1>5. CASE UNCHANGED <<index, buf, due, heard>> /\ thread = "over" /\ thread' = "none"
  BY <1>2, <1>3, <1>5 DEF ShapeInv, TypeOK, Whole
<1>6. CASE NewThread
  <2>1. thread' = "testing" /\ index' = 0 /\ buf' = << >> /\ due' = 0 /\ heard' = << >>
    BY <1>6 DEF NewThread
  <2>2. Len(<< >>) = 0 /\ << >> \in Seq(Sound)
    BY EmptySeq
  <2>3. 0 = 0 * Channels
    BY <1>1, Z3
  <2>4. Whole(index)' /\ Whole(Len(buf))'
    BY <2>1, <2>2, <2>3, <1>2 DEF Whole
  <2>5. Len(buf') <= BufSize' + Channels'
    BY <1>1, <1>2, <2>1, <2>2
  <2>6. due' \in 0 .. SampleRate \div 100 + MaxLate
    <3>1. SampleRate \div 100 + MaxLate \in Nat
      BY AudioAssumption
    <3> QED BY <2>1, <3>1
  <2>7. TypeOK'
    BY <1>3, <2>1, <2>5, <2>6 DEF TypeOK, ShapeInv
  <2> QED BY <2>1, <2>2, <2>4, <2>7 DEF ShapeInv
<1> QED BY <1>4, <1>5, <1>6

LEMMA CallsShape ==
  ASSUME ShapeInv,
         InitDevice \/ InitRecording \/ StartRecording \/ StopRecording \/ Joined \/ Terminate
  PROVE  ShapeInv'
<1> USE DEF ShapeInv, TypeOK
<1>1. CASE InitDevice
  BY <1>1, CallsKeepShape DEF InitDevice, threadVars
<1>2. CASE InitRecording
  BY <1>2, CallsKeepShape DEF InitRecording, threadVars
<1>3. CASE StartRecording
  BY <1>3, CallsKeepShape DEF StartRecording, TellsToStop
<1>4. CASE StopRecording
  BY <1>4, CallsKeepShape DEF StopRecording, TellsToStop
<1>5. CASE Joined
  BY <1>5, CallsKeepShape DEF Joined, AfterJoin
<1>6. CASE Terminate
  BY <1>6, CallsKeepShape DEF Terminate, TellsToStop, threadVars
<1> QED BY <1>1, <1>2, <1>3, <1>4, <1>5, <1>6

\* Silence and the samples of voices are pairs.
LEMMA SamplesAreSound == Samples \subseteq Sound
BY VoiceAssumption DEF Samples, Silence, Sound

\* What Render fills and leaves.
LEMMA RenderedSound ==
  ASSUME GameTypeOK, NEW n \in Nat
  PROVE  /\ Rendered(n) \in Seq(Samples) /\ Len(Rendered(n)) = n
         /\ SubSeq(gameBuf, n + 1, Len(gameBuf)) \in Seq(Samples)
         /\ Len(SubSeq(gameBuf, n + 1, Len(gameBuf))) <= VoiceLength
<1>1. gameBuf \in Seq(Samples) /\ Len(gameBuf) \in Nat /\ Len(gameBuf) <= VoiceLength
  BY DEF GameTypeOK
<1>2. Silence \in Samples
  BY DEF Samples
<1>3. \A k \in 1 .. n : (IF k <= Len(gameBuf) THEN gameBuf[k] ELSE Silence) \in Samples
  BY <1>1, <1>2
<1>4. Rendered(n) \in Seq(Samples) /\ Len(Rendered(n)) = n
  BY <1>3 DEF Rendered
<1>5. \A k \in n + 1 .. Len(gameBuf) : gameBuf[k] \in Samples
  BY <1>1
<1>6. /\ SubSeq(gameBuf, n + 1, Len(gameBuf)) \in Seq(Samples)
      /\ Len(SubSeq(gameBuf, n + 1, Len(gameBuf))) =
           IF n + 1 <= Len(gameBuf) THEN Len(gameBuf) - (n + 1) + 1 ELSE 0
  BY <1>1, <1>5, SubSeqProperties
<1> QED BY <1>1, <1>4, <1>6, VoiceAssumption

\* One sample of each channel.
FakeBlock(i, c) == [j \in 1 .. c |-> FakeSample(i + j - 1)]

LEMMA FakeBlockSound ==
  ASSUME NEW i \in Nat, NEW c \in Nat
  PROVE  FakeBlock(i, c) \in Seq(Sound) /\ Len(FakeBlock(i, c)) = c
<1>1. \A j \in 1 .. c : FakeSample(i + j - 1) \in Sound
  BY DEF FakeSample, Sound
<1> HIDE DEF Sound
<1> QED BY <1>1 DEF FakeBlock

\* What has been delivered.
LEMMA HeardAfterSound ==
  ASSUME heard \in Seq(Sound), buf \in Seq(Sound), NEW n \in 0 .. Len(buf)
  PROVE  HeardAfter(n) \in Seq(Sound)
<1> HIDE DEF Sound
<1> DEFINE last == IF heard = << >> THEN << >> ELSE <<heard[Len(heard)]>>
<1>1. last \in Seq(Sound)
  <2>1. CASE heard = << >>
    BY <2>1, EmptySeq
  <2>2. CASE heard # << >>
    BY <2>2
  <2> QED BY <2>1, <2>2
<1>2. SubSeq(buf, 1, n) \in Seq(Sound)
  BY SubSeqProperties
<1> HIDE DEF last
<1>3. last \o SubSeq(buf, 1, n) \in Seq(Sound)
  BY <1>1, <1>2, ConcatProperties
<1> QED BY <1>3 DEF HeardAfter, last

\* A part of a block is not longer than the block.
LEMMA PartOfBlock ==
  ASSUME NEW b \in Nat, NEW c \in Nat \ {0}
  PROVE  (b \div c) * c \in 0 .. b
<1>1. b = c * (b \div c) + (b % c) /\ b % c \in 0 .. c - 1
  BY Z3
<1>2. b \div c \in Nat
  BY Z3
<1> DEFINE q == b \div c
           m == b % c
<1>3. q \in Nat /\ m \in Nat /\ b = c * q + m
  BY <1>1, <1>2
<1> HIDE DEF q, m
<1>4. q * c \in Nat /\ q * c = c * q
  BY <1>3, Z3
<1>5. q * c \in 0 .. b
  BY <1>3, <1>4
<1> QED BY <1>5 DEF q

\* The steps of the audio thread.
LEMMA ThreadShape ==
  ASSUME ShapeInv, Wakes \/ Fills \/ Renders \/ Delivers \/ EndsTurn \/ Tests \/ Plays
  PROVE  ShapeInv'
<1>1. type \in Types /\ BufSize \in Nat /\ Channels \in Nat \ {0} /\ type' = type
  BY BlockSize, ChannelsPositive
     DEF ShapeInv, TypeOK, deviceVars, Wakes, Fills, Renders, Delivers, Delivered, EndsTurn, Tests, Plays
<1>2. BufSize' = BufSize /\ Channels' = Channels
  BY <1>1 DEF BufSize, Channels
<1>3. /\ Types \subseteq {"FakeAudio", "External"} /\ SampleRate \in Nat /\ MaxLate \in Nat
      /\ FakeSize \in Nat /\ SampleRate \div 100 \in Nat
  BY AudioAssumption
<1> HIDE DEF BufSize, Channels
<1>4. CASE Wakes
  <2>1. due' \in 0 .. SampleRate \div 100 + MaxLate
    BY <1>3, <1>4 DEF Wakes
  <2>2. TypeOK'
    BY <1>1, <1>2, <1>4, <2>1
       DEF Wakes, ShapeInv, TypeOK, deviceVars, gameVars, GameTypeOK
  <2> QED BY <1>1, <1>2, <1>4, <2>2 DEF Wakes, ShapeInv, deviceVars, Whole
<1>5. CASE Fills
  <2> DEFINE block == FakeBlock(index, Channels)
  <2>1. /\ type = "FakeAudio" /\ thread = "filling" /\ due > 0 /\ due' = due - 1
        /\ buf' = buf \o block
        /\ index' = Wrapped(index + Channels)
        /\ thread' = IF Len(buf') >= BufSize THEN "delivering" ELSE "filling"
        /\ UNCHANGED <<threadStopped, heard, deviceVars, gameVars>>
    BY <1>2, <1>5 DEF Fills, FakeBlock
  <2>2. index \in Nat /\ Whole(index)
    BY DEF ShapeInv, TypeOK
  <2>3. Place(index') /\ Whole(index')
    BY <1>1, <2>1, <2>2, NextPlace
  <2>4. block \in Seq(Sound) /\ Len(block) = Channels
    BY <1>1, <2>2, FakeBlockSound
  <2> HIDE DEF block, Sound
  <2>5. buf \in Seq(Sound) /\ Len(buf) \in Nat
    BY DEF ShapeInv
  <2>6. buf' \in Seq(Sound) /\ Len(buf') = Len(buf) + Channels
    BY <2>1, <2>4, <2>5, ConcatProperties
  <2>7. Whole(Len(buf'))
    <3>1. PICK m \in Nat : Len(buf) = m * Channels
      BY <2>1 DEF ShapeInv, Whole
    <3>2. (m + 1) * Channels = m * Channels + Channels /\ m + 1 \in Nat
      BY <1>1, Z3
    <3> QED BY <2>6, <3>1, <3>2 DEF Whole
  <2>8. Len(buf') <= BufSize + Channels
    <3>1. Len(buf) < BufSize \/ buf = << >>
      BY <2>1 DEF ShapeInv
    <3> QED BY <3>1, <1>1, <2>5, <2>6
  <2>9. due' \in 0 .. SampleRate \div 100 + MaxLate
    BY <1>3, <2>1 DEF ShapeInv, TypeOK
  <2>10. TypeOK'
    BY <1>1, <1>2, <2>1, <2>3, <2>8, <2>9
       DEF ShapeInv, TypeOK, deviceVars, gameVars, GameTypeOK, Place
  <2>11. Whole(index)' /\ Whole(Len(buf))'
    BY <1>2, <2>3, <2>7 DEF Whole
  <2>12. IF thread' = "delivering" THEN Len(buf') >= BufSize' ELSE Len(buf') < BufSize' \/ buf' = << >>
    BY <1>1, <1>2, <2>1, <2>5, <2>6
  <2> QED BY <1>1, <2>1, <2>6, <2>10, <2>11, <2>12 DEF ShapeInv
<1>6. CASE Renders
  <2> USE <1>6 DEF Renders, Render
  <2>1. GameTypeOK /\ buf = << >>
    BY DEF ShapeInv, TypeOK
  <2>2. /\ buf' \in Seq(Samples) /\ Len(buf') = BufSize
        /\ gameBuf' \in Seq(Samples) /\ Len(gameBuf') <= VoiceLength
    BY <1>1, <2>1, RenderedSound
  <2>3. buf' \in Seq(Sound)
    BY <2>2, SamplesAreSound
  <2>4. due' \in 0 .. SampleRate \div 100 + MaxLate
    BY <1>1, <1>3 DEF ShapeInv, TypeOK
  <2>5. GameTypeOK'
    BY <2>1, <2>2 DEF GameTypeOK
  <2>6. TypeOK'
    BY <1>1, <1>2, <2>2, <2>4, <2>5 DEF ShapeInv, TypeOK, deviceVars
  <2> QED BY <1>1, <1>2, <2>2, <2>3, <2>6 DEF ShapeInv, Whole
<1>7. CASE Delivers
  <2> USE <1>7 DEF Delivers, Delivered
  <2>1. buf \in Seq(Sound) /\ heard \in Seq(Sound) /\ Len(buf) >= BufSize /\ Len(buf) \in Nat
    <3>1. type = "FakeAudio" \/ type = "External"
      BY <1>1, <1>3
    <3> QED BY <1>1, <3>1 DEF ShapeInv
  <2>2. (BufSize \div Channels) * Channels \in 0 .. Len(buf)
    <3>1. (BufSize \div Channels) * Channels \in 0 .. BufSize
      BY <1>1, PartOfBlock
    <3> QED BY <1>1, <2>1, <3>1
  <2> HIDE DEF Sound
  <2>3. heard' \in Seq(Sound)
    BY <2>1, <2>2, HeardAfterSound
  <2>4. buf' = << >> /\ buf' \in Seq(Sound) /\ Len(buf') = 0 /\ thread' = "filling"
    BY EmptySeq
  <2>5. Whole(Len(buf'))
    <3>1. 0 = 0 * Channels
      BY <1>1, Z3
    <3> QED BY <2>4, <3>1 DEF Whole
  <2>6. TypeOK'
    BY <1>1, <1>2, <2>4 DEF ShapeInv, TypeOK, deviceVars, gameVars, GameTypeOK
  <2>7. Whole(index)' /\ Whole(Len(buf))'
    BY <1>2, <2>5 DEF Whole, ShapeInv
  <2> QED BY <1>1, <2>3, <2>4, <2>6, <2>7 DEF ShapeInv
<1>8. CASE EndsTurn
  <2>1. TypeOK'
    BY <1>1, <1>2, <1>3, <1>8 DEF EndsTurn, ShapeInv, TypeOK, deviceVars, gameVars, GameTypeOK
  <2> QED BY <1>1, <1>2, <1>8, <2>1 DEF EndsTurn, ShapeInv, deviceVars, Whole
<1>9. CASE Tests
  <2>1. TypeOK'
    BY <1>1, <1>2, <1>9 DEF Tests, ShapeInv, TypeOK, deviceVars, gameVars, GameTypeOK
  <2> QED BY <1>1, <1>2, <1>9, <2>1 DEF Tests, ShapeInv, deviceVars, Whole
<1>10. CASE Plays
  <2>1. /\ voices \in 0 .. MaxVoices /\ voices < MaxVoices /\ voices' = voices + 1
        /\ gameBuf' = [k \in 1 .. VoiceLength |-> <<voices + 1, k>>]
    BY <1>10 DEF Plays, Play, ShapeInv, TypeOK, GameTypeOK
  <2>2. voices' \in 0 .. MaxVoices
    BY <2>1, VoiceAssumption
  <2>3. \A k \in 1 .. VoiceLength : <<voices + 1, k>> \in Samples
    BY <2>1, VoiceAssumption DEF Samples
  <2>4. gameBuf' \in Seq(Samples) /\ Len(gameBuf') = VoiceLength
    BY <2>1, <2>3, VoiceAssumption
  <2>5. GameTypeOK'
    BY <2>2, <2>4, VoiceAssumption DEF GameTypeOK
  <2>6. TypeOK'
    BY <1>1, <1>2, <1>10, <2>5 DEF Plays, ShapeInv, TypeOK, deviceVars, threadVars
  <2> QED BY <1>1, <1>2, <1>10, <2>6 DEF Plays, ShapeInv, deviceVars, threadVars, Whole
<1> QED BY <1>4, <1>5, <1>6, <1>7, <1>8, <1>9, <1>10

LEMMA ShapeStep == ShapeInv /\ [Next]_vars => ShapeInv'
<1> SUFFICES ASSUME ShapeInv, [Next]_vars PROVE ShapeInv'
  OBVIOUS
<1>1. CASE UNCHANGED vars
  <2>1. UNCHANGED <<type, gameVars, index, buf, due, heard, thread, deviceBuffer,
                    recordingInitialized, recording, caller, threadStopped>>
    BY <1>1 DEF vars, deviceVars, threadVars
  <2> QED BY <2>1, CallsKeepShape DEF ShapeInv, TypeOK
<1>2. CASE Next
  BY <1>2, CallsShape, ThreadShape DEF Next
<1> QED BY <1>1, <1>2

\* The device and the audio thread keep their types: no block is longer than one that is
\* delivered at once and one sample, and between two samples the index has come back from the
\* end of the data, for every rate, number of channels and length, whole or not
\* (zakuro_audio_device_module.cpp:83-119).
THEOREM DeviceTypes == Spec => []TypeOK
<1>1. ShapeInv => TypeOK
  BY DEF ShapeInv
<1> QED BY <1>1, ShapeInit, ShapeStep, PTL DEF Spec, Safety

\* Nothing is read past the end of data that holds a number of samples of all channels, at
\* any rate, though the end is looked for after a sample only
\* (zakuro_audio_device_module.cpp:93-106).
THEOREM DataIsNotLeft == Spec => []ReadsInData
<1>1. ShapeInv => ReadsInData
  <2> SUFFICES ASSUME ShapeInv, WholeData, type = "FakeAudio" PROVE index + Channels <= FakeSize
    BY DEF ReadsInData
  <2>1. Place(index) /\ Whole(index) /\ type \in Types
    BY DEF ShapeInv, TypeOK, Place
  <2> QED BY <2>1, SampleIsThere
<1> QED BY <1>1, ShapeInit, ShapeStep, PTL DEF Spec, Safety

-----------------------------------------------------------------------------
(* The order of what is heard.                                              *)

\* Ten milliseconds are a whole number of samples, of at least one.
WholeRate == \E d \in Nat \ {0} : SampleRate = 100 * d

\* What has been delivered, and what is about to be.
Stream == heard \o buf

\* One after the other.
Chain(q) == \A k \in 1 .. Len(q) - 1 : q[k + 1] \in MayFollow(q[k])

\* The k-th sample that is still to be rendered.
ToRender(k) == IF k <= Len(gameBuf) THEN gameBuf[k] ELSE Silence

\* The next sample that goes into a block.
Upcoming == IF type = "FakeAudio" THEN FakeSample(index) ELSE ToRender(1)

\* What is left of a voice is its end.
VoiceLeft ==
  \A k \in 1 .. Len(gameBuf) : gameBuf[k] = <<voices, VoiceLength - Len(gameBuf) + k>>

\* The inductive invariant.
OrderInv ==
  /\ ShapeInv
  /\ thread = "delivering" => Len(buf) = (BufSize \div Channels) * Channels
  /\ type = "External" => VoiceLeft /\ (Stream # << >> => Stream[Len(Stream)][1] <= voices)
  /\ Chain(Stream)
  /\ Stream # << >> => Upcoming \in MayFollow(Stream[Len(Stream)])

\* Chains go on where they meet.
LEMMA ChainJoin ==
  ASSUME NEW a \in Seq(Sound), NEW b \in Seq(Sound), Chain(a), Chain(b),
         a # << >> /\ b # << >> => b[1] \in MayFollow(a[Len(a)])
  PROVE  Chain(a \o b)
<1> HIDE DEF Sound
<1> DEFINE m == Len(a)
           n == Len(b)
           c == a \o b
<1>1. /\ m \in Nat /\ n \in Nat /\ Len(c) = m + n
      /\ \A k \in 1 .. m + n : c[k] = IF k <= m THEN a[k] ELSE b[k - m]
  BY ConcatProperties
<1>2. /\ \A k \in 1 .. m - 1 : a[k + 1] \in MayFollow(a[k])
      /\ \A k \in 1 .. n - 1 : b[k + 1] \in MayFollow(b[k])
      /\ m # 0 /\ n # 0 => b[1] \in MayFollow(a[m])
  <2>1. (m # 0 => a # << >>) /\ (n # 0 => b # << >>)
    OBVIOUS
  <2> QED BY <2>1 DEF Chain
<1> HIDE DEF m, n, c
<1>3. ASSUME NEW k \in 1 .. m + n - 1 PROVE c[k + 1] \in MayFollow(c[k])
  <2>1. k \in 1 .. m + n /\ k + 1 \in 1 .. m + n
    BY <1>1
  <2>2. CASE k < m
    <3>1. k \in 1 .. m - 1 /\ c[k] = a[k] /\ c[k + 1] = a[k + 1]
      BY <1>1, <2>1, <2>2
    <3> QED BY <3>1, <1>2
  <2>3. CASE k = m
    <3>1. c[k] = a[m] /\ c[k + 1] = b[1] /\ m # 0 /\ n # 0
      BY <1>1, <2>1, <2>3
    <3> QED BY <3>1, <1>2
  <2>4. CASE k > m
    <3> DEFINE j == k - m
    <3>1. j \in 1 .. n - 1 /\ c[k] = b[j] /\ c[k + 1] = b[j + 1]
      BY <1>1, <2>1, <2>4
    <3> HIDE DEF j
    <3> QED BY <3>1, <1>2
  <2> QED BY <1>1, <2>2, <2>3, <2>4
<1> QED BY <1>1, <1>3 DEF Chain, c

\* Where the sizes divide, the blocks do.
LEMMA DivExact ==
  ASSUME NEW d \in Nat, NEW c \in Nat \ {0}
  PROVE  ((d * c) \div c) * c = d * c
<1> DEFINE b == d * c
           q == b \div c
           m == b % c
<1>1. b \in Nat
  BY Z3
<1>2. b = c * q + m /\ m \in 0 .. c - 1 /\ q \in Nat
  BY <1>1, Z3
<1>3. b = d * c
  OBVIOUS
<1> HIDE DEF b, q, m
<1>4. c * q = q * c /\ q * c \in Nat /\ d * c \in Nat
  BY <1>2, Z3
<1>5. CASE m = 0
  BY <1>2, <1>3, <1>4, <1>5 DEF q, b
<1>6. CASE m # 0
  <2>1. q * c < d * c
    BY <1>2, <1>3, <1>4, <1>6
  <2>2. q * c + c <= d * c
    BY <1>2, <2>1, WholeSteps
  <2> QED BY <1>2, <1>3, <1>4, <2>2
<1> QED BY <1>5, <1>6

\* A block of whole samples is delivered whole.
LEMMA WholeBlock ==
  ASSUME WholeRate, type \in Types
  PROVE  /\ BufSize = (BufSize \div Channels) * Channels
         /\ BufSize # 0 /\ Whole(BufSize)
<1>1. PICK d \in Nat \ {0} : SampleRate = 100 * d
  BY DEF WholeRate
<1> DEFINE c == Channels
<1>2. c \in Nat \ {0}
  BY ChannelsPositive
<1>3. BufSize = (SampleRate * c * 10) \div 1000
  BY DEF BufSize
<1> HIDE DEF c
<1>4. BufSize = d * c
  <2> DEFINE p == d * c
  <2>1. p \in Nat /\ SampleRate * c * 10 = p * 1000
    BY <1>1, <1>2, Z3
  <2> HIDE DEF p
  <2>2. (p * 1000) \div 1000 = p
    BY <2>1
  <2> QED BY <1>3, <2>1, <2>2 DEF p
<1>5. d * c # 0
  BY <1>2, Z3
<1>6. (BufSize \div c) * c = BufSize
  BY <1>2, <1>4, DivExact
<1> QED BY <1>4, <1>5, <1>6 DEF c, Whole

\* What a voice still has, and then silence, is in order.
LEMMA VoiceInOrder ==
  ASSUME type = "External", GameTypeOK, VoiceLeft, NEW k \in Nat \ {0}
  PROVE  ToRender(k + 1) \in MayFollow(ToRender(k)) /\ ToRender(k)[1] <= voices
<1> DEFINE n == Len(gameBuf)
           a == VoiceLength - n
<1>1. /\ n \in Nat /\ a \in Nat /\ voices \in Nat /\ VoiceLength \in Nat
      /\ \A j \in 1 .. n : gameBuf[j] = <<voices, a + j>>
  BY VoiceAssumption DEF GameTypeOK, VoiceLeft
<1>2. a + n = VoiceLength
  BY <1>1
<1>3. /\ ToRender(k) = IF k <= n THEN gameBuf[k] ELSE Silence
      /\ ToRender(k + 1) = IF k + 1 <= n THEN gameBuf[k + 1] ELSE Silence
  BY DEF ToRender
<1> HIDE DEF a, n
<1>4. CASE k < n
  <2>1. ToRender(k) = <<voices, a + k>> /\ ToRender(k + 1) = <<voices, a + (k + 1)>>
    BY <1>1, <1>3, <1>4
  <2>2. <<voices, a + k>> # Silence /\ a + k < VoiceLength /\ (a + k) + 1 = a + (k + 1)
    BY <1>1, <1>2, <1>4 DEF Silence
  <2> QED BY <2>1, <2>2, <1>1 DEF MayFollow
<1>5. CASE k = n
  <2>1. ToRender(k) = <<voices, VoiceLength>> /\ ToRender(k + 1) = Silence
    BY <1>1, <1>2, <1>3, <1>5
  <2>2. <<voices, VoiceLength>> # Silence
    BY <1>1, <1>2, <1>5 DEF Silence
  <2> QED BY <2>1, <2>2, <1>1 DEF MayFollow
<1>6. CASE k > n
  <2>1. ToRender(k) = Silence /\ ToRender(k + 1) = Silence
    BY <1>1, <1>3, <1>6
  <2> QED BY <2>1, <1>1 DEF MayFollow, Silence
<1> QED BY <1>1, <1>4, <1>5, <1>6

\* The data of the fake audio is in order, from its end to its start too.
LEMMA FakeInOrder ==
  ASSUME WholeData, type = "FakeAudio", NEW i \in 0 .. FakeSize - 1
  PROVE  FakeSample(IF i + 1 = FakeSize THEN 0 ELSE i + 1) \in MayFollow(FakeSample(i))
<1>1. FakeSize \in Nat \ {0}
  BY AudioAssumption DEF WholeData
<1>2. (i + 1) % FakeSize = IF i + 1 = FakeSize THEN 0 ELSE i + 1
  BY <1>1, Z3
<1>3. FakeSample(i)[2] = i + 1
  BY <1>1 DEF FakeSample
<1> QED BY <1>2, <1>3 DEF MayFollow

LEMMA OrderInit == Init => OrderInv
<1> SUFFICES ASSUME Init PROVE OrderInv
  OBVIOUS
<1>1. ShapeInv /\ thread = "none" /\ heard = << >> /\ buf = << >> /\ gameBuf = << >>
  BY ShapeInit DEF Init, GameInit
<1>2. Stream = << >> /\ Len(<< >>) = 0
  BY <1>1 DEF Stream
<1> QED BY <1>1, <1>2 DEF OrderInv, Chain, VoiceLeft

\* The steps that leave what is heard and what comes next alone, and a new thread.
LEMMA CallsKeepOrder ==
  ASSUME OrderInv, ShapeInv', UNCHANGED <<type, gameVars>>,
         \/ UNCHANGED <<index, buf, heard>> /\ thread' \in {thread, "none", "asleep", "filling", "testing", "over"}
         \/ NewThread
  PROVE  OrderInv'
<1>1. BufSize' = BufSize /\ Channels' = Channels /\ voices' = voices /\ gameBuf' = gameBuf
  BY DEF BufSize, Channels, gameVars
<1>2. \A s : MayFollow(s)' = MayFollow(s)
  BY <1>1 DEF MayFollow
<1>3. CASE UNCHANGED <<index, buf, heard>> /\ thread' \in {thread, "none", "asleep", "filling", "testing", "over"}
  <2>1. Stream' = Stream /\ Upcoming' = Upcoming
    BY <1>1, <1>3 DEF Stream, Upcoming, ToRender
  <2>2. Chain(Stream)' /\ (VoiceLeft' <=> VoiceLeft)
    BY <1>1, <1>2, <2>1 DEF OrderInv, Chain, VoiceLeft
  <2>3. thread' = "delivering" => thread = "delivering"
    BY <1>3
  <2>4. thread' = "delivering" => Len(buf') = (BufSize' \div Channels') * Channels'
    BY <1>1, <1>3, <2>3 DEF OrderInv
  <2>5. type = "External" => VoiceLeft' /\ (Stream' # << >> => Stream'[Len(Stream')][1] <= voices')
    BY <1>1, <2>1, <2>2 DEF OrderInv
  <2>6. Stream' # << >> => Upcoming' \in MayFollow(Stream[Len(Stream)])'
    BY <1>2, <2>1 DEF OrderInv
  <2> QED BY <2>2, <2>4, <2>5, <2>6 DEF OrderInv
<1>4. CASE NewThread
  <2>1. Stream' = << >> /\ thread' = "testing" /\ Len(<< >>) = 0
    BY <1>4 DEF NewThread, Stream
  <2>2. VoiceLeft' <=> VoiceLeft
    BY <1>1 DEF VoiceLeft
  <2> QED BY <2>1, <2>2 DEF OrderInv, Chain
<1> QED BY <1>3, <1>4

LEMMA CallsOrder ==
  ASSUME OrderInv, ShapeInv',
         \/ InitDevice \/ InitRecording \/ StartRecording \/ StopRecording \/ Joined \/ Terminate
         \/ Wakes \/ EndsTurn \/ Tests
  PROVE  OrderInv'
<1>1. CASE InitDevice
  BY <1>1, CallsKeepOrder DEF InitDevice, threadVars
<1>2. CASE InitRecording
  BY <1>2, CallsKeepOrder DEF InitRecording, threadVars
<1>3. CASE StartRecording
  BY <1>3, CallsKeepOrder DEF StartRecording, TellsToStop
<1>4. CASE StopRecording
  BY <1>4, CallsKeepOrder DEF StopRecording, TellsToStop
<1>5. CASE Joined
  BY <1>5, CallsKeepOrder DEF Joined, AfterJoin
<1>6. CASE Terminate
  BY <1>6, CallsKeepOrder DEF Terminate, TellsToStop, threadVars
<1>7. CASE Wakes
  BY <1>7, CallsKeepOrder DEF Wakes, deviceVars
<1>8. CASE EndsTurn
  BY <1>8, CallsKeepOrder DEF EndsTurn, deviceVars
<1>9. CASE Tests
  BY <1>9, CallsKeepOrder DEF Tests, deviceVars
<1> QED BY <1>1, <1>2, <1>3, <1>4, <1>5, <1>6, <1>7, <1>8, <1>9

\* What a turn puts behind what is there.
LEMMA GrowsInOrder ==
  ASSUME heard \in Seq(Sound), buf \in Seq(Sound), NEW b \in Seq(Sound), b # << >>,
         Chain(Stream), Stream # << >> => Upcoming \in MayFollow(Stream[Len(Stream)]),
         Chain(b), b[1] = Upcoming, NEW q, q = heard \o (buf \o b)
  PROVE  Chain(q) /\ q # << >> /\ q[Len(q)] = b[Len(b)]
<1> HIDE DEF Sound
<1>1. Stream \in Seq(Sound) /\ q = Stream \o b
  <2>1. heard \o buf \in Seq(Sound)
    BY ConcatProperties
  <2>2. (heard \o buf) \o b = heard \o (buf \o b)
    BY ConcatAssociative
  <2> QED BY <2>1, <2>2 DEF Stream
<1>2. Chain(Stream \o b)
  BY <1>1, ChainJoin
<1>3. /\ Len(Stream \o b) = Len(Stream) + Len(b) /\ Len(b) \in Nat \ {0} /\ Len(Stream) \in Nat
      /\ (Stream \o b)[Len(Stream) + Len(b)] = b[Len(b)]
  <2> DEFINE m == Len(Stream)
             n == Len(b)
  <2>1. m \in Nat /\ n \in Nat \ {0}
    BY <1>1
  <2>2. /\ Len(Stream \o b) = m + n
        /\ \A i \in 1 .. m + n : (Stream \o b)[i] = IF i <= m THEN Stream[i] ELSE b[i - m]
    BY <1>1, ConcatProperties
  <2> HIDE DEF m, n
  <2>3. (Stream \o b)[m + n] = b[n]
    BY <2>1, <2>2
  <2> QED BY <2>1, <2>2, <2>3 DEF m, n
<1>4. q # << >>
  BY <1>1, <1>3
<1> QED BY <1>1, <1>2, <1>3, <1>4

\* A sample of each channel is put behind the block; a full block is whole.
LEMMA FillsOrder ==
  ASSUME OrderInv, ShapeInv', (WholeRate /\ WholeData) \/ "FakeAudio" \notin Types, Fills
  PROVE  OrderInv'
<1> DEFINE c == Channels
           block == FakeBlock(index, c)
<1>1. /\ type = "FakeAudio" /\ thread = "filling" /\ type \in Types
      /\ buf' = buf \o block /\ index' = Wrapped(index + c)
      /\ thread' = IF Len(buf') >= BufSize THEN "delivering" ELSE "filling"
      /\ UNCHANGED <<type, heard, gameBuf, voices>>
  BY DEF OrderInv, ShapeInv, TypeOK, Fills, FakeBlock, deviceVars, gameVars
<1>2. /\ WholeRate /\ WholeData
      /\ c \in Nat \ {0} /\ FakeSize \in Nat \ {0} /\ BufSize \in Nat
  BY <1>1, ChannelsPositive, BlockSize, AudioAssumption DEF WholeData
<1>3. /\ index \in 0 .. FakeSize - 1 /\ index \in Nat /\ Whole(index)
      /\ index + c <= FakeSize
      /\ Wrapped(index + c) = IF index + c = FakeSize THEN 0 ELSE index + c
  <2>1. Place(index) /\ Whole(index)
    BY DEF OrderInv, ShapeInv, TypeOK, Place
  <2> QED BY <1>1, <1>2, <2>1, SampleIsThere DEF Place
<1>4. /\ index + c <= FakeSize
      /\ index' = IF index + c = FakeSize THEN 0 ELSE index + c
  BY <1>1, <1>3
<1>5. BufSize' = BufSize /\ Channels' = Channels
  BY <1>1 DEF BufSize, Channels
<1>6. \A s : MayFollow(s)' = MayFollow(s)
  BY <1>1 DEF MayFollow
<1>7. /\ block \in Seq(Sound) /\ Len(block) = c
      /\ \A j \in 1 .. c : block[j] = FakeSample(index + j - 1)
  BY <1>2, <1>3, FakeBlockSound DEF FakeBlock
<1> HIDE DEF c, block
<1>8. ASSUME NEW j \in 1 .. c
      PROVE  IF j = c THEN Upcoming' \in MayFollow(block[j])
             ELSE block[j + 1] \in MayFollow(block[j])
  <2> DEFINE i == index + j - 1
  <2>1. i \in 0 .. FakeSize - 1 /\ block[j] = FakeSample(i)
    BY <1>2, <1>3, <1>4, <1>7
  <2>2. FakeSample(IF i + 1 = FakeSize THEN 0 ELSE i + 1) \in MayFollow(FakeSample(i))
    <3> HIDE DEF i
    <3> QED BY <1>1, <2>1, FakeInOrder
  <2>3. CASE j = c
    <3>1. index' = IF i + 1 = FakeSize THEN 0 ELSE i + 1
      BY <1>2, <1>3, <1>4, <2>3
    <3>2. Upcoming' = FakeSample(IF i + 1 = FakeSize THEN 0 ELSE i + 1)
      BY <1>1, <3>1 DEF Upcoming, FakeSample
    <3> QED BY <2>1, <2>2, <2>3, <3>2
  <2>4. CASE j # c
    <3>1. j + 1 \in 1 .. c /\ i + 1 # FakeSize /\ index + (j + 1) - 1 = i + 1
      BY <1>2, <1>3, <1>4, <2>4
    <3>2. block[j + 1] = FakeSample(i + 1)
      BY <1>7, <3>1
    <3> QED BY <2>1, <2>2, <2>4, <3>1, <3>2
  <2> QED BY <2>3, <2>4
<1>9. Chain(block) /\ block # << >> /\ block[1] = Upcoming
  <2>1. Chain(block)
    BY <1>2, <1>7, <1>8 DEF Chain
  <2>2. 1 \in 1 .. c /\ index + 1 - 1 = index
    BY <1>2, <1>3
  <2>3. block[1] = FakeSample(index)
    BY <1>7, <2>2
  <2> QED BY <1>1, <1>2, <1>7, <2>1, <2>3 DEF Upcoming
<1>10. PICK q : q = heard \o (buf \o block)
  OBVIOUS
<1>11. Chain(q) /\ q # << >> /\ q[Len(q)] = block[c]
  BY <1>7, <1>9, <1>10, GrowsInOrder DEF OrderInv, ShapeInv
<1>12. Stream' = q
  BY <1>1, <1>10 DEF Stream
<1>13. Chain(Stream)'
  BY <1>6, <1>11, <1>12 DEF Chain
<1>14. Upcoming' \in MayFollow(Stream[Len(Stream)])'
  <2>1. c \in 1 .. c
    BY <1>2
  <2>2. Upcoming' \in MayFollow(block[c])
    BY <1>8, <2>1
  <2> QED BY <1>6, <1>11, <1>12, <2>2
<1>15. thread' = "delivering" => Len(buf') = (BufSize \div c) * c
  <2> SUFFICES ASSUME Len(buf') >= BufSize PROVE Len(buf') = (BufSize \div c) * c
    BY <1>1
  <2>1. /\ BufSize = (BufSize \div c) * c /\ BufSize # 0 /\ Whole(BufSize)
    BY <1>1, WholeBlock DEF c
  <2>2. Len(buf') = Len(buf) + c /\ Len(buf) \in Nat
    <3>1. buf \in Seq(Sound) /\ block \in Seq(Sound)
      BY <1>7 DEF OrderInv, ShapeInv
    <3> HIDE DEF Sound
    <3>2. Len(buf \o block) = Len(buf) + Len(block) /\ Len(buf) \in Nat
      BY ONLY <3>1, ConcatProperties
    <3> QED BY <3>2, <1>1, <1>7
  <2>3. Len(buf) < BufSize
    <3>1. Len(buf) < BufSize \/ buf = << >>
      BY <1>1 DEF OrderInv, ShapeInv
    <3> QED BY <3>1, <2>1, <1>2
  <2>4. PICK m \in Nat, d \in Nat : Len(buf) = m * c /\ BufSize = d * c
    BY <1>1, <2>1 DEF OrderInv, ShapeInv, Whole, c
  <2>5. Len(buf) + c <= BufSize
    BY <1>2, <2>3, <2>4, WholeSteps
  <2>6. Len(buf') = BufSize
    BY <1>2, <2>2, <2>5
  <2> QED BY <2>1, <2>6
<1>16. thread' = "delivering" => Len(buf') = (BufSize' \div Channels') * Channels'
  BY <1>5, <1>15 DEF c
<1> QED BY <1>1, <1>13, <1>14, <1>16 DEF OrderInv

\* What a sequence has behind its first n.
LEMMA RestProperties ==
  ASSUME NEW S, NEW s, NEW n \in Nat, NEW m \in Nat, \A k \in n + 1 .. m : s[k] \in S
  PROVE  /\ Len(SubSeq(s, n + 1, m)) = IF n + 1 <= m THEN m - (n + 1) + 1 ELSE 0
         /\ \A k \in 1 .. m - (n + 1) + 1 : SubSeq(s, n + 1, m)[k] = s[(n + 1) + k - 1]
<1> DEFINE l == n + 1
<1>1. l \in Int /\ m \in Int /\ \A k \in l .. m : s[k] \in S
  OBVIOUS
<1> HIDE DEF l
<1>2. /\ Len(SubSeq(s, l, m)) = IF l <= m THEN m - l + 1 ELSE 0
      /\ \A k \in 1 .. m - l + 1 : SubSeq(s, l, m)[k] = s[l + k - 1]
  BY <1>1, SubSeqProperties
<1> QED BY <1>2 DEF l

\* What is rendered is the voice from where it was left, and silence after it.
LEMMA RendersOrder == ASSUME OrderInv, ShapeInv', Renders PROVE OrderInv'
<1>1. /\ type = "External" /\ type \in Types /\ GameTypeOK /\ VoiceLeft /\ buf = << >>
      /\ heard \in Seq(Sound) /\ thread' = "delivering"
      /\ buf' = Rendered(BufSize) /\ gameBuf' = SubSeq(gameBuf, BufSize + 1, Len(gameBuf))
      /\ UNCHANGED <<type, heard, voices>>
  BY DEF OrderInv, ShapeInv, TypeOK, Renders, Render, deviceVars
<1> DEFINE n == BufSize
           b == Rendered(n)
<1>2. n \in Nat
  BY <1>1, BlockSize
<1>3. BufSize' = n /\ Channels' = 1 /\ n = (n \div 1) * 1
  BY <1>1, <1>2 DEF BufSize, Channels
<1>4. \A s : MayFollow(s)' = MayFollow(s)
  BY <1>1 DEF MayFollow
<1>5. b \in Seq(Sound) /\ Len(b) = n /\ \A k \in 1 .. n : b[k] = ToRender(k)
  <2>1. b \in Seq(Samples) /\ Len(b) = n
    BY <1>1, <1>2, RenderedSound
  <2>2. b \in Seq(Sound)
    BY <2>1, SamplesAreSound
  <2> QED BY <2>1, <2>2 DEF Rendered, ToRender
<1>6. /\ Len(gameBuf) \in Nat /\ gameBuf \in Seq(Samples)
      /\ Len(gameBuf') = IF n < Len(gameBuf) THEN Len(gameBuf) - n ELSE 0
      /\ \A k \in 1 .. Len(gameBuf) - n : gameBuf'[k] = gameBuf[n + k]
  <2> DEFINE m == Len(gameBuf)
  <2>1. m \in Nat /\ gameBuf \in Seq(Samples) /\ \A k \in n + 1 .. m : gameBuf[k] \in Samples
    BY <1>1, <1>2 DEF GameTypeOK
  <2> HIDE DEF n
  <2>2. /\ Len(SubSeq(gameBuf, n + 1, m)) = IF n + 1 <= m THEN m - (n + 1) + 1 ELSE 0
        /\ \A k \in 1 .. m - (n + 1) + 1 : SubSeq(gameBuf, n + 1, m)[k] = gameBuf[(n + 1) + k - 1]
    <3> HIDE DEF m
    <3> QED BY <1>2, <2>1, RestProperties
  <2>3. gameBuf' = SubSeq(gameBuf, n + 1, m)
    BY <1>1 DEF n
  <2> HIDE DEF m
  <2>4. /\ Len(gameBuf') = IF n < m THEN m - n ELSE 0
        /\ \A k \in 1 .. m - n : gameBuf'[k] = gameBuf[n + k]
    BY <1>2, <2>1, <2>2, <2>3
  <2> QED BY <2>1, <2>4 DEF m
<1> HIDE DEF n, b
<1>7. ToRender(1)' = ToRender(n + 1)
  BY <1>2, <1>6 DEF ToRender
<1>8. VoiceLeft'
  <2> SUFFICES ASSUME NEW k \in 1 .. Len(gameBuf')
               PROVE  gameBuf'[k] = <<voices', VoiceLength - Len(gameBuf') + k>>
    BY DEF VoiceLeft
  <2>1. n < Len(gameBuf) /\ Len(gameBuf') = Len(gameBuf) - n /\ k \in 1 .. Len(gameBuf) - n
    BY <1>2, <1>6
  <2>2. gameBuf'[k] = gameBuf[n + k] /\ n + k \in 1 .. Len(gameBuf)
    BY <1>2, <1>6, <2>1
  <2>3. gameBuf[n + k] = <<voices, VoiceLength - Len(gameBuf) + (n + k)>>
    BY <1>1, <2>2 DEF VoiceLeft
  <2>4. VoiceLength - Len(gameBuf) + (n + k) = VoiceLength - Len(gameBuf') + k
    BY <1>2, <1>6, <2>1, VoiceAssumption
  <2> QED BY <1>1, <2>2, <2>3, <2>4
<1>9. \A k \in Nat \ {0} : ToRender(k + 1) \in MayFollow(ToRender(k)) /\ ToRender(k)[1] <= voices
  BY <1>1, VoiceInOrder
<1>10. thread' = "delivering" => Len(buf') = (BufSize' \div Channels') * Channels'
  BY <1>1, <1>3, <1>5 DEF n, b
<1>11. CASE n = 0
  <2>1. b = << >> /\ buf' = buf
    BY <1>1, <1>5, <1>11 DEF b, n
  <2>2. Stream' = Stream
    BY <1>1, <2>1 DEF Stream
  <2>3. Upcoming' = Upcoming
    BY <1>1, <1>7, <1>11 DEF Upcoming
  <2>4. Chain(Stream)'
    BY <1>4, <2>2 DEF OrderInv, Chain
  <2> QED BY <1>1, <1>4, <1>8, <1>10, <2>2, <2>3, <2>4 DEF OrderInv
<1>12. CASE n # 0
  <2>1. b # << >> /\ b[1] = Upcoming
    <3>1. 1 \in 1 .. n
      BY <1>2, <1>12
    <3> QED BY <1>1, <1>5, <1>12, <3>1 DEF Upcoming
  <2>2. Chain(b)
    <3>1. ASSUME NEW k \in 1 .. n - 1 PROVE b[k + 1] \in MayFollow(b[k])
      <4>1. k \in 1 .. n /\ k + 1 \in 1 .. n /\ k \in Nat \ {0}
        BY <1>2
      <4> QED BY <4>1, <1>5, <1>9
    <3> QED BY <1>5, <3>1 DEF Chain
  <2>3. PICK q : q = heard \o (buf \o b)
    OBVIOUS
  <2>4. Chain(q) /\ q # << >> /\ q[Len(q)] = b[n]
    BY <1>5, <2>1, <2>2, <2>3, GrowsInOrder DEF OrderInv, ShapeInv
  <2>5. Stream' = q
    <3>1. << >> \o b = b
      <4> HIDE DEF Sound
      <4> QED BY <1>5, ConcatEmptySeq
    <3> QED BY <1>1, <2>3, <3>1 DEF Stream, b, n
  <2>6. Chain(Stream)'
    BY <1>4, <2>4, <2>5 DEF Chain
  <2>7. n \in Nat \ {0} /\ n \in 1 .. n
    BY <1>2, <1>12
  <2>8. b[n] = ToRender(n) /\ ToRender(n + 1) \in MayFollow(b[n]) /\ b[n][1] <= voices
    BY <1>5, <1>9, <2>7
  <2>9. Upcoming' = ToRender(n + 1)
    BY <1>1, <1>7 DEF Upcoming
  <2>10. Upcoming' \in MayFollow(Stream[Len(Stream)])' /\ Stream'[Len(Stream')][1] <= voices'
    BY <1>1, <1>4, <2>4, <2>5, <2>8, <2>9
  <2> QED BY <1>8, <1>10, <2>6, <2>10 DEF OrderInv
<1> QED BY <1>11, <1>12

\* A delivered block goes behind the last sample that is remembered.
LEMMA DeliversOrder == ASSUME OrderInv, ShapeInv', Delivers PROVE OrderInv'
<1>1. /\ thread = "delivering" /\ thread' = "filling" /\ buf' = << >>
      /\ Len(buf) = (BufSize \div Channels) * Channels
      /\ heard' = HeardAfter((BufSize \div Channels) * Channels)
      /\ UNCHANGED <<type, index, gameBuf, voices>>
      /\ heard \in Seq(Sound) /\ buf \in Seq(Sound) /\ heard' \in Seq(Sound)
  BY DEF OrderInv, ShapeInv, Delivers, Delivered, deviceVars, gameVars
<1> HIDE DEF Sound
<1>2. (\A s : MayFollow(s)' = MayFollow(s)) /\ Upcoming' = Upcoming /\ (VoiceLeft' <=> VoiceLeft)
  BY <1>1 DEF MayFollow, Upcoming, ToRender, VoiceLeft
<1>3. SubSeq(buf, 1, Len(buf)) = buf
  <2>1. /\ SubSeq(buf, 1, Len(buf)) \in Seq(Sound) /\ Len(SubSeq(buf, 1, Len(buf))) = Len(buf)
        /\ \A k \in 1 .. Len(buf) : SubSeq(buf, 1, Len(buf))[k] = buf[k]
    BY <1>1, SubSeqProperties
  <2> QED BY <1>1, <2>1, SeqEqual
<1>4. Stream' = (IF heard = << >> THEN << >> ELSE <<heard[Len(heard)]>>) \o buf
  <2>1. Stream' = heard'
    <3>1. heard' \o << >> = heard'
      BY <1>1, ConcatEmptySeq
    <3> QED BY <1>1, <3>1 DEF Stream
  <2> QED BY <1>1, <1>3, <2>1 DEF HeardAfter
<1> DEFINE m == Len(heard)
           n == Len(buf)
<1>5. /\ m \in Nat /\ n \in Nat /\ Len(Stream) = m + n /\ Stream \in Seq(Sound)
      /\ \A k \in 1 .. m + n : Stream[k] = IF k <= m THEN heard[k] ELSE buf[k - m]
  <2>1. /\ heard \o buf \in Seq(Sound) /\ Len(heard \o buf) = Len(heard) + Len(buf)
        /\ \A k \in 1 .. Len(heard) + Len(buf) :
             (heard \o buf)[k] = IF k <= Len(heard) THEN heard[k] ELSE buf[k - Len(heard)]
    BY <1>1, ConcatProperties
  <2>2. Len(heard) \in Nat /\ Len(buf) \in Nat
    BY <1>1
  <2> QED BY <2>1, <2>2 DEF Stream
<1>6. Chain(Stream)' /\ (Stream' # << >> => Stream # << >> /\ Stream'[Len(Stream')] = Stream[Len(Stream)])
  <2>1. CASE heard = << >>
    <3>1. << >> \o buf = buf
      BY <1>1, ConcatEmptySeq
    <3>2. Stream' = Stream
      BY <1>4, <2>1, <3>1 DEF Stream
    <3> QED BY <1>2, <3>2 DEF OrderInv, Chain
  <2>2. CASE heard # << >>
    <3> DEFINE one == <<heard[m]>>
               q == one \o buf
    <3>1. m # 0 /\ heard[m] \in Sound /\ one \in Seq(Sound) /\ Len(one) = 1 /\ one[1] = heard[m]
      BY <1>1, <2>2
    <3> HIDE DEF one
    <3>2. /\ Len(q) = 1 + n
          /\ \A k \in 1 .. 1 + n : q[k] = IF k <= 1 THEN one[k] ELSE buf[k - 1]
      <4>1. /\ Len(one \o buf) = Len(one) + Len(buf)
            /\ \A k \in 1 .. Len(one) + Len(buf) :
                 (one \o buf)[k] = IF k <= Len(one) THEN one[k] ELSE buf[k - Len(one)]
        BY <1>1, <3>1, ConcatProperties
      <4> QED BY <3>1, <4>1
    <3> HIDE DEF m, n, q
    <3>3. ASSUME NEW k \in 1 .. 1 + n PROVE q[k] = Stream[m + k - 1]
      <4>1. CASE k = 1
        <5>1. q[k] = heard[m] /\ m \in 1 .. m + n /\ m + k - 1 = m
          BY <1>5, <3>1, <3>2, <4>1
        <5> QED BY <1>5, <5>1
      <4>2. CASE k # 1
        <5>1. q[k] = buf[k - 1] /\ m + k - 1 \in 1 .. m + n /\ ~(m + k - 1 <= m)
              /\ (m + k - 1) - m = k - 1
          BY <1>5, <3>2, <4>2
        <5> QED BY <1>5, <5>1
      <4> QED BY <4>1, <4>2
    <3>4. Stream' = q
      BY <1>4, <2>2 DEF q, one, m
    <3>5. ASSUME NEW k \in 1 .. n PROVE q[k + 1] \in MayFollow(q[k])
      <4> DEFINE j == m + k - 1
      <4>1. /\ k \in 1 .. 1 + n /\ k + 1 \in 1 .. 1 + n /\ m + (k + 1) - 1 = j + 1
            /\ j \in 1 .. m + n - 1
        BY <1>5, <3>1
      <4>2. q[k] = Stream[j] /\ q[k + 1] = Stream[j + 1]
        <5>1. q[k] = Stream[m + k - 1] /\ q[k + 1] = Stream[m + (k + 1) - 1]
          BY <3>3, <4>1
        <5> QED BY <4>1, <5>1
      <4> HIDE DEF j
      <4>3. Stream[j + 1] \in MayFollow(Stream[j])
        BY <1>5, <4>1 DEF OrderInv, Chain
      <4> QED BY <4>2, <4>3
    <3>6. Chain(Stream)'
      <4>1. Len(q) - 1 = n
        BY <1>5, <3>2
      <4> QED BY <1>2, <3>4, <3>5, <4>1 DEF Chain
    <3>7. q[Len(q)] = Stream[Len(Stream)]
      <4>1. 1 + n \in 1 .. 1 + n /\ m + (1 + n) - 1 = m + n
        BY <1>5
      <4>2. q[1 + n] = Stream[m + (1 + n) - 1]
        BY <3>3, <4>1
      <4> QED BY <1>5, <3>2, <4>1, <4>2
    <3>8. Stream # << >>
      BY <1>5, <3>1
    <3> QED BY <3>4, <3>6, <3>7, <3>8
  <2> QED BY <2>1, <2>2
<1> QED BY <1>1, <1>2, <1>6 DEF OrderInv

\* A voice that begins may follow everything that has been heard.
LEMMA PlaysOrder == ASSUME OrderInv, ShapeInv', Plays PROVE OrderInv'
<1>1. /\ type = "External" /\ GameTypeOK /\ voices' = voices + 1 /\ voices \in Nat
      /\ gameBuf' = [k \in 1 .. VoiceLength |-> <<voices + 1, k>>]
      /\ UNCHANGED <<type, heard, buf, index, thread>>
      /\ heard \in Seq(Sound) /\ buf \in Seq(Sound)
  BY DEF OrderInv, ShapeInv, TypeOK, GameTypeOK, Plays, Play, deviceVars, threadVars
<1>2. BufSize' = BufSize /\ Channels' = Channels /\ Stream' = Stream
  BY <1>1 DEF BufSize, Channels, Stream
<1>3. \A s : MayFollow(s) \subseteq MayFollow(s)'
  BY <1>1 DEF MayFollow
<1>4. Chain(Stream)'
  BY <1>2, <1>3 DEF OrderInv, Chain
<1>5. VoiceLength \in Nat /\ Len(gameBuf') = VoiceLength
  BY <1>1, VoiceAssumption
<1>6. VoiceLeft'
  BY <1>1, <1>5 DEF VoiceLeft
<1>7. ASSUME Stream # << >>
      PROVE  Upcoming' \in MayFollow(Stream[Len(Stream)])' /\ Stream[Len(Stream)][1] <= voices'
  <2> DEFINE s == Stream[Len(Stream)]
  <2>1. s \in Sound /\ s[1] <= voices
    <3>1. s[1] <= voices
      BY <1>1, <1>7 DEF OrderInv
    <3> HIDE DEF Sound
    <3>2. Stream \in Seq(Sound)
      BY <1>1, ConcatProperties DEF Stream
    <3>3. s \in Sound
      BY <1>7, <3>2
    <3> QED BY <3>1, <3>3
  <2>2. s[1] \in Nat /\ s[2] \in Nat
    BY <2>1 DEF Sound
  <2>3. s' = s
    BY <1>2
  <2> HIDE DEF s
  <2>4. CASE VoiceLength = 0
    <3>1. Upcoming' = Silence
      BY <1>1, <1>5, <2>4 DEF Upcoming, ToRender
    <3>2. Silence \in MayFollow(s)'
      BY <1>1, <2>2, <2>3, <2>4 DEF MayFollow
    <3> QED BY <1>1, <2>1, <2>2, <2>3, <3>1, <3>2 DEF s
  <2>5. CASE VoiceLength # 0
    <3>1. Upcoming' = <<voices + 1, 1>>
      BY <1>1, <1>5, <2>5 DEF Upcoming, ToRender
    <3>2. voices + 1 \in (s[1] + 1) .. voices'
      BY <1>1, <2>1, <2>2
    <3>3. <<voices + 1, 1>> \in MayFollow(s)'
      BY <1>1, <2>3, <3>2 DEF MayFollow
    <3> QED BY <1>1, <2>1, <2>2, <2>3, <3>1, <3>3 DEF s
  <2> QED BY <2>4, <2>5
<1>8. thread' = "delivering" => Len(buf') = (BufSize' \div Channels') * Channels'
  BY <1>1, <1>2 DEF OrderInv
<1> QED BY <1>1, <1>2, <1>4, <1>6, <1>7, <1>8 DEF OrderInv

LEMMA OrderStep ==
  ASSUME (WholeRate /\ WholeData) \/ "FakeAudio" \notin Types
  PROVE  OrderInv /\ [Next]_vars => OrderInv'
<1> SUFFICES ASSUME OrderInv, [Next]_vars PROVE OrderInv'
  OBVIOUS
<1>1. ShapeInv'
  BY ShapeStep DEF OrderInv
<1>2. CASE UNCHANGED vars
  BY <1>1, <1>2, CallsKeepOrder DEF vars, deviceVars, threadVars
<1>3. CASE Next
  BY <1>1, <1>3, CallsOrder, FillsOrder, RendersOrder, DeliversOrder, PlaysOrder DEF Next
<1> QED BY <1>2, <1>3

\* What is heard has no gap and nothing twice, over the ends of blocks and of the data, over
\* new voices, and however late the thread wakes up: always with an external source, and
\* with fake audio where ten milliseconds are a whole number of samples, and so is the data
\* (zakuro_audio_device_module.cpp:93-107, 110-116, game_audio.h:25-32).
THEOREM EverythingIsHeardInOrder ==
  ASSUME (WholeRate /\ WholeData) \/ "FakeAudio" \notin Types
  PROVE  Spec => []HeardInOrder
<1>1. OrderInv => HeardInOrder
  <2> SUFFICES ASSUME OrderInv, NEW k \in 1 .. Len(heard) - 1
               PROVE  heard[k + 1] \in MayFollow(heard[k])
    BY DEF HeardInOrder
  <2>1. heard \in Seq(Sound) /\ buf \in Seq(Sound)
    BY DEF OrderInv, ShapeInv
  <2>2. /\ Len(heard) \in Nat /\ Len(buf) \in Nat /\ Len(Stream) = Len(heard) + Len(buf)
        /\ \A j \in 1 .. Len(heard) : Stream[j] = heard[j]
    <3> HIDE DEF Sound
    <3> QED BY <2>1, ConcatProperties DEF Stream
  <2>3. k \in 1 .. Len(Stream) - 1 /\ k \in 1 .. Len(heard) /\ k + 1 \in 1 .. Len(heard)
    BY <2>2
  <2>4. Stream[k + 1] \in MayFollow(Stream[k])
    BY <2>3 DEF OrderInv, Chain
  <2> QED BY <2>2, <2>3, <2>4
<1>2. OrderInv /\ [Next]_vars => OrderInv'
  BY OrderStep
<1> QED BY <1>1, <1>2, OrderInit, PTL DEF Spec, Safety
=============================================================================
