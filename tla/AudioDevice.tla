----------------------------- MODULE AudioDevice -----------------------------
(***************************************************************************)
(* src/src/zakuro_audio_device_module.{h,cpp}: the audio device of an      *)
(* instance, for the types that have no real device behind them.  One      *)
(* thread of WebRTC calls Init, InitRecording, StartRecording,             *)
(* StopRecording and Terminate; the audio thread wakes up every ten        *)
(* milliseconds or later, cuts what is due into blocks and delivers them   *)
(* through device_buffer_.                                                 *)
(*                                                                         *)
(* WebRTC's voice engine is a library: it starts recording after           *)
(* InitRecording, and terminates the device only after a StopRecording     *)
(* that has returned.  Safari is FakeAudio with data of its own, and ADM   *)
(* hands every call to a device of WebRTC.  Left out: what the samples     *)
(* are, except their order, and the functions that only return a constant. *)
(***************************************************************************)
EXTENDS GameAudio

CONSTANTS
  Types,       \* of the device: "FakeAudio", "External"
  SampleRate,
  FakeChannels, FakeSize,  \* channels and data.size() of the fake audio
  MaxLate      \* bound: samples that are due at a wake up beyond those of 10 ms

ASSUME AudioAssumption ==
  /\ Types \subseteq {"FakeAudio", "External"}
  /\ SampleRate \in Nat /\ FakeChannels \in Nat \ {0} /\ MaxLate \in Nat
  /\ FakeSize \in Nat

\* The data holds a value of each channel for every sample, and a sample at least.  Nothing
\* in wav_reader.cpp (99-105) sees to it; what needs it says so.
WholeData == FakeSize # 0 /\ FakeSize % FakeChannels = 0

VARIABLES
  type,
  deviceBuffer,          \* device_buffer_ is not null
  recordingInitialized,
  recording,             \* is_recording_
  caller,                \* the call in which WebRTC's thread waits for the audio thread
  thread,                \* audio_thread_
  threadStopped,         \* audio_thread_stopped_
  index, buf, due,       \* of the audio thread: index, buf, and what is left of sample_count
  heard                  \* the last block delivered, after the last sample before it

deviceVars == <<type, deviceBuffer, recordingInitialized, recording, caller>>
threadVars == <<thread, threadStopped, index, buf, due, heard>>
vars == <<deviceVars, threadVars, gameVars>>

\* What zakuro.cpp gives an external source.
Channels == IF type = "External" THEN 1 ELSE FakeChannels

BufSize == (SampleRate * Channels * 10) \div 1000

\* What is read at a position of the data: its sample, or, past its end, where anything
\* may be read, what is none of its samples.
FakeSample(i) == IF i < FakeSize THEN <<0, i + 1>> ELSE <<0, 0>>

TypeOK ==
  /\ GameTypeOK
  /\ type \in Types
  /\ deviceBuffer \in BOOLEAN
  /\ recordingInitialized \in BOOLEAN
  /\ recording \in BOOLEAN
  /\ caller \in {"none", "StartRecording", "StopRecording", "Terminate"}
  /\ thread \in {"none", "testing", "asleep", "filling", "delivering", "over"}
  /\ threadStopped \in BOOLEAN
  /\ index \in Nat /\ (index # 0 => index < FakeSize)
  /\ Len(buf) <= BufSize + Channels
  /\ due \in 0 .. SampleRate \div 100 + MaxLate

Init ==
  /\ GameInit
  /\ type \in Types
  /\ deviceBuffer = FALSE
  /\ recordingInitialized = FALSE
  /\ recording = FALSE
  /\ caller = "none"
  /\ thread = "none"
  /\ threadStopped = FALSE
  /\ index = 0 /\ buf = << >> /\ due = 0
  /\ heard = << >>

-----------------------------------------------------------------------------
(* WebRTC's thread. *)

InitDevice ==
  /\ caller = "none" /\ ~deviceBuffer
  /\ deviceBuffer' = TRUE
  /\ UNCHANGED <<type, recordingInitialized, recording, caller, threadVars, gameVars>>

InitRecording ==
  /\ caller = "none" /\ deviceBuffer
  /\ recordingInitialized' = TRUE
  /\ UNCHANGED <<type, deviceBuffer, recording, caller, threadVars, gameVars>>

\* A new thread with its own index and buf.
NewThread ==
  /\ thread' = "testing"
  /\ index' = 0 /\ buf' = << >> /\ due' = 0
  /\ heard' = << >>

\* StopAudioThread up to its join.
TellsToStop(call) ==
  /\ thread # "none"
  /\ threadStopped' = TRUE
  /\ caller' = call
  /\ UNCHANGED <<thread, index, buf, due, heard>>

\* StartAudioThread stops the thread that runs before it makes a new one.
StartRecording ==
  /\ caller = "none" /\ deviceBuffer /\ recordingInitialized
  /\ \/ TellsToStop("StartRecording") /\ UNCHANGED recording
     \/ thread = "none" /\ NewThread /\ recording' = TRUE /\ UNCHANGED <<caller, threadStopped>>
  /\ UNCHANGED <<type, deviceBuffer, recordingInitialized, gameVars>>

\* Mutant: the thread is told to stop, and left to itself.
StopRecordingDetached ==
  /\ caller = "none" /\ deviceBuffer
  /\ thread # "none"
  /\ threadStopped' = TRUE
  /\ recording' = FALSE
  /\ UNCHANGED <<type, deviceBuffer, recordingInitialized, caller, thread, index, buf, due, heard, gameVars>>

StopRecording ==
  /\ caller = "none" /\ deviceBuffer
  /\ TellsToStop("StopRecording")
  /\ UNCHANGED <<type, deviceBuffer, recordingInitialized, recording, gameVars>>

\* After the join: a restart goes on to make its thread.
AfterJoin ==
  /\ caller # "none" /\ thread = "over"
  /\ caller' = "none"
  /\ recording' = (caller = "StartRecording")
  /\ IF caller = "StartRecording"
     THEN NewThread
     ELSE thread' = "none" /\ UNCHANGED <<index, buf, due, heard>>
  /\ UNCHANGED <<type, deviceBuffer, recordingInitialized, gameVars>>

\* Mutant: the flag is not taken back.
JoinedFlagged == AfterJoin /\ UNCHANGED threadStopped

\* join has returned, and with it the call.
Joined == AfterJoin /\ threadStopped' = FALSE

\* The buffer is destroyed before StopAudioThread, which finds no thread if recording
\* has been stopped.
Terminate ==
  /\ caller = "none" /\ deviceBuffer /\ ~recording
  /\ deviceBuffer' = FALSE
  /\ recordingInitialized' = FALSE
  /\ IF thread # "none" THEN TellsToStop("Terminate") ELSE UNCHANGED <<caller, threadVars>>
  /\ UNCHANGED <<type, recording, gameVars>>

-----------------------------------------------------------------------------
(* The audio thread. *)

\* sleep_for is over, and sample_count is that of ten milliseconds at least.
Wakes ==
  /\ thread = "asleep"
  /\ \E late \in 0 .. MaxLate : due' = SampleRate \div 100 + late
  /\ thread' = "filling"
  /\ UNCHANGED <<threadStopped, index, buf, heard, deviceVars, gameVars>>

\* Mutant: off by one.
WrappedLate(i) == IF i > FakeSize THEN 0 ELSE i

\* The end of the data is noticed after all channels of a sample.
Wrapped(i) == IF i >= FakeSize THEN 0 ELSE i

\* One turn of the loop over the samples: each channel's value is taken.
Fills ==
  /\ type = "FakeAudio"
  /\ thread = "filling" /\ due > 0
  /\ due' = due - 1
  /\ buf' = buf \o [j \in 1 .. Channels |-> FakeSample(index + j - 1)]
  /\ index' = Wrapped(index + Channels)
  /\ thread' = IF Len(buf') >= BufSize THEN "delivering" ELSE "filling"
  /\ UNCHANGED <<threadStopped, heard, deviceVars, gameVars>>

\* One turn of the loop of an external source.
Renders ==
  /\ type = "External"
  /\ thread = "filling" /\ due >= BufSize
  /\ due' = due - BufSize
  /\ buf' = Rendered(BufSize)
  /\ Render(BufSize)
  /\ thread' = "delivering"
  /\ UNCHANGED <<threadStopped, index, heard, deviceVars>>

\* heard after n samples of buf have been delivered.
HeardAfter(n) ==
  (IF heard = << >> THEN << >> ELSE <<heard[Len(heard)]>>) \o SubSeq(buf, 1, n)

Delivered(n) ==
  /\ thread = "delivering"
  /\ heard' = HeardAfter(n)
  /\ buf' = << >>
  /\ thread' = "filling"
  /\ UNCHANGED <<threadStopped, index, due, deviceVars, gameVars>>

\* Mutant: a block is one sample of each channel short.
DeliversLess == Delivered(BufSize - Channels)

\* SetRecordedBuffer takes whole samples, DeliverRecordedData, and clear().
Delivers == Delivered((BufSize \div Channels) * Channels)

\* What is left of an external source's samples is dropped.
EndsTurn ==
  /\ thread = "filling"
  /\ due < IF type = "External" THEN BufSize ELSE 1
  /\ due' = 0
  /\ thread' = "testing"
  /\ UNCHANGED <<threadStopped, index, buf, heard, deviceVars, gameVars>>

\* Mutant: while (true).
TestsNothing ==
  /\ thread = "testing"
  /\ thread' = "asleep"
  /\ UNCHANGED <<threadStopped, index, buf, due, heard, deviceVars, gameVars>>

\* while (!audio_thread_stopped_)
Tests ==
  /\ thread = "testing"
  /\ thread' = IF threadStopped THEN "over" ELSE "asleep"
  /\ UNCHANGED <<threadStopped, index, buf, due, heard, deviceVars, gameVars>>

-----------------------------------------------------------------------------

\* A scenario or a key plays a voice.
Plays ==
  /\ type = "External"
  /\ Play
  /\ UNCHANGED <<deviceVars, threadVars>>

Next ==
  \/ InitDevice \/ InitRecording \/ StartRecording \/ StopRecording \/ Joined \/ Terminate
  \/ Wakes \/ Fills \/ Renders \/ Delivers \/ EndsTurn \/ Tests
  \/ Plays

\* The audio thread runs, and a join returns when it has ended.  WebRTC need not call
\* anything.
Fairness == WF_vars(Wakes \/ Fills \/ Renders \/ Delivers \/ EndsTurn \/ Tests) /\ WF_vars(Joined)

Safety == Init /\ [][Next]_vars

Spec == Safety /\ Fairness

-----------------------------------------------------------------------------
(* Properties. *)

\* The audio thread has a buffer to deliver through: Terminate(), which destroys it
\* first, comes only after the thread has been joined (zakuro_audio_device_module.h:92-99,
\* zakuro_audio_device_module.cpp:99-114, 122-128).
UsesLiveBuffer == thread = "delivering" => deviceBuffer

\* Where the data is whole samples, the values that the next turn takes are all in it,
\* though the loop over the channels does not look at its end
\* (zakuro_audio_device_module.cpp:93-106).
ReadsInData ==
  WholeData /\ type = "FakeAudio" /\ thread = "filling" => index + Channels <= FakeSize

\* The samples that may come after a sample: the next one of the data, from its end
\* back to its start; the next one of the voice, silence after its last one, or the
\* first one of a later voice.
MayFollow(s) ==
  IF type = "FakeAudio" THEN {FakeSample(s[2] % FakeSize)}
  ELSE {<<v, 1>> : v \in (s[1] + 1) .. voices}
         \union (IF s = Silence THEN {Silence} \union {<<v, 1>> : v \in 1 .. voices}
                 ELSE IF s[2] < VoiceLength THEN {<<s[1], s[2] + 1>>} ELSE {Silence})

\* What is heard has no gap and nothing twice, over the ends of blocks and of the data
\* and however late the thread wakes up (zakuro_audio_device_module.cpp:93-107, 110-116,
\* game_audio.h:25-32).
HeardInOrder == \A k \in 1 .. Len(heard) - 1 : heard[k + 1] \in MayFollow(heard[k])

\* While it records, blocks go on being delivered, after a restart too
\* (zakuro_audio_device_module.cpp:83-119, 127).
AudioFlows == []<>(~recording \/ caller # "none" \/ thread = "delivering")

\* Every call returns: the thread notices that it has been told to stop
\* (zakuro_audio_device_module.cpp:122-129).
CallsReturn == \A c \in {"StartRecording", "StopRecording"} : caller = c ~> caller # c
=============================================================================
