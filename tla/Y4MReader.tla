------------------------------ MODULE Y4MReader ------------------------------
(***************************************************************************)
(* src/src/y4m_reader.cpp: reading the picture of a given time from a file *)
(* of YUV4MPEG2 that is played again and again.                            *)
(*                                                                         *)
(* A file is a header, then frames, each a header line of its own length   *)
(* and the bytes of a picture; the last picture may be cut.  The picture   *)
(* of the i-th frame is i.  Left out: fopen, fseek and fread that fail on  *)
(* a good position, which end the reading as the errors here do, and a     *)
(* frame header that is not one, which ends it where it is met.            *)
(***************************************************************************)
EXTENDS Integers, FiniteSets, SequencesExt

CONSTANTS
  HeaderLengths,  \* lengths that a frame's header line may have
  Size,           \* GetSize()
  Start,          \* start_pos_: the length of the file's header
  MaxFrames,      \* bound: frames of a file
  FpsNum, FpsDen, \* fps_num_, fps_den_
  Second          \* milliseconds of a second: 1000

ASSUME Y4MAssumption ==
  /\ HeaderLengths \subseteq Nat \ {0}
  /\ Size \in Nat \ {0} /\ Start \in Nat /\ MaxFrames \in Nat
  /\ FpsNum \in Nat \ {0} /\ FpsDen \in Nat \ {0} /\ Second \in Nat \ {0}

\* What matters of the tokens of the file's header: those that must be there, and
\* whether one is refused.
Tokens == {"YUV4MPEG2", "W", "H", "F", "refused"}

Files ==
  [tokens : {Tokens \ {"refused"}, Tokens} \union {Tokens \ {"refused", t} : t \in Tokens},
   headers : BoundedSeq(HeaderLengths, MaxFrames),
   cut : 0 .. Size]

VARIABLES
  file,
  ftell,      \* where file_ stands
  pos,        \* pos_
  frame,      \* frame_
  prevFrame,  \* prev_frame_
  target,     \* of the GetFrame that runs: frame
  picture,    \* what the buffer of the caller holds
  reading     \* where GetFrame is, or how it ended

y4mVars == <<file, ftell, pos, frame, prevFrame, target, picture, reading>>

Frames == Len(file.headers)

\* Where the i-th frame begins, counted from 0.
Offset(i) ==
  LET begin[n \in 0 .. Frames] == IF n = 0 THEN Start ELSE begin[n - 1] + file.headers[n] + Size
  IN  begin[i]

FileSize == IF Frames = 0 THEN Start ELSE Offset(Frames) - file.cut

Y4MTypeOK ==
  /\ file \in Files
  /\ ftell \in 0 .. FileSize /\ pos \in 0 .. FileSize
  /\ frame \in Nat /\ target \in Nat
  /\ prevFrame \in Nat \union {-1}
  /\ picture \in 0 .. MaxFrames - 1 \union {-1}
  /\ reading \in {"closed", "idle", "reading", "failed"}

Y4MInit ==
  /\ file \in Files
  /\ ftell = 0 /\ pos = 0
  /\ frame = 0 /\ prevFrame = -1 /\ target = 0
  /\ picture = -1
  /\ reading = "closed"

\* ReadHeader's verdict.
ReadHeader == file.tokens = Tokens \ {"refused"}

Open ==
  /\ reading = "closed"
  /\ IF ReadHeader
     THEN reading' = "idle" /\ ftell' = Start /\ pos' = Start
     ELSE reading' = "failed" /\ UNCHANGED <<ftell, pos>>
  /\ UNCHANGED <<file, frame, prevFrame, target, picture>>

-----------------------------------------------------------------------------
(* GetFrame. *)

\* The frame of a time, before the file's end is considered.
FrameAt(ms) == (ms * FpsNum) \div (Second * FpsDen)

\* Up to the loop that skips: the frame of the call before needs nothing, and time
\* does not go back.
GetFrame(ms) ==
  /\ reading = "idle"
  /\ target' = FrameAt(ms)
  /\ reading' = IF FrameAt(ms) = prevFrame THEN "idle"
                ELSE IF FrameAt(ms) < frame THEN "failed"
                ELSE "reading"
  /\ UNCHANGED <<file, ftell, pos, frame, prevFrame, picture>>

\* The frames whose header is read whole from where the file stands: one, or none.
ReadFrameHeader ==
  {i \in 0 .. Frames - 1 : Offset(i) = ftell /\ Offset(i) + file.headers[i + 1] <= FileSize}

FrameLength(i) == file.headers[i + 1] + Size

\* Mutant: at the end of the file only a frame that is shown leads back to the start, not
\* one that is skipped.
RewindsLate(i) ==
  LET end == pos + FrameLength(i)
  IN IF end = FileSize /\ frame = target THEN ftell' = Start /\ pos' = Start
     ELSE ftell' = ftell + FrameLength(i) /\ pos' = end

\* A frame that ends with the file leads back to the start.
Rewinds(i) ==
  LET end == pos + FrameLength(i)
  IN IF end = FileSize THEN ftell' = Start /\ pos' = Start
     ELSE ftell' = ftell + FrameLength(i) /\ pos' = end

\* Mutant: the size of the file is not asked.
PassesUnchecked(i) == Rewinds(i)

\* Past the header and the picture of a frame, which must not reach beyond the file.
PassesFrame(i) == pos + FrameLength(i) <= FileSize /\ Rewinds(i)

\* Mutant: a skipped frame is not counted.
SkipFrameUncounted ==
  /\ reading = "reading" /\ frame < target
  /\ \E i \in ReadFrameHeader : PassesFrame(i)
  /\ UNCHANGED <<file, frame, prevFrame, target, picture, reading>>

SkipFrame ==
  /\ reading = "reading" /\ frame < target
  /\ \E i \in ReadFrameHeader : PassesFrame(i)
  /\ frame' = frame + 1
  /\ UNCHANGED <<file, prevFrame, target, picture, reading>>

\* Mutant: frame_ stays that of the picture.
ReadsFrameInPlace ==
  /\ reading = "reading" /\ frame = target
  /\ \E i \in ReadFrameHeader : PassesFrame(i) /\ picture' = i
  /\ prevFrame' = target
  /\ reading' = "idle"
  /\ UNCHANGED <<file, frame, target>>

ReadsFrame ==
  /\ reading = "reading" /\ frame = target
  /\ \E i \in ReadFrameHeader : PassesFrame(i) /\ picture' = i
  /\ frame' = frame + 1
  /\ prevFrame' = target
  /\ reading' = "idle"
  /\ UNCHANGED <<file, target>>

\* The frame is cut, or there is none: an error that the caller gets.  It does not call
\* again, so that where the file stands then is of no account.
FailsFrame ==
  /\ reading = "reading"
  /\ \A i \in ReadFrameHeader : pos + FrameLength(i) > FileSize
  /\ reading' = "failed"
  /\ UNCHANGED <<file, ftell, pos, frame, prevFrame, target, picture>>
=============================================================================
