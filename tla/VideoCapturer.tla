---------------------------- MODULE VideoCapturer ----------------------------
(***************************************************************************)
(* src/src/fake_video_capturer.{h,cpp}: the thread that feeds an           *)
(* instance's fake video.  The constructor starts it, the destructor stops *)
(* it and waits.  Safari, Sandstorm and External draw a picture            *)
(* themselves ("Drawn"), Y4MFile reads one.                                *)
(*                                                                         *)
(* Left out: what is drawn, the font whose loading may fail (then the      *)
(* thread ends as it does when the file cannot be opened), and frame_,     *)
(* which only says what is drawn.                                          *)
(***************************************************************************)
EXTENDS Y4MReader

CONSTANTS
  VideoTypes,  \* of the capturer: "Drawn", "Y4MFile"
  MaxStep,     \* bound: milliseconds between two turns of the loop
  MaxTime      \* bound: milliseconds after which the clock stands still

ASSUME CapturerAssumption ==
  /\ VideoTypes \subseteq {"Drawn", "Y4MFile"}
  /\ MaxStep \in Nat /\ MaxTime \in Nat

VARIABLES
  videoType,
  capture,   \* thread_, and where it is
  stopped,   \* stopped_
  now,       \* now - started_at_
  owner      \* "alive", "stopping": in StopCapture, "gone"

captureVars == <<videoType, capture, stopped, now, owner>>
videoVars == <<captureVars, y4mVars>>

CaptureTypeOK ==
  /\ Y4MTypeOK
  /\ videoType \in VideoTypes
  /\ capture \in {"opening", "testing", "producing", "reading", "capturing", "over"}
  /\ stopped \in BOOLEAN
  /\ now \in 0 .. MaxTime
  /\ owner \in {"alive", "stopping", "gone"}

\* StartCapture has made the thread.
CaptureInit ==
  /\ Y4MInit
  /\ videoType \in VideoTypes
  /\ capture = "opening"
  /\ stopped = FALSE
  /\ now = 0
  /\ owner = "alive"

\* The thread ends when the file is not one that it can play.
Opens ==
  /\ capture = "opening"
  /\ IF videoType = "Y4MFile" THEN Open ELSE UNCHANGED y4mVars
  /\ capture' = IF reading' = "failed" THEN "over" ELSE "testing"
  /\ UNCHANGED <<videoType, stopped, now, owner>>

\* while (!stopped_), and the clock, which is monotonic.
TestsStopped ==
  /\ capture = "testing"
  /\ IF stopped THEN capture' = "over" /\ UNCHANGED now
     ELSE /\ capture' = "producing"
          /\ \E t \in now .. now + MaxStep : now' = IF t < MaxTime THEN t ELSE MaxTime
  /\ UNCHANGED <<videoType, stopped, owner, y4mVars>>

\* UpdateImage, and get_data that may fail: then the turn ends.
Draws ==
  /\ videoType # "Y4MFile" /\ capture = "producing"
  /\ capture' \in {"capturing", "testing"}
  /\ UNCHANGED <<videoType, stopped, now, owner, y4mVars>>

\* GetFrame is called; without a new picture the buffer is used again.
Asks ==
  /\ videoType = "Y4MFile" /\ capture = "producing"
  /\ GetFrame(now)
  /\ capture' = CASE reading' = "idle" -> "capturing"
                  [] reading' = "reading" -> "reading"
                  [] reading' = "failed" -> "over"
  /\ UNCHANGED <<videoType, stopped, now, owner>>

\* In GetFrame: an error ends the thread.
Reads ==
  /\ capture = "reading"
  /\ SkipFrame \/ ReadsFrame \/ FailsFrame
  /\ capture' = CASE reading' = "idle" -> "capturing"
                  [] reading' = "reading" -> "reading"
                  [] reading' = "failed" -> "over"
  /\ UNCHANGED <<videoType, stopped, now, owner>>

\* OnCapturedFrame, and the sleep.
Captures ==
  /\ capture = "capturing"
  /\ capture' = "testing"
  /\ UNCHANGED <<videoType, stopped, now, owner, y4mVars>>

\* The destructor: StopCapture up to its join.
StopCapture ==
  /\ owner = "alive"
  /\ owner' = "stopping"
  /\ stopped' = TRUE
  /\ UNCHANGED <<videoType, capture, now, y4mVars>>

Joins ==
  /\ owner = "stopping" /\ capture = "over"
  /\ owner' = "gone"
  /\ UNCHANGED <<videoType, capture, stopped, now, y4mVars>>

Thread == Opens \/ TestsStopped \/ Draws \/ Asks \/ Reads \/ Captures

CaptureNext == Thread \/ StopCapture \/ Joins

\* The thread runs, and a join returns when it has ended.  The get_data of an image that
\* was created succeeds again and again.
CaptureFairness ==
  /\ WF_videoVars(Thread) /\ WF_videoVars(Joins)
  /\ SF_videoVars(Draws /\ capture' = "capturing")

CaptureSpec == CaptureInit /\ [][CaptureNext]_videoVars /\ CaptureFairness

-----------------------------------------------------------------------------
(* Properties. *)

\* The picture that is captured is the one of the time, in a file that is played again
\* and again: "全体のフレームを超えてた場合はループする" (y4m_reader.h:23).
ShowsPictureOfTime ==
  videoType = "Y4MFile" /\ capture = "capturing" => picture = FrameAt(now) % Frames

\* A file that is whole is played for ever: no call of GetFrame returns an error, for
\* pos_ and the file stand at the frame that is next (y4m_reader.cpp:41-92, 220-247).
WholeFileIsPlayed ==
  /\ ReadHeader /\ Frames > 0 /\ file.cut = 0 => reading # "failed"
  /\ reading = "idle" => pos = ftell /\ pos = Offset(frame % (IF Frames = 0 THEN 1 ELSE Frames))

\* Unless it is stopped, a video of which nothing is cut goes on: every GetFrame
\* returns, however many frames it has to skip (fake_video_capturer.cpp:52-108).
VideoFlows ==
  []<>(\/ capture = "capturing" \/ stopped
       \/ videoType = "Y4MFile" /\ ~(ReadHeader /\ Frames > 0 /\ file.cut = 0))
=============================================================================
