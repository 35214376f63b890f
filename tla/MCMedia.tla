------------------------------ MODULE MCMedia ------------------------------
(* The two threads of fake media, which share nothing, one at a time: the audio device is
   not in use while there is a capturer, and the capturer is gone while there is a device. *)
EXTENDS AudioDevice, VideoCapturer

VARIABLE subject

mediaVars == <<subject, vars, videoVars>>

AudioIdle == Init /\ type = "External"

VideoIdle ==
  /\ Y4MInit /\ file = [tokens |-> Tokens, headers |-> << >>, cut |-> 0]
  /\ videoType = "Drawn" /\ capture = "over"
  /\ stopped = TRUE /\ now = 0 /\ owner = "gone"

MediaInit ==
  \/ subject = "audio" /\ Init /\ VideoIdle
  \/ subject = "video" /\ AudioIdle /\ CaptureInit

MediaNext ==
  /\ UNCHANGED subject
  /\ \/ subject = "audio" /\ Next /\ UNCHANGED videoVars
     \/ subject = "video" /\ CaptureNext /\ UNCHANGED vars

\* Nothing of what is idle is enabled, so that fairness asks for nothing there.
MediaSpec == MediaInit /\ [][MediaNext]_mediaVars /\ Fairness /\ CaptureFairness
=============================================================================
