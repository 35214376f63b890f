------------------------------ MODULE GameAudio ------------------------------
(***************************************************************************)
(* src/src/game/game_audio.h: the buffer from which the audio thread       *)
(* renders what scenarios and keys play.  Both lock mutex_, so each is one *)
(* step.  Play() that adds a tone is not called by anything.               *)
(*                                                                         *)
(* The k-th sample of the voice v is <<v, k>>.                             *)
(***************************************************************************)
EXTENDS Naturals, Sequences

CONSTANTS
  VoiceLength,  \* samples of a voice
  MaxVoices     \* bound: voices played

ASSUME VoiceAssumption == VoiceLength \in Nat /\ MaxVoices \in Nat

Silence == <<0, 0>>

Samples == {Silence} \union ((1 .. MaxVoices) \X (1 .. VoiceLength))

VARIABLES
  gameBuf,  \* buf_
  voices    \* voices played so far

gameVars == <<gameBuf, voices>>

GameTypeOK ==
  /\ gameBuf \in Seq(Samples) /\ Len(gameBuf) <= VoiceLength
  /\ voices \in 0 .. MaxVoices

GameInit == gameBuf = << >> /\ voices = 0

\* assign: what is left of the voice before is dropped.
Play ==
  /\ voices < MaxVoices
  /\ voices' = voices + 1
  /\ gameBuf' = [k \in 1 .. VoiceLength |-> <<voices + 1, k>>]

\* The block that Render fills.
Rendered(size) ==
  [k \in 1 .. size |-> IF k <= Len(gameBuf) THEN gameBuf[k] ELSE Silence]

\* Mutant: what has been copied is not erased.
RenderKeeps(size) == UNCHANGED gameVars

Render(size) ==
  /\ gameBuf' = SubSeq(gameBuf, size + 1, Len(gameBuf))
  /\ UNCHANGED voices
=============================================================================
