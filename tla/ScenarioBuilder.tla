--------------------------- MODULE ScenarioBuilder ---------------------------
(***************************************************************************)
(* src/src/zakuro.cpp:518-604 and the operations of                        *)
(* src/src/scenario_player.h:19-77: the scenario every client of an        *)
(* instance plays, as a function of the instance's configuration.          *)
(*                                                                         *)
(* A configuration is a record                                             *)
(*   trigger   is there a key trigger (no --fake-audio-capture)?           *)
(*   scenario  --scenario: "none" or "reconnect"                           *)
(*   lasts     is --duration set?                                          *)
(*   repeats   is --repeat-interval set?                                   *)
(*   channels  the labels of the data channels the instance sends on       *)
(*                                                                         *)
(* Left out: how long a sleep is and how large a message.  Operation       *)
(* indices are those of the code, from 0.                                  *)
(***************************************************************************)
EXTENDS Naturals, Sequences

Sleep == [op |-> "sleep"]
PlayVoice == [op |-> "voice"]
Disconnect == [op |-> "disconnect"]
Reconnect == [op |-> "reconnect"]
Exit == [op |-> "exit"]
Send(label) == [op |-> "send", label |-> label]
PlaySub(player) == [op |-> "sub", player |-> player]

\* The name of the player of the sub scenario with voices; a data channel's player
\* is named by its label.
Voice == "voice"

\* The scenario the player of that name plays: its sleep, then its one operation,
\* for ever.
SubScenario(player) == <<Sleep, IF player = Voice THEN PlayVoice ELSE Send(player)>>

PlayChannels(config) == [i \in DOMAIN config.channels |-> PlaySub(config.channels[i])]

\* The name of the main player.
Main == "main"

\* No label names one of the other players: the code has a prefix for each kind.
IsConfiguration(config) ==
  /\ {config.trigger, config.lasts, config.repeats} \subseteq BOOLEAN
  /\ config.scenario \in {"none", "reconnect"}
  /\ config.channels \in Seq(STRING)
  /\ \A i \in DOMAIN config.channels : config.channels[i] \notin {Main, Voice}

LabelsDiffer(config) ==
  \A i, j \in DOMAIN config.channels : config.channels[i] = config.channels[j] => i = j

\* Mutant: --duration is not looked at.
CycleWithoutDuration(config) == <<Sleep>>

\* add_reconnect_scenario.
Cycle(config) ==
  IF ~config.lasts THEN <<Sleep>>
  ELSE <<Sleep, Disconnect>> \o IF config.repeats THEN <<Sleep, Reconnect>> ELSE <<Exit>>

\* --scenario=reconnect: voices between sleeps, nine of the one and eight of the other.
VoiceLoop ==
  [i \in 1 .. 17 |-> IF i % 2 = 1 THEN Sleep ELSE PlayVoice]

Scenario(config) ==
  IF config.trigger /\ config.scenario = "reconnect"
    THEN <<Reconnect>> \o VoiceLoop
    ELSE <<Reconnect>> \o PlayChannels(config)
           \o (IF config.trigger THEN <<PlaySub(Voice)>> ELSE <<>>)
           \o Cycle(config)

\* Mutant: the loop starts one operation too early.
LoopIndexTooLow(config) ==
  IF config.trigger /\ config.scenario = "reconnect" THEN 1
  ELSE Len(config.channels) + IF config.trigger THEN 2 ELSE 1

\* The index the player goes back to at the end, in the scenario with the client's
\* own wait put before it: the sleep after the operations done only once.
LoopIndex(config) ==
  IF config.trigger /\ config.scenario = "reconnect" THEN 1
  ELSE 1 + Len(config.channels) + (IF config.trigger THEN 1 ELSE 0) + 1

\* What client i is given to play: its place in the hatch, then the scenario.
ClientScenario(config) == <<Sleep>> \o Scenario(config)

\* The players of the sub scenarios.
SubPlayers(config) ==
  {config.channels[i] : i \in DOMAIN config.channels} \cup
    IF config.trigger /\ config.scenario = "none" THEN {Voice} ELSE {}
=============================================================================
