------------------------- MODULE ScenarioPlayerProofs -------------------------
(***************************************************************************)
(* Proofs about ScenarioPlayer, for any number of clients, any pool of     *)
(* sessions, any configurations and any number of keys.                    *)
(***************************************************************************)
EXTENDS ScenarioPlayer, VirtualClientProofs, SequenceTheorems, FiniteSetTheorems

-----------------------------------------------------------------------------
(* The scenarios (ScenarioBuilder). *)

\* The operations of a main scenario.
Operations(g) ==
  {Sleep, PlayVoice, Disconnect, Reconnect, Exit} \cup {PlaySub(q) : q \in SubPlayers(g)}

\* --scenario=reconnect, which has no part that is done only once.
ReconnectScenario(g) == g.trigger /\ g.scenario = "reconnect"

\* Where it is not chosen: the operations done once, before the loop.
Once(g) == PlayChannels(g) \o (IF g.trigger THEN <<PlaySub(Voice)>> ELSE <<>>)

\* A sub scenario is known by its player.
LEMMA PlaysOne == ASSUME NEW p, NEW q, PlaySub(p) = PlaySub(q) PROVE p = q
  <1>1. PlaySub(p).player = PlaySub(q).player
    OBVIOUS
  <1> QED BY <1>1 DEF PlaySub

\* The parts of what is done once.
LEMMA OncePartsTyped ==
  ASSUME NEW g \in Configs, ~ReconnectScenario(g)
  PROVE  LET n == Len(g.channels)
             ch == PlayChannels(g)
             voice == IF g.trigger THEN <<PlaySub(Voice)>> ELSE <<>>
         IN /\ n \in Nat /\ DOMAIN g.channels = 1 .. n /\ g.trigger \in BOOLEAN
            /\ \A i \in 1 .. n : g.channels[i] \in SubPlayers(g) /\ g.channels[i] # Voice
            /\ g.trigger => Voice \in SubPlayers(g)
            /\ ch \in Seq(Operations(g)) /\ Len(ch) = n
            /\ \A i \in 1 .. n : ch[i] = PlaySub(g.channels[i])
            /\ voice \in Seq(Operations(g)) /\ Len(voice) = IF g.trigger THEN 1 ELSE 0
            /\ g.trigger => voice[1] = PlaySub(Voice)
  <1> DEFINE ch == PlayChannels(g)
             voice == IF g.trigger THEN <<PlaySub(Voice)>> ELSE <<>>
             n == Len(g.channels)
  <1>1. /\ g.channels \in Seq(STRING) /\ n \in Nat /\ DOMAIN g.channels = 1 .. n
        /\ \A i \in 1 .. n : g.channels[i] \in STRING /\ g.channels[i] # Voice
        /\ g.trigger \in BOOLEAN /\ g.scenario \in {"none", "reconnect"}
    <2>1. g.channels \in Seq(STRING)
      BY ConfigsAssumption DEF IsConfiguration
    <2>2. /\ n \in Nat /\ DOMAIN g.channels = 1 .. n
          /\ \A i \in 1 .. n : g.channels[i] \in STRING
      BY <2>1, LenProperties
    <2> QED BY <2>1, <2>2, ConfigsAssumption DEF IsConfiguration
  <1>2. /\ \A i \in 1 .. n : g.channels[i] \in SubPlayers(g)
        /\ g.trigger => Voice \in SubPlayers(g)
    BY <1>1 DEF SubPlayers, ReconnectScenario
  <1>3. /\ ch \in Seq(Operations(g)) /\ Len(ch) = n
        /\ \A i \in 1 .. n : ch[i] = PlaySub(g.channels[i])
    BY <1>1, <1>2 DEF PlayChannels, Operations
  <1>4. /\ voice \in Seq(Operations(g)) /\ Len(voice) = IF g.trigger THEN 1 ELSE 0
        /\ g.trigger => voice[1] = PlaySub(Voice)
    <2>1. CASE g.trigger
      BY <1>2, <2>1 DEF Operations
    <2>2. CASE ~g.trigger
      BY <2>2
    <2> QED BY <2>1, <2>2
  <1> QED BY <1>1, <1>2, <1>3, <1>4

\* The scenario that plays sub scenarios consists of three parts.
LEMMA OnceShape ==
  ASSUME NEW g \in Configs, ~ReconnectScenario(g)
  PROVE  /\ Once(g) \in Seq(Operations(g))
         /\ Len(Once(g)) = LoopIndex(g) - 2
         /\ LoopIndex(g) \in Nat /\ LoopIndex(g) >= 2
         /\ \A k \in 1 .. Len(Once(g)) :
              \E q \in SubPlayers(g) : Once(g)[k] = PlaySub(q)
         /\ LabelsDiffer(g) =>
              \A j, k \in 1 .. Len(Once(g)) : Once(g)[j] = Once(g)[k] => j = k
  <1> DEFINE ch == PlayChannels(g)
             voice == IF g.trigger THEN <<PlaySub(Voice)>> ELSE <<>>
             n == Len(g.channels)
  <1>1. /\ n \in Nat /\ DOMAIN g.channels = 1 .. n /\ g.trigger \in BOOLEAN
        /\ \A i \in 1 .. n : g.channels[i] \in SubPlayers(g) /\ g.channels[i] # Voice
        /\ g.trigger => Voice \in SubPlayers(g)
    BY OncePartsTyped
  <1>3. /\ ch \in Seq(Operations(g)) /\ Len(ch) = n
        /\ \A i \in 1 .. n : ch[i] = PlaySub(g.channels[i])
    BY OncePartsTyped
  <1>4. /\ voice \in Seq(Operations(g)) /\ Len(voice) = IF g.trigger THEN 1 ELSE 0
        /\ g.trigger => voice[1] = PlaySub(Voice)
    BY OncePartsTyped
  <1>5. Once(g) = ch \o voice
    BY DEF Once
  <1> HIDE DEF ch, voice
  <1>6. /\ Once(g) \in Seq(Operations(g)) /\ Len(Once(g)) = n + Len(voice)
        /\ \A i \in 1 .. n : Once(g)[i] = PlaySub(g.channels[i])
        /\ g.trigger => Once(g)[n + 1] = PlaySub(Voice)
    <2>1. /\ ch \o voice \in Seq(Operations(g)) /\ Len(ch \o voice) = Len(ch) + Len(voice)
          /\ \A i \in 1 .. Len(ch) + Len(voice) : (ch \o voice)[i] =
                     IF i <= Len(ch) THEN ch[i] ELSE voice[i - Len(ch)]
      BY <1>3, <1>4, ConcatProperties
    <2> QED BY <1>1, <1>3, <1>4, <1>5, <2>1
  <1> HIDE DEF n
  <1>7. LoopIndex(g) = 2 + Len(Once(g))
    <2>1. LoopIndex(g) = 1 + n + (IF g.trigger THEN 1 ELSE 0) + 1
      BY DEF LoopIndex, ReconnectScenario, n
    <2> QED BY <1>1, <1>4, <1>6, <2>1
  <1>8. \A k \in 1 .. Len(Once(g)) : k \in 1 .. n \/ (g.trigger /\ k = n + 1)
    BY <1>1, <1>4, <1>6
  <1>9. ASSUME LabelsDiffer(g), NEW j \in 1 .. Len(Once(g)), NEW k \in 1 .. Len(Once(g)),
               Once(g)[j] = Once(g)[k]
        PROVE  j = k
    <2>1. \A p, q : PlaySub(p) = PlaySub(q) => p = q
      BY PlaysOne
    <2>2. \A i \in 1 .. n : Once(g)[i] # PlaySub(Voice)
      BY <1>1, <1>6, <2>1
    <2> QED BY <1>1, <1>6, <1>8, <1>9, <2>1, <2>2 DEF LabelsDiffer
  <1> QED BY <1>1, <1>4, <1>6, <1>7, <1>8, <1>9

\* The part of the scenario that is done again and again.
LEMMA CycleShape ==
  ASSUME NEW g \in Configs
  PROVE  /\ Cycle(g) \in Seq(Operations(g))
         /\ Cycle(g)[1] = Sleep
         /\ ~g.lasts => Len(Cycle(g)) = 1
         /\ g.lasts => Cycle(g)[2] = Disconnect
         /\ g.lasts /\ ~g.repeats => Len(Cycle(g)) = 3 /\ Cycle(g)[3] = Exit
         /\ g.lasts /\ g.repeats =>
              Len(Cycle(g)) = 4 /\ Cycle(g)[3] = Sleep /\ Cycle(g)[4] = Reconnect
  <1> {Sleep, PlayVoice, Disconnect, Reconnect, Exit} \subseteq Operations(g)
    BY DEF Operations
  <1>1. CASE ~g.lasts
    BY <1>1 DEF Cycle
  <1>2. CASE g.lasts /\ g.repeats
    <2>1. Cycle(g) = <<Sleep, Disconnect>> \o <<Sleep, Reconnect>>
      BY <1>2 DEF Cycle
    <2> HIDE DEF Sleep, Disconnect, Reconnect
    <2> QED BY <1>2, <2>1
  <1>3. CASE g.lasts /\ ~g.repeats
    <2>1. Cycle(g) = <<Sleep, Disconnect>> \o <<Exit>>
      BY <1>3 DEF Cycle
    <2> QED BY <1>3, <2>1
  <1> QED BY <1>1, <1>2, <1>3

\* A client's scenario: its place in the hatch, its first connection, the sub scenarios,
\* and from LoopIndex on the cycle (zakuro.cpp:559-604).
LEMMA ScenarioShape ==
  ASSUME NEW g \in Configs, ~ReconnectScenario(g)
  PROVE  LET s == ClientScenario(g)
             l == LoopIndex(g)
         IN /\ s \in Seq(Operations(g))
            /\ Len(s) = l + Len(Cycle(g))
            /\ s[1] = Sleep /\ s[2] = Reconnect
            /\ \A k \in 3 .. l : s[k] = Once(g)[k - 2]
            /\ \A k \in 1 .. Len(Cycle(g)) : s[l + k] = Cycle(g)[k]
  <1> DEFINE T == Operations(g)
             ch == PlayChannels(g)
             voice == IF g.trigger THEN <<PlaySub(Voice)>> ELSE <<>>
             first == <<Reconnect>> \o Once(g)
             l == LoopIndex(g)
             n == Len(Cycle(g))
  <1>1. Sleep \in T /\ Reconnect \in T
    BY DEF Operations
  <1>2. <<Sleep>> \in Seq(T) /\ <<Reconnect>> \in Seq(T)
    BY <1>1
  <1>3. Cycle(g) \in Seq(T) /\ n \in Nat
    BY CycleShape, LenProperties
  <1>4. Once(g) \in Seq(T) /\ Len(Once(g)) = l - 2 /\ l \in Nat /\ l >= 2
    BY OnceShape
  <1>5. ClientScenario(g) = <<Sleep>> \o (first \o Cycle(g))
    <2>1. ch \in Seq(T) /\ voice \in Seq(T)
      BY OncePartsTyped
    <2>2. (<<Reconnect>> \o ch) \o voice = <<Reconnect>> \o (ch \o voice)
      BY <1>2, <2>1, ConcatAssociative
    <2>3. Scenario(g) = ((<<Reconnect>> \o ch) \o voice) \o Cycle(g)
      BY DEF Scenario, ReconnectScenario
    <2> QED BY <2>2, <2>3 DEF Once, ClientScenario
  <1> HIDE DEF T, first, l, n
  <1>6. /\ first \in Seq(T) /\ Len(first) = l - 1
        /\ first[1] = Reconnect
        /\ \A k \in 2 .. l - 1 : first[k] = Once(g)[k - 1]
    BY <1>2, <1>4, ConcatProperties DEF first
  <1>7. /\ first \o Cycle(g) \in Seq(T) /\ Len(first \o Cycle(g)) = l - 1 + n
        /\ \A k \in 1 .. l - 1 : (first \o Cycle(g))[k] = first[k]
        /\ \A k \in 1 .. n : (first \o Cycle(g))[l - 1 + k] = Cycle(g)[k]
    <2> DEFINE c == Cycle(g)
    <2> HIDE DEF c
    <2>1. /\ first \o c \in Seq(T) /\ Len(first \o c) = Len(first) + Len(c)
          /\ \A i \in 1 .. Len(first) + Len(c) : (first \o c)[i] =
                     IF i <= Len(first) THEN first[i] ELSE c[i - Len(first)]
      BY <1>3, <1>6, ConcatProperties DEF c
    <2>2. Len(c) = n
      BY DEF c, n
    <2>3. ASSUME NEW k \in 1 .. n PROVE (first \o c)[l - 1 + k] = c[k]
      <3>1. l - 1 + k \in 1 .. Len(first) + Len(c)
        BY <1>3, <1>4, <1>6, <2>2
      <3>2. ~(l - 1 + k <= Len(first)) /\ (l - 1 + k) - Len(first) = k
        BY <1>3, <1>4, <1>6
      <3> QED BY <2>1, <3>1, <3>2
    <2> QED BY <1>3, <1>4, <1>6, <2>1, <2>2, <2>3 DEF c
  <1>8. /\ ClientScenario(g) \in Seq(T)
        /\ Len(ClientScenario(g)) = l + n
        /\ ClientScenario(g)[1] = Sleep
        /\ \A k \in 1 .. l - 1 + n : ClientScenario(g)[k + 1] = (first \o Cycle(g))[k]
    <2> DEFINE r == first \o Cycle(g)
    <2> HIDE DEF r
    <2>1. /\ <<Sleep>> \o r \in Seq(T) /\ Len(<<Sleep>> \o r) = 1 + Len(r)
          /\ \A i \in 1 .. 1 + Len(r) : (<<Sleep>> \o r)[i] =
                     IF i <= 1 THEN Sleep ELSE r[i - 1]
      BY <1>2, <1>7, ConcatProperties DEF r
    <2>2. Len(r) = l - 1 + n /\ ClientScenario(g) = <<Sleep>> \o r
      BY <1>5, <1>7 DEF r
    <2> QED BY <1>3, <1>4, <2>1, <2>2 DEF r
  <1>9. ClientScenario(g)[2] = Reconnect
    BY <1>3, <1>4, <1>6, <1>7, <1>8
  <1>10. \A k \in 3 .. l : ClientScenario(g)[k] = Once(g)[k - 2]
    <2> SUFFICES ASSUME NEW k \in 3 .. l PROVE ClientScenario(g)[k] = Once(g)[k - 2]
      OBVIOUS
    <2>1. k - 1 \in 1 .. l - 1 + n /\ k - 1 \in 2 .. l - 1 /\ (k - 1) + 1 = k /\ (k - 1) - 1 = k - 2
      BY <1>3, <1>4
    <2>2. ClientScenario(g)[(k - 1) + 1] = (first \o Cycle(g))[k - 1]
      BY <1>8, <2>1
    <2>3. (first \o Cycle(g))[k - 1] = first[k - 1] /\ first[k - 1] = Once(g)[(k - 1) - 1]
      BY <1>4, <1>6, <1>7, <2>1
    <2> QED BY <2>1, <2>2, <2>3
  <1>11. \A k \in 1 .. n : ClientScenario(g)[l + k] = Cycle(g)[k]
    <2> SUFFICES ASSUME NEW k \in 1 .. n PROVE ClientScenario(g)[l + k] = Cycle(g)[k]
      OBVIOUS
    <2>1. l - 1 + k \in 1 .. l - 1 + n /\ (l - 1 + k) + 1 = l + k
      BY <1>3, <1>4
    <2>2. ClientScenario(g)[(l - 1 + k) + 1] = (first \o Cycle(g))[l - 1 + k]
      BY <1>8, <2>1
    <2> QED BY <1>7, <2>1, <2>2
  <1> QED BY <1>8, <1>9, <1>10, <1>11 DEF T, l, n

\* --scenario=reconnect: the wait, and a loop that never closes anything.
LEMMA ReconnectShape ==
  ASSUME NEW g \in Configs, ReconnectScenario(g)
  PROVE  LET s == ClientScenario(g)
         IN /\ s \in Seq(Operations(g)) /\ Len(s) = 19 /\ LoopIndex(g) = 1
            /\ s[1] = Sleep
            /\ \A k \in 1 .. 19 : s[k] \in {Sleep, PlayVoice, Reconnect}
  <1> DEFINE T == {Sleep, PlayVoice, Reconnect}
             loop == VoiceLoop
             wait == <<Sleep>>
             first == <<Reconnect>>
  <1>1. loop \in Seq(T) /\ Len(loop) = 17
    BY DEF VoiceLoop
  <1>2. ClientScenario(g) = wait \o (first \o loop) /\ LoopIndex(g) = 1
    BY DEF ClientScenario, Scenario, ReconnectScenario, LoopIndex
  <1>3. /\ wait \in Seq(T) /\ Len(wait) = 1 /\ wait[1] = Sleep
        /\ first \in Seq(T) /\ Len(first) = 1
    OBVIOUS
  <1> HIDE DEF T, loop, wait, first
  <1>4. first \o loop \in Seq(T) /\ Len(first \o loop) = 18
    <2>1. first \o loop \in Seq(T) /\ Len(first \o loop) = Len(first) + Len(loop)
      BY <1>1, <1>3, ConcatProperties
    <2> QED BY <1>1, <1>3, <2>1
  <1>5. ClientScenario(g) \in Seq(T) /\ Len(ClientScenario(g)) = 19
    <2> DEFINE r == first \o loop
    <2> HIDE DEF r
    <2>1. wait \o r \in Seq(T) /\ Len(wait \o r) = Len(wait) + Len(r)
      BY <1>3, <1>4, ConcatProperties DEF r
    <2> QED BY <1>2, <1>3, <1>4, <2>1 DEF r
  <1>6. \A k \in 1 .. 19 : ClientScenario(g)[k] \in T
    BY <1>5, ElementOfSeq
  <1>7. ClientScenario(g)[1] = Sleep
    BY <1>2, <1>3, <1>4, ConcatProperties
  <1>8. T \subseteq Operations(g)
    BY DEF T, Operations
  <1>9. ClientScenario(g) \in Seq(Operations(g))
    BY <1>5, <1>8, SeqMonotonic
  <1> QED BY <1>2, <1>5, <1>6, <1>7, <1>9 DEF T

-----------------------------------------------------------------------------
(* The same by operation index, as the player looks them up. *)

MainOp(g, k) == ClientScenario(g)[k + 1]

\* The configurations whose clients leave for good, and those whose clients come back.
Exits(g) == g.lasts /\ ~g.repeats /\ ~ReconnectScenario(g)
Returns(g) == g.lasts /\ g.repeats /\ ~ReconnectScenario(g)

\* The loop begins inside the scenario, after the client's wait.
LEMMA LoopInside ==
  ASSUME NEW g \in Configs
  PROVE  LET n == Len(ClientScenario(g))
         IN /\ n \in Nat /\ LoopIndex(g) \in Nat
            /\ 1 <= LoopIndex(g) /\ LoopIndex(g) < n
            /\ \A k \in 0 .. n - 1 : MainOp(g, k) \in Operations(g)
  <1> DEFINE s == ClientScenario(g)
  <1>1. s \in Seq(Operations(g)) /\ LoopIndex(g) \in Nat /\ 1 <= LoopIndex(g) /\ LoopIndex(g) < Len(s)
    <2>1. CASE ReconnectScenario(g)
      <3>1. s \in Seq(Operations(g)) /\ Len(s) = 19 /\ LoopIndex(g) = 1
        BY <2>1, ReconnectShape
      <3> QED BY <3>1
    <2> HIDE DEF s
    <2>2. CASE ~ReconnectScenario(g)
      <3>1. Len(Cycle(g)) \in Nat /\ Len(Cycle(g)) > 0
        <4>1. g.lasts \in BOOLEAN /\ g.repeats \in BOOLEAN
          BY ConfigsAssumption DEF IsConfiguration
        <4> QED BY <4>1, CycleShape
      <3>2. s \in Seq(Operations(g)) /\ Len(s) = LoopIndex(g) + Len(Cycle(g))
        BY <2>2, ScenarioShape DEF s
      <3>3. LoopIndex(g) \in Nat /\ LoopIndex(g) >= 2
        BY <2>2, OnceShape
      <3> QED BY <3>1, <3>2, <3>3
    <2> QED BY <2>1, <2>2
  <1> HIDE DEF s
  <1>2. Len(s) \in Nat /\ \A i \in 1 .. Len(s) : s[i] \in Operations(g)
    BY <1>1, LenProperties, ElementOfSeq
  <1>3. ASSUME NEW k \in 0 .. Len(s) - 1 PROVE s[k + 1] \in Operations(g)
    <2>1. k + 1 \in 1 .. Len(s)
      BY <1>2
    <2> QED BY <1>2, <2>1
  <1> QED BY <1>1, <1>2, <1>3 DEF s, MainOp

\* What the operations of the parts are.
LEMMA OpNames ==
  /\ Sleep.op = "sleep" /\ PlayVoice.op = "voice" /\ Disconnect.op = "disconnect"
  /\ Reconnect.op = "reconnect" /\ Exit.op = "exit"
  /\ \A q : PlaySub(q).op = "sub" /\ PlaySub(q).player = q
  BY DEF Sleep, PlayVoice, Disconnect, Reconnect, Exit, PlaySub

\* No sub scenario is played by the main player.
LEMMA SubIsNotMain ==
  ASSUME NEW g \in Configs, NEW q \in SubPlayers(g) PROVE q # Main
  <1>1. \A i \in DOMAIN g.channels : g.channels[i] # Main
    BY ConfigsAssumption DEF IsConfiguration
  <1>2. Voice # Main
    BY DEF Voice, Main
  <1> QED BY <1>1, <1>2 DEF SubPlayers

\* Every index of a scenario without --scenario=reconnect is in one of its parts.
LEMMA MainParts ==
  ASSUME NEW g \in Configs, ~ReconnectScenario(g),
         NEW k \in 0 .. Len(ClientScenario(g)) - 1
  PROVE  \/ k = 0 /\ MainOp(g, k) = Sleep
         \/ k = 1 /\ MainOp(g, k) = Reconnect
         \/ /\ k \in 2 .. LoopIndex(g) - 1
            /\ k - 1 \in 1 .. Len(Once(g)) /\ MainOp(g, k) = Once(g)[k - 1]
         \/ /\ k - LoopIndex(g) + 1 \in 1 .. Len(Cycle(g))
            /\ MainOp(g, k) = Cycle(g)[k - LoopIndex(g) + 1]
  <1> DEFINE s == ClientScenario(g)
             l == LoopIndex(g)
             n == Len(Cycle(g))
  <1>1. /\ s[1] = Sleep /\ s[2] = Reconnect /\ Len(s) = l + n
        /\ \A j \in 3 .. l : s[j] = Once(g)[j - 2]
        /\ \A j \in 1 .. n : s[l + j] = Cycle(g)[j]
    BY ScenarioShape
  <1>2. l \in Nat /\ l >= 2 /\ Len(Once(g)) = l - 2
    BY OnceShape
  <1>3. n \in Nat
    BY CycleShape, LenProperties
  <1> HIDE DEF s, l, n
  <1>4. k \in Int /\ k >= 0 /\ k < l + n
    BY <1>1, <1>2, <1>3 DEF s
  <1>5. CASE k < 2
    BY <1>1, <1>4, <1>5 DEF MainOp, s
  <1>6. CASE k \in 2 .. l - 1
    <2>1. k + 1 \in 3 .. l /\ (k + 1) - 2 = k - 1
      BY <1>2, <1>6
    <2> QED BY <1>1, <1>2, <1>6, <2>1 DEF MainOp, s, l
  <1>7. CASE k >= l
    <2>1. k - l + 1 \in 1 .. n /\ l + (k - l + 1) = k + 1
      BY <1>2, <1>3, <1>4, <1>7
    <2> QED BY <1>1, <2>1 DEF MainOp, s, l, n
  <1> QED BY <1>2, <1>4, <1>5, <1>6, <1>7

\* Sub scenarios are only started before the loop, each one once if the labels differ.
LEMMA SubOps ==
  ASSUME NEW g \in Configs, NEW k \in 0 .. Len(ClientScenario(g)) - 1,
         MainOp(g, k).op = "sub"
  PROVE  /\ k \in 2 .. LoopIndex(g) - 1
         /\ MainOp(g, k).player \in SubPlayers(g)
         /\ MainOp(g, k).player # Main
         /\ LabelsDiffer(g) =>
              \A j \in 0 .. Len(ClientScenario(g)) - 1 :
                /\ MainOp(g, j).op = "sub"
                /\ MainOp(g, j).player = MainOp(g, k).player
                => j = k
  <1>1. ~ReconnectScenario(g)
    <2> SUFFICES ASSUME ReconnectScenario(g) PROVE FALSE
      OBVIOUS
    <2>0. Len(ClientScenario(g)) = 19
      BY ReconnectShape
    <2>1. k + 1 \in 1 .. 19
      BY <2>0
    <2> QED BY <2>1, ReconnectShape, OpNames DEF MainOp
  <1>2. /\ \A i \in 1 .. Len(Once(g)) : \E q \in SubPlayers(g) : Once(g)[i] = PlaySub(q)
        /\ LabelsDiffer(g) =>
             \A i, j \in 1 .. Len(Once(g)) : Once(g)[i] = Once(g)[j] => i = j
        /\ LoopIndex(g) \in Nat
    BY <1>1, OnceShape
  <1>3. \A i \in 1 .. Len(Cycle(g)) : Cycle(g)[i].op # "sub"
    <2>1. g.lasts \in BOOLEAN /\ g.repeats \in BOOLEAN
      BY ConfigsAssumption DEF IsConfiguration
    <2>2. \A i \in 1 .. Len(Cycle(g)) : Cycle(g)[i] \in {Sleep, Disconnect, Exit, Reconnect}
      <3>1. CASE ~g.lasts
        BY <3>1, CycleShape
      <3>2. CASE g.lasts /\ g.repeats
        BY <3>2, CycleShape
      <3>3. CASE g.lasts /\ ~g.repeats
        BY <3>3, CycleShape
      <3> QED BY <2>1, <3>1, <3>2, <3>3
    <2> QED BY <2>2, OpNames
  <1>4. ASSUME NEW j \in 0 .. Len(ClientScenario(g)) - 1, MainOp(g, j).op = "sub"
        PROVE  /\ j \in 2 .. LoopIndex(g) - 1
               /\ j - 1 \in 1 .. Len(Once(g)) /\ MainOp(g, j) = Once(g)[j - 1]
    <2>1. MainOp(g, j) # Sleep /\ MainOp(g, j) # Reconnect
      BY <1>4, OpNames
    <2> QED BY <1>1, <1>3, <1>4, <2>1, MainParts
  <1>5. PICK q \in SubPlayers(g) : MainOp(g, k) = PlaySub(q)
    BY <1>2, <1>4
  <1>6. ASSUME LabelsDiffer(g), NEW j \in 0 .. Len(ClientScenario(g)) - 1,
               MainOp(g, j).op = "sub", MainOp(g, j).player = MainOp(g, k).player
        PROVE  j = k
    <2>1. PICK p \in SubPlayers(g) : MainOp(g, j) = PlaySub(p)
      BY <1>2, <1>4, <1>6
    <2>2. MainOp(g, j) = MainOp(g, k)
      BY <1>5, <1>6, <2>1, OpNames
    <2>3. j - 1 = k - 1
      BY <1>2, <1>4, <1>6, <2>2
    <2>4. j \in Int /\ k \in Int
      OBVIOUS
    <2> QED BY <2>3, <2>4
  <1>7. MainOp(g, k).player = q /\ q # Main
    BY <1>5, OpNames, SubIsNotMain
  <1> QED BY <1>4, <1>5, <1>6, <1>7

\* With a duration and no interval: the wait, the first connection, the sub scenarios,
\* then for ever a sleep, a disconnect and the exit.
LEMMA ExitOps ==
  ASSUME NEW g \in Configs, Exits(g), NEW k \in 0 .. Len(ClientScenario(g)) - 1
  PROVE  LET op == MainOp(g, k).op
             l == LoopIndex(g)
         IN /\ l \in Nat /\ l >= 2 /\ Len(ClientScenario(g)) = l + 3
            /\ op = "reconnect" <=> k = 1
            /\ op = "sleep" <=> k \in {0, l}
            /\ op = "disconnect" <=> k = l + 1
            /\ op = "exit" <=> k = l + 2
  <1> DEFINE l == LoopIndex(g)
  <1>1. ~ReconnectScenario(g) /\ g.lasts /\ ~g.repeats
    BY DEF Exits
  <1>2. /\ Cycle(g)[1] = Sleep /\ Cycle(g)[2] = Disconnect /\ Cycle(g)[3] = Exit
        /\ Len(Cycle(g)) = 3
    BY <1>1, CycleShape
  <1>3. /\ l \in Nat /\ l >= 2
        /\ \A i \in 1 .. Len(Once(g)) : Once(g)[i].op = "sub"
    BY <1>1, OnceShape, OpNames
  <1>4. Len(ClientScenario(g)) = l + 3
    BY <1>1, <1>2, ScenarioShape
  <1> HIDE DEF l
  <1>5. \/ k = 0 /\ MainOp(g, k).op = "sleep"
        \/ k = 1 /\ MainOp(g, k).op = "reconnect"
        \/ k \in 2 .. l - 1 /\ MainOp(g, k).op = "sub"
        \/ k = l /\ MainOp(g, k).op = "sleep"
        \/ k = l + 1 /\ MainOp(g, k).op = "disconnect"
        \/ k = l + 2 /\ MainOp(g, k).op = "exit"
    <2>1. k \in Int
      OBVIOUS
    <2>2. \/ k = 0 /\ MainOp(g, k) = Sleep
          \/ k = 1 /\ MainOp(g, k) = Reconnect
          \/ /\ k \in 2 .. l - 1
             /\ k - 1 \in 1 .. Len(Once(g)) /\ MainOp(g, k) = Once(g)[k - 1]
          \/ k - l + 1 \in 1 .. 3 /\ MainOp(g, k) = Cycle(g)[k - l + 1]
      BY <1>1, <1>2, MainParts DEF l
    <2>3. ASSUME k - l + 1 \in 1 .. 3
          PROVE  \/ k = l /\ k - l + 1 = 1
                 \/ k = l + 1 /\ k - l + 1 = 2
                 \/ k = l + 2 /\ k - l + 1 = 3
      BY <1>3, <2>1, <2>3
    <2> QED BY <1>2, <1>3, <2>2, <2>3, OpNames
  <1> QED BY <1>3, <1>4, <1>5 DEF l

\* With an interval too: for ever a sleep, a disconnect, a sleep and a reconnect.
LEMMA ReturnOps ==
  ASSUME NEW g \in Configs, Returns(g), NEW k \in 0 .. Len(ClientScenario(g)) - 1
  PROVE  LET op == MainOp(g, k).op
             l == LoopIndex(g)
         IN /\ l \in Nat /\ l >= 2 /\ Len(ClientScenario(g)) = l + 4
            /\ op = "reconnect" <=> k \in {1, l + 3}
            /\ op = "sleep" <=> k \in {0, l, l + 2}
            /\ op = "disconnect" <=> k = l + 1
            /\ op # "exit"
  <1> DEFINE l == LoopIndex(g)
  <1>1. ~ReconnectScenario(g) /\ g.lasts /\ g.repeats
    BY DEF Returns
  <1>2. /\ Cycle(g)[1] = Sleep /\ Cycle(g)[2] = Disconnect
        /\ Cycle(g)[3] = Sleep /\ Cycle(g)[4] = Reconnect
        /\ Len(Cycle(g)) = 4
    BY <1>1, CycleShape
  <1>3. /\ l \in Nat /\ l >= 2
        /\ \A i \in 1 .. Len(Once(g)) : Once(g)[i].op = "sub"
    BY <1>1, OnceShape, OpNames
  <1>4. Len(ClientScenario(g)) = l + 4
    BY <1>1, <1>2, ScenarioShape
  <1> HIDE DEF l
  <1>5. \/ k = 0 /\ MainOp(g, k).op = "sleep"
        \/ k = 1 /\ MainOp(g, k).op = "reconnect"
        \/ k \in 2 .. l - 1 /\ MainOp(g, k).op = "sub"
        \/ k = l /\ MainOp(g, k).op = "sleep"
        \/ k = l + 1 /\ MainOp(g, k).op = "disconnect"
        \/ k = l + 2 /\ MainOp(g, k).op = "sleep"
        \/ k = l + 3 /\ MainOp(g, k).op = "reconnect"
    <2>1. k \in Int
      OBVIOUS
    <2>2. \/ k = 0 /\ MainOp(g, k) = Sleep
          \/ k = 1 /\ MainOp(g, k) = Reconnect
          \/ /\ k \in 2 .. l - 1
             /\ k - 1 \in 1 .. Len(Once(g)) /\ MainOp(g, k) = Once(g)[k - 1]
          \/ k - l + 1 \in 1 .. 4 /\ MainOp(g, k) = Cycle(g)[k - l + 1]
      BY <1>1, <1>2, MainParts DEF l
    <2>3. ASSUME k - l + 1 \in 1 .. 4
          PROVE  \/ k = l /\ k - l + 1 = 1
                 \/ k = l + 1 /\ k - l + 1 = 2
                 \/ k = l + 2 /\ k - l + 1 = 3
                 \/ k = l + 3 /\ k - l + 1 = 4
      BY <1>3, <2>1, <2>3
    <2> QED BY <1>2, <1>3, <2>2, <2>3, OpNames
  <1> QED BY <1>3, <1>4, <1>5 DEF l

\* Otherwise nobody is ever disconnected by the scenario.
LEMMA StayOps ==
  ASSUME NEW g \in Configs, ~Exits(g), ~Returns(g),
         NEW k \in 0 .. Len(ClientScenario(g)) - 1
  PROVE  MainOp(g, k).op \notin {"disconnect", "exit"}
  <1>1. g.lasts \in BOOLEAN /\ g.repeats \in BOOLEAN
    BY ConfigsAssumption DEF IsConfiguration
  <1>2. CASE ReconnectScenario(g)
    <2>0. Len(ClientScenario(g)) = 19
      BY <1>2, ReconnectShape
    <2>1. k + 1 \in 1 .. 19
      BY <2>0
    <2> QED BY <1>2, <2>1, ReconnectShape, OpNames DEF MainOp
  <1>3. CASE ~ReconnectScenario(g)
    <2>1. ~g.lasts
      BY <1>1, <1>3 DEF Exits, Returns
    <2>2. Len(Cycle(g)) = 1 /\ Cycle(g)[1] = Sleep
      BY <2>1, CycleShape
    <2>3. \A i \in 1 .. Len(Once(g)) : Once(g)[i].op = "sub"
      BY <1>3, OnceShape, OpNames
    <2>4. LoopIndex(g) \in Nat /\ k \in Int
      BY LoopInside
    <2>5. k - LoopIndex(g) + 1 \in 1 .. 1 => k - LoopIndex(g) + 1 = 1
      BY <2>4
    <2> QED BY <1>3, <2>2, <2>3, <2>5, MainParts, OpNames
  <1> QED BY <1>2, <1>3

-----------------------------------------------------------------------------
(* The clients' part: every step of the players is one of VirtualClient's,   *)
(* or leaves the clients alone.                                              *)

\* The players drive the clients only through their operations.
LEMMA ClientStep == [PlayerNext]_allVars => [Next]_vars
  <1> SUFFICES ASSUME [PlayerNext]_allVars PROVE [Next]_vars
    OBVIOUS
  <1> ExitCallback \in Callbacks
    BY ExitCallbackAssumption
  <1>1. ASSUME NEW p \in Players, NEW c \in Clients, OnNext(p, c) PROVE [Next]_vars
    <2>1. CASE OnOpDisconnect(p, c)
      BY <2>1 DEF OnOpDisconnect, Next
    <2>2. CASE OnOpReconnect(p, c)
      BY <2>2 DEF OnOpReconnect, Next
    <2>3. CASE OnOpExit(p, c)
      BY <2>3 DEF OnOpExit, Next
    <2>4. CASE OnSleep(p, c) \/ OnPlaySubScenario(p, c) \/ OnVoiceOrMessage(p, c)
      BY <2>4 DEF OnSleep, OnPlaySubScenario, OnVoiceOrMessage
    <2> QED BY <1>1, <2>1, <2>2, <2>3, <2>4 DEF OnNext
  <1>2. ASSUME NEW p \in Players, NEW c \in Clients, OnWoken(p, c) \/ Wakes(p, c)
        PROVE  [Next]_vars
    BY <1>2 DEF OnWoken, Wakes
  <1>3. CASE PauseAll \/ ResumeAll
    BY <1>3 DEF PauseAll, ResumeAll
  <1>4. ASSUME NEW c \in Clients, KeyClose(c) \/ KeyConnect(c) PROVE [Next]_vars
    BY <1>4 DEF KeyClose, KeyConnect, Next
  <1>5. ASSUME NEW h \in KeyHandlers, PressKey(h) PROVE [Next]_vars
    BY <1>5 DEF PressKey
  <1>6. ASSUME NEW s \in Sessions, SessionNotifies(s) \/ SessionEnds(s) PROVE [Next]_vars
    BY <1>6 DEF SessionNotifies, SessionEnds, Next
  <1>7. ASSUME NEW c \in Clients, RetryTimer(c) PROVE [Next]_vars
    BY <1>7 DEF RetryTimer, Next
  <1>8. CASE UNCHANGED allVars
    BY <1>8 DEF allVars
  <1> QED BY <1>1, <1>2, <1>3, <1>4, <1>5, <1>6, <1>7, <1>8 DEF PlayerNext, Handler

\* So the clients of an instance are as safe as any.
THEOREM PlayersKeepClientsSafe == PlayerSpec => []IInv
  <1>1. PlayerInit => IInv
    BY InitIInv DEF PlayerInit
  <1>2. IInv /\ [PlayerNext]_allVars => IInv'
    BY ClientStep, StepIInv
  <1> QED BY <1>1, <1>2, PTL DEF PlayerSpec

-----------------------------------------------------------------------------
(* The queue. *)

\* Taking a handler and posting others.
LEMMA RunsShape ==
  ASSUME ready \in Seq(Handlers), NEW h, NEW q \in Seq(Handlers), Runs(h, q)
  PROVE  /\ Running
         /\ Len(ready) \in Nat /\ Len(ready) > 0 /\ ready[1] = h
         /\ ready' \in Seq(Handlers)
         /\ Len(ready') = Len(ready) - 1 + Len(q)
         /\ \A i \in 1 .. Len(ready) - 1 : ready'[i] = ready[i + 1]
         /\ \A i \in 1 .. Len(q) : ready'[Len(ready) - 1 + i] = q[i]
  <1>1. Running /\ ready # <<>> /\ Head(ready) = h /\ ready' = Tail(ready) \o q
    BY DEF Runs
  <1>2. Len(ready) \in Nat /\ Len(ready) > 0 /\ ready[1] = h
    BY <1>1, EmptySeq, LenProperties
  <1> DEFINE t == Tail(ready)
  <1>3. /\ t \in Seq(Handlers) /\ Len(t) = Len(ready) - 1
        /\ \A i \in 1 .. Len(ready) - 1 : t[i] = ready[i + 1]
    BY <1>1, HeadTailProperties
  <1> HIDE DEF t
  <1>4. /\ t \o q \in Seq(Handlers) /\ Len(t \o q) = Len(t) + Len(q)
        /\ \A i \in 1 .. Len(t) + Len(q) : (t \o q)[i] =
                   IF i <= Len(t) THEN t[i] ELSE q[i - Len(t)]
    BY <1>3, ConcatProperties
  <1>5. ready' = t \o q
    BY <1>1 DEF t
  <1>6. Len(q) \in Nat
    BY LenProperties
  <1>7. ASSUME NEW i \in 1 .. Len(ready) - 1 PROVE ready'[i] = ready[i + 1]
    BY <1>2, <1>3, <1>4, <1>5, <1>6
  <1>8. ASSUME NEW i \in 1 .. Len(q) PROVE ready'[Len(ready) - 1 + i] = q[i]
    <2>1. /\ Len(ready) - 1 + i \in 1 .. Len(t) + Len(q)
          /\ ~(Len(ready) - 1 + i <= Len(t)) /\ (Len(ready) - 1 + i) - Len(t) = i
      BY <1>2, <1>3, <1>6
    <2> QED BY <1>4, <1>5, <2>1
  <1> QED BY <1>1, <1>2, <1>3, <1>4, <1>5, <1>7, <1>8

\* Posting from outside of the handlers.
LEMMA PostShape ==
  ASSUME ready \in Seq(Handlers), NEW h \in Handlers, ready' = Append(ready, h)
  PROVE  /\ Len(ready) \in Nat
         /\ ready' \in Seq(Handlers)
         /\ Len(ready') = Len(ready) + 1
         /\ \A i \in 1 .. Len(ready) : ready'[i] = ready[i]
         /\ ready'[Len(ready) + 1] = h
  BY AppendProperties, LenProperties

-----------------------------------------------------------------------------
(* Types. *)

\* Where the players look for their operations.
LEMMA PlayerOps ==
  ASSUME config \in Configs, NEW p \in Players
  PROVE  /\ Len(Ops(p)) \in Nat /\ LoopOf(p) \in Nat /\ LoopOf(p) < Len(Ops(p))
         /\ p # Main => Len(Ops(p)) = 2 /\ LoopOf(p) = 0
         /\ p # Main => \A k \in 0 .. 1 : Ops(p)[k + 1].op \in {"sleep", "voice", "send"}
  <1>1. CASE p = Main
    BY <1>1, LoopInside DEF Ops, LoopOf
  <1>2. CASE p # Main
    <2>1. Ops(p) = <<Sleep, IF p = Voice THEN PlayVoice ELSE Send(p)>> /\ LoopOf(p) = 0
      BY <1>2 DEF Ops, LoopOf, SubScenario
    <2>2. Len(Ops(p)) = 2
      BY <2>1
    <2>3. \A k \in 0 .. 1 : Ops(p)[k + 1].op \in {"sleep", "voice", "send"}
      BY <2>1 DEF Sleep, PlayVoice, Send
    <2> QED BY <1>2, <2>1, <2>2, <2>3
  <1> QED BY <1>1, <1>2

\* Only the main player starts sub scenarios.
LEMMA SubStart ==
  ASSUME PlayerTypeOK, NEW p \in Players, NEW c \in Clients, Op(p, c).op = "sub"
  PROVE  /\ p = Main /\ Op(p, c) = MainOp(config, opIndex[Main][c])
         /\ opIndex[Main][c] \in 2 .. LoopIndex(config) - 1
         /\ Op(p, c).player \in Players \ {Main}
  <1>1. config \in Configs /\ opIndex[p][c] \in Nat /\ opIndex[p][c] < Len(Ops(p))
    BY DEF PlayerTypeOK
  <1>2. p = Main
    <2> SUFFICES ASSUME p # Main PROVE FALSE
      OBVIOUS
    <2>0. Len(Ops(p)) = 2
      BY <1>1, PlayerOps
    <2>1. opIndex[p][c] \in 0 .. 1
      BY <1>1, <2>0
    <2> QED BY <1>1, <2>1, PlayerOps DEF Op
  <1>3. Op(p, c) = MainOp(config, opIndex[Main][c])
    BY <1>2 DEF Op, Ops, MainOp
  <1>4. opIndex[Main][c] \in 0 .. Len(ClientScenario(config)) - 1
    BY <1>1, <1>2, LoopInside DEF Ops
  <1>5. /\ opIndex[Main][c] \in 2 .. LoopIndex(config) - 1
        /\ Op(p, c).player \in SubPlayers(config) /\ Op(p, c).player # Main
    BY <1>1, <1>3, <1>4, SubOps
  <1> QED BY <1>1, <1>2, <1>3, <1>5 DEF Players

\* op_index stays inside the scenario.
LEMMA FollowingTyped ==
  ASSUME PlayerTypeOK, NEW p \in Players, NEW c \in Clients
  PROVE  Following(p, c) \in Nat /\ Following(p, c) < Len(Ops(p))
  <1>1. config \in Configs /\ opIndex[p][c] \in Nat /\ opIndex[p][c] < Len(Ops(p))
    BY DEF PlayerTypeOK
  <1> QED BY <1>1, PlayerOps DEF Following

\* What is posted is a handler.
LEMMA PostedTyped ==
  ASSUME NEW p \in Players, NEW c \in Clients
  PROVE  /\ OnNextOf(p, c) \in Handlers /\ WokenUp(p, c) \in Handlers
         /\ Posted(p, c) \in Seq(Handlers)
         /\ <<>> \in Seq(Handlers)
  <1>1. OnNextOf(p, c) \in Handlers /\ WokenUp(p, c) \in Handlers
    BY DEF OnNextOf, WokenUp, Handlers
  <1> QED BY <1>1 DEF Posted

\* The clients in their order.
LEMMA InOrderTyped ==
  /\ DOMAIN InOrder = 1 .. Cardinality(Clients) /\ Cardinality(Clients) \in Nat
  /\ \A i \in DOMAIN InOrder : InOrder[i] \in Clients /\ InOrder[i] = i - 1
  /\ \A c \in Clients : c + 1 \in DOMAIN InOrder /\ InOrder[c + 1] = c
  /\ [i \in DOMAIN InOrder |-> OnNextOf(Main, InOrder[i])] \in Seq(Handlers)
  <1>1. Cardinality(Clients) \in Nat
    BY ClientsAssumption, FS_CardinalityType
  <1>2. /\ DOMAIN InOrder = 1 .. Cardinality(Clients)
        /\ \A i \in DOMAIN InOrder : InOrder[i] \in Clients /\ InOrder[i] = i - 1
        /\ \A c \in Clients : c + 1 \in DOMAIN InOrder /\ InOrder[c + 1] = c
    BY <1>1, ClientsAssumption DEF InOrder
  <1>3. \A i \in DOMAIN InOrder : OnNextOf(Main, InOrder[i]) \in Handlers
    BY <1>2, PostedTyped DEF Players
  <1> QED BY <1>1, <1>2, <1>3

\* The parts of the type invariant that concern the players.
PlayersTyped ==
  /\ opIndex \in [Players -> [Clients -> Nat]]
  /\ \A p \in Players, c \in Clients : opIndex[p][c] < Len(Ops(p))
  /\ timer \in [Players -> [Clients -> {"idle", "armed"}]]
  /\ playing \in [Players -> SUBSET Clients]
  /\ paused \in [Clients -> BOOLEAN]
  /\ ready \in Seq(Handlers)
  /\ keys \in 0 .. MaxKeys

\* What a configuration is is settled at the start.
LEMMA GivenIsKept == [PlayerNext]_allVars => UNCHANGED given
  <1> SUFFICES ASSUME [PlayerNext]_allVars PROVE UNCHANGED given
    OBVIOUS
  <1>1. ASSUME NEW p \in Players, NEW c \in Clients, OnNext(p, c) PROVE UNCHANGED given
    <2>1. CASE OnSleep(p, c) \/ OnPlaySubScenario(p, c)
      BY <2>1 DEF OnSleep, OnPlaySubScenario
    <2>2. CASE \/ OnVoiceOrMessage(p, c) \/ OnOpDisconnect(p, c)
               \/ OnOpReconnect(p, c) \/ OnOpExit(p, c)
      BY <2>2 DEF OnVoiceOrMessage, OnOpDisconnect, OnOpReconnect, OnOpExit, GoesOn
    <2> QED BY <1>1, <2>1, <2>2 DEF OnNext
  <1>2. ASSUME NEW p \in Players, NEW c \in Clients, OnWoken(p, c) \/ Wakes(p, c)
        PROVE  UNCHANGED given
    BY <1>2 DEF OnWoken, Wakes
  <1>3. CASE PauseAll \/ ResumeAll
    BY <1>3 DEF PauseAll, ResumeAll
  <1>4. ASSUME NEW c \in Clients, KeyClose(c) \/ KeyConnect(c) \/ RetryTimer(c)
        PROVE  UNCHANGED given
    BY <1>4 DEF KeyClose, KeyConnect, RetryTimer
  <1>5. ASSUME NEW h \in KeyHandlers, PressKey(h) PROVE UNCHANGED given
    BY <1>5 DEF PressKey
  <1>6. ASSUME NEW s \in Sessions, SessionNotifies(s) \/ SessionEnds(s) PROVE UNCHANGED given
    BY <1>6 DEF SessionNotifies, SessionEnds
  <1>7. CASE UNCHANGED allVars
    BY <1>7 DEF allVars
  <1> QED BY <1>1, <1>2, <1>3, <1>4, <1>5, <1>6, <1>7 DEF PlayerNext, Handler

\* The players' operations stay the same ones.
LEMMA OpsAreKept ==
  ASSUME UNCHANGED given
  PROVE  config' = config /\ lossy' = lossy /\ \A p \in Players : Ops(p)' = Ops(p) /\ LoopOf(p)' = LoopOf(p)
  BY DEF given, Ops, LoopOf

\* A step of op_index by one operation.
LEMMA StepTyped ==
  ASSUME PlayerTypeOK, UNCHANGED given, NEW p \in Players, NEW c \in Clients,
         opIndex' = [opIndex EXCEPT ![p][c] = Following(p, c)]
  PROVE  /\ opIndex' \in [Players -> [Clients -> Nat]]
         /\ \A q \in Players, d \in Clients : opIndex'[q][d] < Len(Ops(q)')
  <1>1. /\ opIndex \in [Players -> [Clients -> Nat]]
        /\ \A q \in Players, d \in Clients : opIndex[q][d] < Len(Ops(q))
    BY DEF PlayerTypeOK
  <1>2. Following(p, c) \in Nat /\ Following(p, c) < Len(Ops(p))
    BY FollowingTyped
  <1>3. \A q \in Players : Ops(q)' = Ops(q)
    BY OpsAreKept
  <1> QED BY <1>1, <1>2, <1>3

\* An operation that goes on.
LEMMA GoesOnTyped ==
  ASSUME PlayerTypeOK, NEW p \in Players, NEW c \in Clients, GoesOn(p, c)
  PROVE  PlayersTyped'
  <1>1. ready' \in Seq(Handlers)
    BY RunsShape, PostedTyped DEF GoesOn, PlayerTypeOK
  <1> QED BY <1>1, StepTyped DEF GoesOn, PlayerTypeOK, PlayersTyped

\* Each handler keeps the types of the variables of the players.
LEMMA PlayerTypeStep ==
  ASSUME PlayerTypeOK, IInv, [PlayerNext]_allVars PROVE PlayersTyped'
  <1>0. UNCHANGED given /\ config' = config /\ \A p \in Players : Ops(p)' = Ops(p)
    BY GivenIsKept, OpsAreKept
  <1>1. ASSUME NEW p \in Players, NEW c \in Clients, OnNext(p, c) PROVE PlayersTyped'
    <2>1. CASE OnSleep(p, c)
      <3>1. ready' \in Seq(Handlers)
        BY <2>1, RunsShape, PostedTyped DEF OnSleep, PlayerTypeOK
      <3> QED BY <1>0, <2>1, <3>1 DEF OnSleep, PlayerTypeOK, PlayersTyped
    <2>2. CASE OnPlaySubScenario(p, c)
      <3> DEFINE q == Op(p, c).player
      <3>1. p = Main /\ q \in Players \ {Main}
        BY <2>2, SubStart DEF OnPlaySubScenario
      <3> HIDE DEF q
      <3>2. /\ Runs(OnNextOf(p, c), <<OnNextOf(q, c)>> \o Posted(p, c))
            /\ opIndex' = [opIndex EXCEPT ![p][c] = Following(p, c), ![q][c] = 0]
            /\ timer' = [timer EXCEPT ![q][c] = "idle"]
            /\ playing' = [playing EXCEPT ![q] = @ \cup {c}]
            /\ UNCHANGED <<paused, keys>>
        BY <2>2 DEF OnPlaySubScenario, q
      <3>3. <<OnNextOf(q, c)>> \o Posted(p, c) \in Seq(Handlers)
        <4>1. <<OnNextOf(q, c)>> \in Seq(Handlers)
          BY <3>1, PostedTyped
        <4> QED BY <4>1, PostedTyped, ConcatProperties
      <3>4. ready' \in Seq(Handlers)
        BY <3>2, <3>3, RunsShape DEF PlayerTypeOK
      <3>5. /\ opIndex \in [Players -> [Clients -> Nat]]
            /\ \A r \in Players, d \in Clients : opIndex[r][d] < Len(Ops(r))
            /\ Following(p, c) \in Nat /\ Following(p, c) < Len(Ops(p))
            /\ 0 < Len(Ops(q))
        <4>1. Len(Ops(q)) = 2
          BY <3>1, PlayerOps DEF PlayerTypeOK
        <4> QED BY <4>1, FollowingTyped DEF PlayerTypeOK
      <3>6. /\ opIndex' \in [Players -> [Clients -> Nat]]
            /\ \A r \in Players, d \in Clients : opIndex'[r][d] < Len(Ops(r))
        BY <3>1, <3>2, <3>5
      <3>7. /\ timer' \in [Players -> [Clients -> {"idle", "armed"}]]
            /\ playing' \in [Players -> SUBSET Clients]
        BY <3>1, <3>2 DEF PlayerTypeOK
      <3>8. \A r \in Players, d \in Clients : opIndex'[r][d] < Len(Ops(r)')
        BY <1>0, <3>6
      <3> QED BY <3>2, <3>4, <3>6, <3>7, <3>8 DEF PlayerTypeOK, PlayersTyped
    <2>3. CASE OnVoiceOrMessage(p, c) \/ OnOpReconnect(p, c) \/ OnOpExit(p, c)
                 \/ OnOpDisconnect(p, c)
      BY <2>3, GoesOnTyped DEF OnVoiceOrMessage, OnOpReconnect, OnOpExit, OnOpDisconnect
    <2> QED BY <1>1, <2>1, <2>2, <2>3 DEF OnNext
  <1>2. ASSUME NEW p \in Players, NEW c \in Clients, OnWoken(p, c) PROVE PlayersTyped'
    <2>1. ready' \in Seq(Handlers)
      BY <1>2, RunsShape, PostedTyped DEF OnWoken, PlayerTypeOK
    <2> QED BY <1>2, <2>1, StepTyped DEF OnWoken, PlayerTypeOK, PlayersTyped
  <1>3. ASSUME NEW p \in Players, NEW c \in Clients, Wakes(p, c) PROVE PlayersTyped'
    <2>1. ready' \in Seq(Handlers)
      BY <1>3, PostShape, PostedTyped DEF Wakes, PlayerTypeOK
    <2> QED BY <1>0, <1>3, <2>1 DEF Wakes, PlayerTypeOK, PlayersTyped
  <1>4. CASE PauseAll
    <2>0. Runs([do |-> "pauseAll"], <<>>) /\ ready \in Seq(Handlers) /\ <<>> \in Seq(Handlers)
      BY <1>4 DEF PauseAll, PlayerTypeOK
    <2>1. ready' \in Seq(Handlers)
      BY <2>0, RunsShape
    <2>2. timer' \in [Players -> [Clients -> {"idle", "armed"}]]
      BY <1>4 DEF PauseAll, PlayerTypeOK
    <2>3. paused' \in [Clients -> BOOLEAN]
      BY <1>4 DEF PauseAll
    <2> QED BY <1>0, <1>4, <2>1, <2>2, <2>3 DEF PauseAll, PlayerTypeOK, PlayersTyped
  <1>5. CASE ResumeAll
    <2>1. [i \in DOMAIN InOrder |-> OnNextOf(Main, InOrder[i])] \in Seq(Handlers)
      BY InOrderTyped
    <2>2. ready' \in Seq(Handlers)
      BY <1>5, <2>1, RunsShape DEF ResumeAll, PlayerTypeOK
    <2>3. paused' \in [Clients -> BOOLEAN]
      BY <1>5 DEF ResumeAll
    <2> QED BY <1>0, <1>5, <2>2, <2>3 DEF ResumeAll, PlayerTypeOK, PlayersTyped
  <1>6. ASSUME NEW c \in Clients, KeyClose(c) \/ KeyConnect(c) PROVE PlayersTyped'
    <2>0. PICK h : Runs(h, <<>>)
      BY <1>6 DEF KeyClose, KeyConnect
    <2>1. ready' \in Seq(Handlers)
      <3>1. ready \in Seq(Handlers) /\ <<>> \in Seq(Handlers)
        BY DEF PlayerTypeOK
      <3> QED BY <2>0, <3>1, RunsShape
    <2> QED BY <1>0, <1>6, <2>1 DEF KeyClose, KeyConnect, playVars, PlayerTypeOK, PlayersTyped
  <1>7. ASSUME NEW h \in KeyHandlers, PressKey(h) PROVE PlayersTyped'
    <2>1. ready' \in Seq(Handlers)
      BY <1>7, PostShape DEF PressKey, PlayerTypeOK, Handlers
    <2>2. keys' \in 0 .. MaxKeys
      BY <1>7, MaxKeysAssumption DEF PressKey, PlayerTypeOK
    <2> QED BY <1>0, <1>7, <2>1, <2>2 DEF PressKey, playVars, PlayerTypeOK, PlayersTyped
  <1>8. CASE UNCHANGED <<playVars, ready, keys>>
    BY <1>0, <1>8 DEF playVars, PlayerTypeOK, PlayersTyped
  <1>9. ASSUME NEW s \in Sessions, SessionNotifies(s) \/ SessionEnds(s) PROVE PlayersTyped'
    BY <1>8, <1>9 DEF SessionNotifies, SessionEnds
  <1>10. ASSUME NEW c \in Clients, RetryTimer(c) PROVE PlayersTyped'
    BY <1>8, <1>10 DEF RetryTimer
  <1>11. CASE UNCHANGED allVars
    BY <1>8, <1>11 DEF allVars
  <1> QED BY <1>1, <1>2, <1>3, <1>4, <1>5, <1>6, <1>7, <1>9, <1>10, <1>11
          DEF PlayerNext, Handler

\* Who has exited, and whether the io_context has been stopped.
LEMMA ExitTypeStep ==
  ASSUME PlayerTypeOK, [PlayerNext]_allVars
  PROVE  exit' \in [Clients -> BOOLEAN] /\ stopped' \in BOOLEAN
  <1>1. ASSUME NEW c, Exited(c) PROVE exit' \in [Clients -> BOOLEAN] /\ stopped' \in BOOLEAN
    BY <1>1 DEF Exited, PlayerTypeOK
  <1>2. CASE UNCHANGED exitVars
    BY <1>2 DEF exitVars, PlayerTypeOK
  <1>3. UNCHANGED exitVars \/ \E c : Exited(c)
    BY DEF PlayerNext, Handler, OnNext, OnSleep, OnPlaySubScenario, OnVoiceOrMessage,
       OnOpDisconnect, OnOpReconnect, OnOpExit, OnWoken, PauseAll, ResumeAll,
       KeyClose, KeyConnect, Wakes, PressKey, SessionNotifies, SessionEnds, RetryTimer,
       allVars
  <1> QED BY <1>1, <1>2, <1>3

\* Before the io_context runs.
LEMMA PlayerTypeInit == PlayerInit => PlayerTypeOK
  <1> SUFFICES ASSUME PlayerInit PROVE PlayerTypeOK
    OBVIOUS
  <1>1. TypeOK
    BY InitIInv DEF PlayerInit, IInv
  <1>2. ready \in Seq(Handlers)
    BY InOrderTyped DEF PlayerInit
  <1>3. config \in Configs /\ opIndex = [p \in Players |-> [c \in Clients |-> 0]]
    BY DEF PlayerInit
  <1>4. \A p \in Players, c \in Clients : opIndex[p][c] < Len(Ops(p))
    BY <1>3, PlayerOps
  <1>5. keys \in 0 .. MaxKeys
    BY MaxKeysAssumption DEF PlayerInit
  <1>6. /\ timer \in [Players -> [Clients -> {"idle", "armed"}]]
        /\ playing \in [Players -> SUBSET Clients]
    BY DEF PlayerInit
  <1>7. /\ paused \in [Clients -> BOOLEAN]
        /\ exit \in [Clients -> BOOLEAN]
        /\ stopped \in BOOLEAN
    BY DEF PlayerInit
  <1>8. opIndex \in [Players -> [Clients -> Nat]] /\ lossy \in Lossy
    BY <1>3 DEF PlayerInit
  <1> QED BY <1>1, <1>2, <1>3, <1>4, <1>5, <1>6, <1>7, <1>8 DEF PlayerTypeOK

\* The clients keep theirs by their own invariant.
LEMMA TypeStep == PlayerTypeOK /\ IInv /\ [PlayerNext]_allVars => PlayerTypeOK'
  <1> SUFFICES ASSUME PlayerTypeOK, IInv, [PlayerNext]_allVars PROVE PlayerTypeOK'
    OBVIOUS
  <1>1. TypeOK'
    BY ClientStep, StepIInv DEF IInv
  <1>2. config' = config /\ lossy' = lossy
    BY GivenIsKept, OpsAreKept
  <1> QED BY <1>1, <1>2, PlayerTypeStep, ExitTypeStep DEF PlayerTypeOK, PlayersTyped

\* Types: op_index never leaves the scenario, however keys, wakes and the end of a sub
\* scenario come together (scenario_player.h:127-134).
THEOREM PlayerTypes == PlayerSpec => []PlayerTypeOK
  BY PlayersKeepClientsSafe, PlayerTypeInit, TypeStep, PTL DEF PlayerSpec

-----------------------------------------------------------------------------
(* The chains of handlers. *)

\* A handler that carries on the scenario of player p for client c.
Carries(h, p, c) == h \in {OnNextOf(p, c), WokenUp(p, c)}

\* None of the queued handlers does, or exactly one.
NoneQueued(p, c) == \A i \in 1 .. Len(ready) : ~Carries(ready[i], p, c)
OneQueued(p, c) ==
  \E i \in 1 .. Len(ready) :
    /\ Carries(ready[i], p, c)
    /\ \A j \in 1 .. Len(ready) : Carries(ready[j], p, c) => j = i

\* The ways to have at least one continuation, exactly one, and none.
Carried(p, c) == timer[p][c] = "armed" \/ ~NoneQueued(p, c)
CarriedOnce(p, c) ==
  \/ timer[p][c] = "armed" /\ NoneQueued(p, c)
  \/ timer[p][c] = "idle" /\ OneQueued(p, c)
AtRest(p, c) == timer[p][c] = "idle" /\ NoneQueued(p, c)

\* A handler carries at most one scenario, and those of the keys none.
LEMMA OneCarrier ==
  /\ \A p, q, c, d : Carries(OnNextOf(p, c), q, d) <=> p = q /\ c = d
  /\ \A p, q, c, d : Carries(WokenUp(p, c), q, d) <=> p = q /\ c = d
  /\ \A h \in KeyHandlers : \A p, c : ~Carries(h, p, c)
  /\ \A p, q, c, d : OnNextOf(p, c) # WokenUp(q, d)
  <1>1. \A p, c : /\ OnNextOf(p, c).do = "next" /\ OnNextOf(p, c).player = p
                  /\ OnNextOf(p, c).client = c
                  /\ WokenUp(p, c).do = "woken" /\ WokenUp(p, c).player = p
                  /\ WokenUp(p, c).client = c
    BY DEF OnNextOf, WokenUp
  <1>2. \A h \in KeyHandlers : h.do \notin {"next", "woken"}
    BY DEF KeyHandlers
  <1> QED BY <1>1, <1>2 DEF Carries

\* What carries a scenario after a handler has run: what was queued behind it, and what
\* it posts.
LEMMA RunsCarriers ==
  ASSUME ready \in Seq(Handlers), NEW h, NEW q \in Seq(Handlers), Runs(h, q),
         NEW p, NEW c
  PROVE  /\ \A i \in 1 .. Len(ready)' :
              \/ i + 1 \in 1 .. Len(ready) /\ ready'[i] = ready[i + 1]
              \/ i - Len(ready) + 1 \in 1 .. Len(q) /\ ready'[i] = q[i - Len(ready) + 1]
         /\ \A i \in 1 .. Len(ready) : i # 1 =>
              i - 1 \in 1 .. Len(ready)' /\ ready'[i - 1] = ready[i]
         /\ \A i \in 1 .. Len(q) :
              Len(ready) - 1 + i \in 1 .. Len(ready)' /\ ready'[Len(ready) - 1 + i] = q[i]
         /\ 1 \in 1 .. Len(ready) /\ ready[1] = h /\ Len(ready) \in Nat /\ Len(q) \in Nat
  <1> DEFINE n == Len(ready)
             m == Len(ready)'
             k == Len(q)
  <1>1. /\ n \in Nat /\ n > 0 /\ ready[1] = h
        /\ m = n - 1 + k
        /\ \A i \in 1 .. n - 1 : ready'[i] = ready[i + 1]
        /\ \A i \in 1 .. k : ready'[n - 1 + i] = q[i]
    BY RunsShape
  <1>2. k \in Nat
    BY LenProperties
  <1> HIDE DEF n, m, k
  <1>3. ASSUME NEW i \in 1 .. m
        PROVE  \/ i + 1 \in 1 .. n /\ ready'[i] = ready[i + 1]
               \/ i - n + 1 \in 1 .. k /\ ready'[i] = q[i - n + 1]
    <2>1. CASE i < n
      <3>1. i \in 1 .. n - 1 /\ i + 1 \in 1 .. n
        BY <1>1, <1>2, <2>1
      <3> QED BY <1>1, <3>1
    <2>2. CASE i >= n
      <3>1. i - n + 1 \in 1 .. k /\ n - 1 + (i - n + 1) = i
        BY <1>1, <1>2, <2>2
      <3> QED BY <1>1, <3>1
    <2> QED BY <1>1, <1>2, <2>1, <2>2
  <1>4. ASSUME NEW i \in 1 .. n, i # 1 PROVE i - 1 \in 1 .. m /\ ready'[i - 1] = ready[i]
    <2>1. i - 1 \in 1 .. n - 1 /\ (i - 1) + 1 = i
      BY <1>1, <1>4
    <2> QED BY <1>1, <1>2, <2>1
  <1>5. ASSUME NEW i \in 1 .. k PROVE n - 1 + i \in 1 .. m /\ ready'[n - 1 + i] = q[i]
    BY <1>1, <1>2
  <1> QED BY <1>1, <1>2, <1>3, <1>4, <1>5 DEF n, m, k

\* A handler of another scenario that posts nothing for this one.
LEMMA RunsPast ==
  ASSUME ready \in Seq(Handlers), NEW h, NEW q \in Seq(Handlers), Runs(h, q),
         NEW p, NEW c, ~Carries(h, p, c), \A i \in 1 .. Len(q) : ~Carries(q[i], p, c)
  PROVE  /\ NoneQueued(p, c)' <=> NoneQueued(p, c)
         /\ OneQueued(p, c) => OneQueued(p, c)'
  <1> DEFINE n == Len(ready)
             m == Len(ready)'
  <1>1. /\ \A i \in 1 .. m :
             \/ i + 1 \in 1 .. n /\ ready'[i] = ready[i + 1]
             \/ i - n + 1 \in 1 .. Len(q) /\ ready'[i] = q[i - n + 1]
        /\ \A i \in 1 .. n : i # 1 => i - 1 \in 1 .. m /\ ready'[i - 1] = ready[i]
        /\ ready[1] = h /\ n \in Nat
    BY RunsCarriers
  <1> HIDE DEF n, m
  <1>2. \A i \in 1 .. m : Carries(ready'[i], p, c) =>
          i + 1 \in 1 .. n /\ Carries(ready[i + 1], p, c)
    BY <1>1
  <1>3. \A i \in 1 .. n : Carries(ready[i], p, c) =>
          i - 1 \in 1 .. m /\ Carries(ready'[i - 1], p, c)
    BY <1>1
  <1>4. NoneQueued(p, c)' <=> NoneQueued(p, c)
    BY <1>2, <1>3 DEF NoneQueued, Carries, OnNextOf, WokenUp, n, m
  <1>5. ASSUME OneQueued(p, c) PROVE OneQueued(p, c)'
    <2>1. PICK i \in 1 .. n :
            /\ Carries(ready[i], p, c)
            /\ \A j \in 1 .. n : Carries(ready[j], p, c) => j = i
      BY <1>5 DEF OneQueued, n
    <2>2. i - 1 \in 1 .. m /\ Carries(ready'[i - 1], p, c)
      BY <1>3, <2>1
    <2>3. \A j \in 1 .. m : Carries(ready'[j], p, c) => j = i - 1
      <3> SUFFICES ASSUME NEW j \in 1 .. m, Carries(ready'[j], p, c) PROVE j = i - 1
        OBVIOUS
      <3>1. j + 1 = i
        BY <1>2, <2>1
      <3> QED BY <3>1
    <2> QED BY <2>2, <2>3 DEF OneQueued, Carries, OnNextOf, WokenUp, m
  <1> QED BY <1>4, <1>5

\* The one handler that carries the scenario ends, and posts nothing for it.
LEMMA RunsOut ==
  ASSUME ready \in Seq(Handlers), NEW h, NEW q \in Seq(Handlers), Runs(h, q),
         NEW p, NEW c, Carries(h, p, c), OneQueued(p, c),
         \A i \in 1 .. Len(q) : ~Carries(q[i], p, c)
  PROVE  NoneQueued(p, c)'
  <1> DEFINE n == Len(ready)
             m == Len(ready)'
  <1>1. /\ \A i \in 1 .. m :
             \/ i + 1 \in 1 .. n /\ ready'[i] = ready[i + 1]
             \/ i - n + 1 \in 1 .. Len(q) /\ ready'[i] = q[i - n + 1]
        /\ 1 \in 1 .. n /\ ready[1] = h
    BY RunsCarriers
  <1> HIDE DEF n, m
  <1>2. \A j \in 1 .. n : Carries(ready[j], p, c) => j = 1
    BY <1>1 DEF OneQueued, n
  <1>3. ASSUME NEW i \in 1 .. m PROVE ~Carries(ready'[i], p, c)
    <2>1. i + 1 # 1
      OBVIOUS
    <2> QED BY <1>1, <1>2, <2>1
  <1> QED BY <1>3 DEF NoneQueued, Carries, OnNextOf, WokenUp, m

\* A handler posts one that carries the scenario, with none left but itself.
LEMMA RunsOn ==
  ASSUME ready \in Seq(Handlers), NEW h, NEW q \in Seq(Handlers), Runs(h, q),
         NEW p, NEW c,
         NEW k \in 1 .. Len(q), Carries(q[k], p, c),
         \A i \in 1 .. Len(q) : Carries(q[i], p, c) => i = k,
         NoneQueued(p, c) \/ (OneQueued(p, c) /\ Carries(h, p, c))
  PROVE  /\ OneQueued(p, c)'
         /\ \A i \in 1 .. Len(ready)' : Carries(ready'[i], p, c) => ready'[i] = q[k]
  <1> DEFINE n == Len(ready)
             m == Len(ready)'
  <1>1. /\ \A i \in 1 .. m :
             \/ i + 1 \in 1 .. n /\ ready'[i] = ready[i + 1]
             \/ i - n + 1 \in 1 .. Len(q) /\ ready'[i] = q[i - n + 1]
        /\ \A i \in 1 .. Len(q) : n - 1 + i \in 1 .. m /\ ready'[n - 1 + i] = q[i]
        /\ 1 \in 1 .. n /\ ready[1] = h /\ n \in Nat /\ Len(q) \in Nat
    BY RunsCarriers
  <1> HIDE DEF n, m
  <1>2. \A j \in 1 .. n : Carries(ready[j], p, c) => j = 1
    BY <1>1 DEF OneQueued, NoneQueued, n
  <1>3. ASSUME NEW i \in 1 .. m, Carries(ready'[i], p, c)
        PROVE  i = n - 1 + k /\ ready'[i] = q[k]
    <2>1. ~(i + 1 \in 1 .. n /\ ready'[i] = ready[i + 1])
      BY <1>2, <1>3
    <2>2. i - n + 1 \in 1 .. Len(q) /\ ready'[i] = q[i - n + 1]
      BY <1>1, <2>1
    <2>3. i - n + 1 = k
      BY <1>3, <2>2
    <2> QED BY <1>1, <2>2, <2>3
  <1>4. n - 1 + k \in 1 .. m /\ Carries(ready'[n - 1 + k], p, c)
    BY <1>1
  <1> QED BY <1>3, <1>4 DEF OneQueued, Carries, OnNextOf, WokenUp, m

\* What a handler posts is queued.
LEMMA RunsAdds ==
  ASSUME ready \in Seq(Handlers), NEW h, NEW q \in Seq(Handlers), Runs(h, q),
         NEW p, NEW c, NEW k \in 1 .. Len(q), Carries(q[k], p, c)
  PROVE  ~NoneQueued(p, c)'
  <1>1. Len(ready) - 1 + k \in 1 .. Len(ready)' /\ ready'[Len(ready) - 1 + k] = q[k]
    BY RunsCarriers
  <1> QED BY <1>1 DEF NoneQueued, Carries, OnNextOf, WokenUp

\* What is posted from outside, for this scenario or for none.
LEMMA PostCarriers ==
  ASSUME ready \in Seq(Handlers), NEW h \in Handlers, ready' = Append(ready, h),
         NEW p, NEW c
  PROVE  /\ ~Carries(h, p, c) => /\ NoneQueued(p, c)' <=> NoneQueued(p, c)
                                 /\ OneQueued(p, c) => OneQueued(p, c)'
         /\ Carries(h, p, c) => /\ ~NoneQueued(p, c)'
                                /\ NoneQueued(p, c) => OneQueued(p, c)'
  <1> DEFINE n == Len(ready)
             m == Len(ready)'
  <1>1. /\ n \in Nat /\ m = n + 1
        /\ \A i \in 1 .. n : ready'[i] = ready[i]
        /\ ready'[n + 1] = h
    BY PostShape
  <1> HIDE DEF n, m
  <1>2. /\ NoneQueued(p, c) <=> \A i \in 1 .. n : ~Carries(ready[i], p, c)
        /\ NoneQueued(p, c)' <=> \A i \in 1 .. m : ~Carries(ready'[i], p, c)
    BY DEF NoneQueued, Carries, OnNextOf, WokenUp, n, m
  <1>3. /\ OneQueued(p, c) <=>
             \E i \in 1 .. n : /\ Carries(ready[i], p, c)
                               /\ \A j \in 1 .. n : Carries(ready[j], p, c) => j = i
        /\ OneQueued(p, c)' <=>
             \E i \in 1 .. m : /\ Carries(ready'[i], p, c)
                               /\ \A j \in 1 .. m : Carries(ready'[j], p, c) => j = i
    BY DEF OneQueued, Carries, OnNextOf, WokenUp, n, m
  <1>4. \A i \in 1 .. m : i \in 1 .. n \/ i = n + 1
    BY <1>1
  <1>5. 1 .. n \subseteq 1 .. m /\ n + 1 \in 1 .. m
    BY <1>1
  <1>6. ASSUME ~Carries(h, p, c)
        PROVE  /\ NoneQueued(p, c)' <=> NoneQueued(p, c)
               /\ OneQueued(p, c) => OneQueued(p, c)'
    <2>1. \A i \in 1 .. m : Carries(ready'[i], p, c) => i \in 1 .. n /\ Carries(ready[i], p, c)
      BY <1>1, <1>4, <1>6
    <2>2. \A i \in 1 .. n : Carries(ready[i], p, c) => i \in 1 .. m /\ Carries(ready'[i], p, c)
      BY <1>1, <1>5
    <2> QED BY <1>2, <1>3, <2>1, <2>2
  <1>7. ASSUME Carries(h, p, c)
        PROVE  /\ ~NoneQueued(p, c)'
               /\ NoneQueued(p, c) => OneQueued(p, c)'
    <2>1. Carries(ready'[n + 1], p, c)
      BY <1>1, <1>7
    <2>2. NoneQueued(p, c) => \A j \in 1 .. m : Carries(ready'[j], p, c) => j = n + 1
      BY <1>1, <1>2, <1>4
    <2> QED BY <1>2, <1>3, <1>5, <2>1, <2>2
  <1> QED BY <1>6, <1>7

\* What Next() posts, for whom.
LEMMA PostedCarries ==
  ASSUME NEW p \in Players, NEW c \in Clients
  PROVE  /\ Posted(p, c) \in Seq(Handlers)
         /\ ~Halted(p, c) => Len(Posted(p, c)) = 1 /\ Posted(p, c)[1] = OnNextOf(p, c)
         /\ \A i \in 1 .. Len(Posted(p, c)) : \A q, d :
              Carries(Posted(p, c)[i], q, d) => p = q /\ c = d
  <1>1. Posted(p, c) \in Seq(Handlers)
    BY PostedTyped
  <1>2. CASE Halted(p, c)
    <2>1. Posted(p, c) = <<>> /\ Len(Posted(p, c)) = 0
      BY <1>2 DEF Posted
    <2> QED BY <1>1, <1>2, <2>1
  <1>3. CASE ~Halted(p, c)
    <2>1. Posted(p, c) = <<OnNextOf(p, c)>>
      BY <1>3 DEF Posted
    <2>2. Len(Posted(p, c)) = 1 /\ Posted(p, c)[1] = OnNextOf(p, c)
      BY <2>1
    <2> QED BY <1>1, <2>2, OneCarrier
  <1> QED BY <1>2, <1>3

\* What the start of a sub scenario posts: its first handler, and the next one of the
\* main scenario.
StartPosts(p, r, c) == <<OnNextOf(r, c)>> \o Posted(p, c)

\* Its handlers are these.
LEMMA StartShape ==
  ASSUME NEW p \in Players, NEW r \in Players, NEW c \in Clients
  PROVE  /\ StartPosts(p, r, c) \in Seq(Handlers)
         /\ 1 \in 1 .. Len(StartPosts(p, r, c)) /\ StartPosts(p, r, c)[1] = OnNextOf(r, c)
         /\ ~Halted(p, c) =>
              2 \in 1 .. Len(StartPosts(p, r, c)) /\ StartPosts(p, r, c)[2] = OnNextOf(p, c)
         /\ \A i \in 1 .. Len(StartPosts(p, r, c)) :
              \/ i = 1
              \/ i = 2 /\ StartPosts(p, r, c)[i] = OnNextOf(p, c)
  <1> DEFINE a == <<OnNextOf(r, c)>>
             b == Posted(p, c)
             z == a \o b
  <1>1. a \in Seq(Handlers) /\ Len(a) = 1 /\ a[1] = OnNextOf(r, c)
    BY PostedTyped
  <1>2. /\ b \in Seq(Handlers) /\ Len(b) \in {0, 1}
        /\ ~Halted(p, c) => Len(b) = 1
        /\ Len(b) = 1 => b[1] = OnNextOf(p, c)
    <2>1. Halted(p, c) => b = <<>>
      BY DEF Posted
    <2> QED BY <2>1, PostedCarries
  <1> HIDE DEF a, b
  <1>3. /\ z \in Seq(Handlers) /\ Len(z) = 1 + Len(b)
        /\ \A i \in 1 .. 1 + Len(b) : z[i] = IF i <= 1 THEN a[i] ELSE b[i - 1]
    <2>1. /\ a \o b \in Seq(Handlers) /\ Len(a \o b) = Len(a) + Len(b)
          /\ \A i \in 1 .. Len(a) + Len(b) :
               (a \o b)[i] = IF i <= Len(a) THEN a[i] ELSE b[i - Len(a)]
      BY <1>1, <1>2, ConcatProperties
    <2> QED BY <1>1, <2>1
  <1> HIDE DEF z
  <1>4. z[1] = OnNextOf(r, c) /\ (Len(b) = 1 => z[2] = OnNextOf(p, c))
    BY <1>1, <1>2, <1>3
  <1>5. /\ 1 \in 1 .. Len(z)
        /\ ~Halted(p, c) => 2 \in 1 .. Len(z)
        /\ \A i \in 1 .. Len(z) : i = 1 \/ (i = 2 /\ Len(b) = 1)
    BY <1>2, <1>3
  <1>6. StartPosts(p, r, c) = z
    BY DEF a, b, z, StartPosts
  <1> QED BY <1>2, <1>3, <1>4, <1>5, <1>6

\* They carry the two scenarios, ...
LEMMA StartCarries ==
  ASSUME NEW p \in Players, NEW r \in Players, p # r, NEW c \in Clients,
         NEW i \in 1 .. Len(StartPosts(p, r, c))
  PROVE  /\ Carries(StartPosts(p, r, c)[i], r, c) => i = 1
         /\ Carries(StartPosts(p, r, c)[i], p, c) => i = 2
  BY StartShape, OneCarrier

\* ... and no other.
LEMMA StartBystander ==
  ASSUME NEW p \in Players, NEW r \in Players, NEW c \in Clients,
         NEW q, NEW d, ~(q = p /\ d = c), ~(q = r /\ d = c),
         NEW i \in 1 .. Len(StartPosts(p, r, c))
  PROVE  ~Carries(StartPosts(p, r, c)[i], q, d)
  BY StartShape, OneCarrier

\* Continuations counts them.
LEMMA ContinuationsCount ==
  ASSUME PlayerTypeOK, NEW p \in Players, NEW c \in Clients
  PROVE  /\ Carried(p, c) <=> Continuations(p, c) >= 1
         /\ CarriedOnce(p, c) => Continuations(p, c) = 1
  <1> DEFINE S == {i \in DOMAIN ready : ready[i] \in {OnNextOf(p, c), WokenUp(p, c)}}
  <1>1. DOMAIN ready = 1 .. Len(ready) /\ Len(ready) \in Nat
    BY LenProperties DEF PlayerTypeOK
  <1>2. S = {i \in 1 .. Len(ready) : Carries(ready[i], p, c)}
    BY <1>1 DEF Carries
  <1>3. IsFiniteSet(1 .. Len(ready))
    BY <1>1, FS_Interval
  <1>4. IsFiniteSet(S) /\ Cardinality(S) \in Nat
    BY <1>2, <1>3, FS_Subset, FS_CardinalityType
  <1>5. Cardinality(S) = 0 <=> NoneQueued(p, c)
    <2>1. Cardinality(S) = 0 <=> S = {}
      BY <1>4, FS_EmptySet
    <2> QED BY <1>2, <2>1 DEF NoneQueued
  <1>6. OneQueued(p, c) => Cardinality(S) = 1
    <2> SUFFICES ASSUME OneQueued(p, c) PROVE Cardinality(S) = 1
      OBVIOUS
    <2>1. PICK i : S = {i}
      BY <1>2 DEF OneQueued
    <2> QED BY <2>1, FS_Singleton
  <1>7. timer[p][c] \in {"idle", "armed"}
    BY DEF PlayerTypeOK
  <1>8. Continuations(p, c) = Cardinality(S) + (IF timer[p][c] = "armed" THEN 1 ELSE 0)
    BY DEF Continuations
  <1> HIDE DEF S
  <1> QED BY <1>4, <1>5, <1>6, <1>7, <1>8 DEF Carried, CarriedOnce

\* The same for all of them, in any state that has its types.
CountsContinuations ==
  \A p \in Players, c \in Clients :
    /\ Carried(p, c) <=> Continuations(p, c) >= 1
    /\ CarriedOnce(p, c) => Continuations(p, c) = 1

\* So the properties may be shown without counting.
LEMMA CountingContinuations == PlayerTypeOK => CountsContinuations
  BY ContinuationsCount DEF CountsContinuations

-----------------------------------------------------------------------------
(* No chain is lost. *)

\* What the handlers that neither sleep nor start anything have in common.
LEMMA GoesOnOps ==
  ASSUME NEW p, NEW c, OnNext(p, c)
  PROVE  OnSleep(p, c) \/ OnPlaySubScenario(p, c) \/ GoesOn(p, c)
  BY DEF OnNext, OnVoiceOrMessage, OnOpDisconnect, OnOpReconnect, OnOpExit

\* The steps that leave the players and their queue alone.
Aside == UNCHANGED <<playVars, ready>>

\* Every step of the players, by what it does to the queue.
LEMMA QueueSteps ==
  ASSUME [PlayerNext]_allVars
  PROVE  \/ \E p \in Players, c \in Clients :
              \/ OnSleep(p, c) \/ OnPlaySubScenario(p, c) \/ GoesOn(p, c)
              \/ OnWoken(p, c) \/ Wakes(p, c)
         \/ PauseAll \/ ResumeAll
         \/ \E h \in KeyHandlers : (Runs(h, <<>>) /\ UNCHANGED playVars) \/ PressKey(h)
         \/ Aside
  <1>1. ASSUME NEW p \in Players, NEW c \in Clients, OnNext(p, c)
        PROVE  OnSleep(p, c) \/ OnPlaySubScenario(p, c) \/ GoesOn(p, c)
    BY <1>1, GoesOnOps
  <1>2. ASSUME NEW c \in Clients, KeyClose(c) \/ KeyConnect(c)
        PROVE  \E h \in KeyHandlers : Runs(h, <<>>) /\ UNCHANGED playVars
    <2>1. [do |-> "close", client |-> c] \in KeyHandlers /\ [do |-> "connect", client |-> c] \in KeyHandlers
      BY DEF KeyHandlers
    <2> QED BY <1>2, <2>1 DEF KeyClose, KeyConnect
  <1>3. ASSUME NEW s \in Sessions, SessionNotifies(s) \/ SessionEnds(s) PROVE Aside
    BY <1>3 DEF SessionNotifies, SessionEnds, Aside
  <1>4. ASSUME NEW c \in Clients, RetryTimer(c) PROVE Aside
    BY <1>4 DEF RetryTimer, Aside
  <1>5. CASE UNCHANGED allVars
    BY <1>5 DEF allVars, Aside
  <1> QED BY <1>1, <1>2, <1>3, <1>4, <1>5 DEF PlayerNext, Handler

\* A step leaves the chain of a player and client as it was, if it was carried.
StillCarried(q, d) ==
  (d \in playing[q] => Halted(q, d) \/ Carried(q, d)) /\ d \in playing'[q]
    => Halted(q, d)' \/ Carried(q, d)'

\* After a handler that posts nothing for this scenario.
LEMMA BystanderCarried ==
  ASSUME PlayerTypeOK, NEW h, NEW z \in Seq(Handlers), Runs(h, z),
         NEW q \in Players, NEW d \in Clients,
         ~Carries(h, q, d), \A i \in 1 .. Len(z) : ~Carries(z[i], q, d),
         timer'[q][d] = timer[q][d], paused'[d] = paused[d] \/ q # Main,
         d \in playing'[q] => d \in playing[q]
  PROVE  StillCarried(q, d)
  <1>1. NoneQueued(q, d)' <=> NoneQueued(q, d)
    BY RunsPast DEF PlayerTypeOK
  <1> QED BY <1>1 DEF StillCarried, Carried, Halted

\* After Next() has gone on to the next operation.
LEMMA NextCarried ==
  ASSUME PlayerTypeOK, NEW p \in Players, NEW c \in Clients, NEW h,
         Runs(h, Posted(p, c)), \A x, y : Carries(h, x, y) => p = x /\ c = y,
         UNCHANGED <<timer, playing, paused>>,
         NEW q \in Players, NEW d \in Clients
  PROVE  StillCarried(q, d)
  <1>1. CASE q = p /\ d = c
    <2>1. Halted(p, c)' <=> Halted(p, c)
      BY DEF Halted
    <2>2. ASSUME ~Halted(p, c) PROVE ~NoneQueued(p, c)'
      <3>1. 1 \in 1 .. Len(Posted(p, c)) /\ Carries(Posted(p, c)[1], p, c)
        BY <2>2, PostedCarries, OneCarrier
      <3>2. ready \in Seq(Handlers) /\ Posted(p, c) \in Seq(Handlers)
        BY PostedCarries DEF PlayerTypeOK
      <3> QED BY <3>1, <3>2, RunsAdds
    <2> QED BY <1>1, <2>1, <2>2 DEF StillCarried, Carried
  <1>2. CASE ~(q = p /\ d = c)
    <2>1. Posted(p, c) \in Seq(Handlers)
      BY PostedCarries
    <2>2. \A i \in 1 .. Len(Posted(p, c)) : ~Carries(Posted(p, c)[i], q, d)
      <3>1. \A i \in 1 .. Len(Posted(p, c)) : \A x, y :
              Carries(Posted(p, c)[i], x, y) => p = x /\ c = y
        BY PostedCarries
      <3> QED BY <1>2, <3>1
    <2>3. ~Carries(h, q, d)
      BY <1>2
    <2> QED BY <2>1, <2>2, <2>3, BystanderCarried
  <1> QED BY <1>1, <1>2

\* After a sub scenario has been started.
LEMMA StartCarried ==
  ASSUME PlayerTypeOK, NEW p \in Players, NEW c \in Clients, OnPlaySubScenario(p, c),
         NEW q \in Players, NEW d \in Clients
  PROVE  StillCarried(q, d)
  <1>1. PICK r \in Players \ {Main} : r = Op(p, c).player
    BY SubStart DEF OnPlaySubScenario
  <1>2. p = Main
    BY SubStart DEF OnPlaySubScenario
  <1> DEFINE z == StartPosts(p, r, c)
  <1>3. /\ Runs(OnNextOf(p, c), z)
        /\ timer' = [timer EXCEPT ![r][c] = "idle"]
        /\ playing' = [playing EXCEPT ![r] = @ \cup {c}]
        /\ paused' = paused
    BY <1>1 DEF OnPlaySubScenario, StartPosts
  <1>4. /\ z \in Seq(Handlers)
        /\ 1 \in 1 .. Len(z) /\ z[1] = OnNextOf(r, c)
        /\ ~Halted(p, c) => 2 \in 1 .. Len(z) /\ z[2] = OnNextOf(p, c)
    BY StartShape
  <1> HIDE DEF z
  <1>5. ready \in Seq(Handlers)
    BY DEF PlayerTypeOK
  <1>6. CASE q = r /\ d = c
    <2>1. Carries(z[1], q, d)
      BY <1>4, <1>6, OneCarrier
    <2>2. ~NoneQueued(q, d)'
      BY <1>3, <1>4, <1>5, <2>1, RunsAdds
    <2> QED BY <2>2 DEF StillCarried, Carried
  <1>7. CASE q = p /\ d = c
    <2>1. Halted(q, d)' <=> Halted(q, d)
      BY <1>3 DEF Halted
    <2>2. ASSUME ~Halted(q, d) PROVE ~NoneQueued(q, d)'
      <3>1. 2 \in 1 .. Len(z) /\ Carries(z[2], q, d)
        BY <1>4, <1>7, <2>2, OneCarrier
      <3> QED BY <1>3, <1>4, <1>5, <3>1, RunsAdds
    <2> QED BY <2>1, <2>2 DEF StillCarried, Carried
  <1>8. CASE ~(q = r /\ d = c) /\ ~(q = p /\ d = c)
    <2>1. /\ ~Carries(OnNextOf(p, c), q, d)
          /\ \A i \in 1 .. Len(z) : ~Carries(z[i], q, d)
      BY <1>8, StartBystander, OneCarrier DEF z
    <2>2. timer'[q][d] = timer[q][d] /\ (d \in playing'[q] => d \in playing[q])
      BY <1>1, <1>3, <1>8 DEF PlayerTypeOK
    <2> QED BY <1>3, <1>4, <2>1, <2>2, BystanderCarried
  <1> QED BY <1>6, <1>7, <1>8

\* Whatever runs, no chain is lost.
LEMMA ChainStep ==
  ASSUME PlayerTypeOK, [PlayerNext]_allVars, NEW q \in Players, NEW d \in Clients
  PROVE  StillCarried(q, d)
  <1>0. /\ ready \in Seq(Handlers) /\ <<>> \in Seq(Handlers)
        /\ timer \in [Players -> [Clients -> {"idle", "armed"}]]
    BY DEF PlayerTypeOK
  <1>1. ASSUME NEW p \in Players, NEW c \in Clients, OnSleep(p, c) PROVE StillCarried(q, d)
    <2>1. CASE q = p /\ d = c
      <3>1. timer'[q][d] = "armed"
        BY <1>0, <1>1, <2>1 DEF OnSleep
      <3> QED BY <3>1 DEF StillCarried, Carried
    <2>2. CASE ~(q = p /\ d = c)
      <3>1. ~Carries(OnNextOf(p, c), q, d) /\ \A i \in 1 .. Len(<<>>) : ~Carries(<<>>[i], q, d)
        BY <2>2, OneCarrier
      <3>2. /\ Runs(OnNextOf(p, c), <<>>)
            /\ timer'[q][d] = timer[q][d] /\ paused' = paused /\ playing' = playing
        BY <1>0, <1>1, <2>2 DEF OnSleep
      <3> QED BY <1>0, <3>1, <3>2, BystanderCarried
    <2> QED BY <2>1, <2>2
  <1>2. ASSUME NEW p \in Players, NEW c \in Clients, OnPlaySubScenario(p, c)
        PROVE  StillCarried(q, d)
    BY <1>2, StartCarried
  <1>3. ASSUME NEW p \in Players, NEW c \in Clients, GoesOn(p, c) \/ OnWoken(p, c)
        PROVE  StillCarried(q, d)
    <2>1. CASE GoesOn(p, c)
      BY <2>1, NextCarried, OneCarrier DEF GoesOn
    <2>2. CASE OnWoken(p, c)
      BY <2>2, NextCarried, OneCarrier DEF OnWoken
    <2> QED BY <1>3, <2>1, <2>2
  <1>4. ASSUME NEW p \in Players, NEW c \in Clients, Wakes(p, c) PROVE StillCarried(q, d)
    <2>1. /\ ready' = Append(ready, WokenUp(p, c)) /\ WokenUp(p, c) \in Handlers
          /\ timer' = [timer EXCEPT ![p][c] = "idle"]
          /\ UNCHANGED <<playing, paused>>
      BY <1>4, PostedTyped DEF Wakes
    <2>2. CASE q = p /\ d = c
      <3>1. ~NoneQueued(q, d)'
        BY <1>0, <2>1, <2>2, PostCarriers, OneCarrier
      <3> QED BY <3>1 DEF StillCarried, Carried
    <2>3. CASE ~(q = p /\ d = c)
      <3>1. NoneQueued(q, d)' <=> NoneQueued(q, d)
        BY <1>0, <2>1, <2>3, PostCarriers, OneCarrier
      <3>2. timer'[q][d] = timer[q][d]
        BY <1>0, <2>1, <2>3
      <3> QED BY <2>1, <3>1, <3>2 DEF StillCarried, Carried, Halted
    <2> QED BY <2>2, <2>3
  <1>5. CASE PauseAll
    <2>1. /\ Runs([do |-> "pauseAll"], <<>>)
          /\ timer' = [timer EXCEPT ![Main] = [c \in Clients |-> "idle"]]
          /\ paused' = [c \in Clients |-> TRUE] /\ playing' = playing
      BY <1>5 DEF PauseAll
    <2>2. CASE q = Main
      BY <2>1, <2>2 DEF StillCarried, Halted
    <2>3. CASE q # Main
      <3>1. timer'[q][d] = timer[q][d]
        BY <1>0, <2>1, <2>3
      <3>2. ~Carries([do |-> "pauseAll"], q, d) /\ \A i \in 1 .. Len(<<>>) : ~Carries(<<>>[i], q, d)
        BY OneCarrier DEF KeyHandlers
      <3> QED BY <1>0, <2>1, <2>3, <3>1, <3>2, BystanderCarried
    <2> QED BY <2>2, <2>3
  <1>6. CASE ResumeAll
    <2> DEFINE z == [i \in DOMAIN InOrder |-> OnNextOf(Main, InOrder[i])]
    <2>1. Runs([do |-> "resumeAll"], z) /\ UNCHANGED <<timer, playing>>
      BY <1>6 DEF ResumeAll
    <2>2. z \in Seq(Handlers) /\ DOMAIN z = DOMAIN InOrder
      BY InOrderTyped
    <2>3. 1 .. Len(z) = DOMAIN InOrder
      BY <2>2, LenProperties
    <2>4. CASE q = Main
      <3>1. d + 1 \in 1 .. Len(z) /\ z[d + 1] = OnNextOf(q, d)
        BY <2>3, <2>4, InOrderTyped
      <3>2. Carries(z[d + 1], q, d)
        BY <3>1, OneCarrier
      <3> HIDE DEF z
      <3>3. ~NoneQueued(q, d)'
        BY <1>0, <2>1, <2>2, <3>1, <3>2, RunsAdds
      <3> QED BY <3>3 DEF StillCarried, Carried
    <2>5. CASE q # Main
      <3>1. \A i \in 1 .. Len(z) : ~Carries(z[i], q, d)
        BY <2>3, <2>5, OneCarrier
      <3>2. ~Carries([do |-> "resumeAll"], q, d)
        BY OneCarrier DEF KeyHandlers
      <3> HIDE DEF z
      <3> QED BY <2>1, <2>2, <2>5, <3>1, <3>2, BystanderCarried
    <2> QED BY <2>4, <2>5
  <1>7. ASSUME NEW h \in KeyHandlers, Runs(h, <<>>), UNCHANGED playVars
        PROVE  StillCarried(q, d)
    <2>1. ~Carries(h, q, d) /\ \A i \in 1 .. Len(<<>>) : ~Carries(<<>>[i], q, d)
      BY OneCarrier
    <2> QED BY <1>0, <1>7, <2>1, BystanderCarried DEF playVars
  <1>8. ASSUME NEW h \in KeyHandlers, PressKey(h) PROVE StillCarried(q, d)
    <2>1. ready' = Append(ready, h) /\ h \in Handlers /\ UNCHANGED playVars
      BY <1>8 DEF PressKey, Handlers
    <2>2. NoneQueued(q, d)' <=> NoneQueued(q, d)
      BY <1>0, <2>1, PostCarriers, OneCarrier
    <2> QED BY <2>1, <2>2 DEF playVars, StillCarried, Carried, Halted
  <1>9. CASE Aside
    BY <1>9 DEF Aside, playVars, StillCarried, Carried, Halted, NoneQueued, Carries,
                OnNextOf, WokenUp
  <1> QED BY <1>1, <1>2, <1>3, <1>4, <1>5, <1>6, <1>7, <1>8, <1>9, QueueSteps

\* Nothing happens once the io_context no longer runs.
LEMMA OnlyRunning == [PlayerNext]_allVars => Running \/ UNCHANGED allVars
  <1> SUFFICES ASSUME PlayerNext PROVE Running
    OBVIOUS
  <1>1. ASSUME NEW p \in Players, NEW c \in Clients, OnNext(p, c) PROVE Running
    BY <1>1, GoesOnOps DEF OnSleep, OnPlaySubScenario, GoesOn, Runs
  <1>2. ASSUME NEW p \in Players, NEW c \in Clients, OnWoken(p, c) \/ Wakes(p, c)
        PROVE  Running
    BY <1>2 DEF OnWoken, Wakes, Runs
  <1>3. CASE PauseAll \/ ResumeAll
    BY <1>3 DEF PauseAll, ResumeAll, Runs
  <1>4. ASSUME NEW c \in Clients, KeyClose(c) \/ KeyConnect(c) \/ RetryTimer(c)
        PROVE  Running
    BY <1>4 DEF KeyClose, KeyConnect, RetryTimer, Runs
  <1>5. ASSUME NEW h \in KeyHandlers, PressKey(h) PROVE Running
    BY <1>5 DEF PressKey
  <1>6. ASSUME NEW s \in Sessions, SessionNotifies(s) \/ SessionEnds(s) PROVE Running
    BY <1>6 DEF SessionNotifies, SessionEnds
  <1> QED BY <1>1, <1>2, <1>3, <1>4, <1>5, <1>6 DEF PlayerNext, Handler

\* Every client's main scenario starts with a handler in the queue, once.
LEMMA FirstCarriers ==
  ASSUME PlayerInit, NEW c \in Clients
  PROVE  /\ OneQueued(Main, c)
         /\ \A p \in Players \ {Main} : NoneQueued(p, c)
         /\ \A i \in 1 .. Len(ready) : ready[i] = OnNextOf(Main, i - 1)
  <1>1. ready = [i \in DOMAIN InOrder |-> OnNextOf(Main, InOrder[i])]
    BY DEF PlayerInit
  <1>2. DOMAIN ready = DOMAIN InOrder /\ ready \in Seq(Handlers)
    BY <1>1, InOrderTyped
  <1>3. 1 .. Len(ready) = DOMAIN InOrder /\ Len(ready) \in Nat
    BY <1>2, LenProperties
  <1>4. \A i \in 1 .. Len(ready) : ready[i] = OnNextOf(Main, i - 1)
    BY <1>1, <1>3, InOrderTyped
  <1>5. c + 1 \in 1 .. Len(ready) /\ (c + 1) - 1 = c
    <2>1. c \in Int
      BY ClientsAssumption, FS_CardinalityType
    <2> QED BY <1>3, <2>1, InOrderTyped
  <1>6. Carries(ready[c + 1], Main, c)
    BY <1>4, <1>5, OneCarrier
  <1>7. \A i \in 1 .. Len(ready) : Carries(ready[i], Main, c) => i = c + 1
    BY <1>4, OneCarrier
  <1>8. \A i \in 1 .. Len(ready), p \in Players \ {Main} : ~Carries(ready[i], p, c)
    BY <1>4, OneCarrier
  <1> QED BY <1>4, <1>5, <1>6, <1>7, <1>8 DEF OneQueued, NoneQueued

\* NeverLost is inductive by itself.
LEMMA NeverLostInit == PlayerInit => NeverLost
  <1> SUFFICES ASSUME PlayerInit, NEW p \in Players, NEW c \in playing[p]
               PROVE  Halted(p, c) \/ Continuations(p, c) >= 1
    BY DEF NeverLost
  <1>1. PlayerTypeOK
    BY PlayerTypeInit
  <1>2. p = Main /\ c \in Clients
    BY DEF PlayerInit
  <1>3. Carried(p, c)
    BY <1>2, FirstCarriers DEF Carried, NoneQueued, OneQueued
  <1> QED BY <1>1, <1>2, <1>3, ContinuationsCount

\* Whatever runs leaves a scenario its chain, or pauses it.
LEMMA NeverLostStep ==
  PlayerTypeOK /\ PlayerTypeOK' /\ NeverLost /\ [PlayerNext]_allVars => NeverLost'
  <1> SUFFICES ASSUME PlayerTypeOK, PlayerTypeOK', NeverLost, [PlayerNext]_allVars,
                      Running', NEW p \in Players, NEW c \in playing'[p]
               PROVE  Halted(p, c)' \/ Continuations(p, c)' >= 1
    BY DEF NeverLost
  <1>1. Running
    BY OnlyRunning DEF allVars, vars, exitVars, Running
  <1>2. c \in Clients
    BY DEF PlayerTypeOK
  <1>3. c \in playing[p] => Halted(p, c) \/ Carried(p, c)
    BY <1>1, <1>2, ContinuationsCount DEF NeverLost
  <1>4. Halted(p, c)' \/ Carried(p, c)'
    BY <1>2, <1>3, ChainStep DEF StillCarried
  <1>5. CountsContinuations'
    BY CountingContinuations, PTL
  <1> QED BY <1>2, <1>4, <1>5 DEF CountsContinuations

\* Keys, wakes and the end of sub scenarios may come in any order: a scenario that is not
\* paused always has something left that carries it on (scenario_player.h:95-139).
THEOREM ScenariosGoOn == PlayerSpec => []NeverLost
  BY PlayerTypes, NeverLostInit, NeverLostStep, PTL DEF PlayerSpec

-----------------------------------------------------------------------------
(* Without keys there is one chain each. *)

\* No key has left anything behind.
Untouched ==
  /\ \A i \in 1 .. Len(ready) : ready[i] \notin KeyHandlers
  /\ \A c \in Clients : ~paused[c]

\* While the main player waits, or its wait has just ended, it is at a sleep.
WaitsAtSleep(c) ==
  timer[Main][c] = "armed" \/ (\E i \in 1 .. Len(ready) : ready[i] = WokenUp(Main, c))
    => MainOp(config, opIndex[Main][c]).op = "sleep"

\* A sub scenario that is still to be started does not play yet.
SubsInTurn(c) ==
  \A k \in opIndex[Main][c] .. Len(ClientScenario(config)) - 1 :
    MainOp(config, k).op = "sub" => c \notin playing[MainOp(config, k).player]

\* A sub scenario is at rest until it is started.
SubCarriedOnce(p, c) == IF c \in playing[p] THEN CarriedOnce(p, c) ELSE AtRest(p, c)

\* The inductive invariant.  A main scenario has its one chain whatever the labels are.
ChainInv ==
  keys = 0 =>
    /\ Untouched
    /\ \A c \in Clients : CarriedOnce(Main, c) /\ WaitsAtSleep(c)
    /\ LabelsDiffer(config) =>
         \A c \in Clients : SubsInTurn(c) /\ \A p \in Players \ {Main} : SubCarriedOnce(p, c)

\* What can happen without keys.
LEMMA KeylessSteps ==
  ASSUME PlayerTypeOK, keys = 0 => Untouched, [PlayerNext]_allVars, keys' = 0
  PROVE  /\ keys = 0 /\ Untouched /\ Untouched'
         /\ \/ \E p \in Players, c \in Clients : OnNext(p, c) \/ OnWoken(p, c) \/ Wakes(p, c)
            \/ \E s \in Sessions : SessionNotifies(s) \/ SessionEnds(s)
            \/ \E c \in Clients : RetryTimer(c)
            \/ UNCHANGED allVars
  <1>0. /\ ready \in Seq(Handlers) /\ <<>> \in Seq(Handlers) /\ keys \in 0 .. MaxKeys
        /\ \A p \in Players, c \in Clients : OnNextOf(p, c) \notin KeyHandlers /\ WokenUp(p, c) \notin KeyHandlers
    <2>1. \A p \in Players, c \in Clients : OnNextOf(p, c) \notin KeyHandlers /\ WokenUp(p, c) \notin KeyHandlers
      BY OneCarrier DEF Carries
    <2> QED BY <2>1 DEF PlayerTypeOK
  <1>1. \A h \in KeyHandlers : ~PressKey(h)
    BY <1>0, MaxKeysAssumption DEF PressKey
  <1>2. keys = 0 /\ Untouched
    <2>1. UNCHANGED keys
      <3>1. ASSUME NEW p \in Players, NEW c \in Clients, OnNext(p, c) \/ OnWoken(p, c) \/ Wakes(p, c)
            PROVE  UNCHANGED keys
        BY <3>1, GoesOnOps DEF OnSleep, OnPlaySubScenario, GoesOn, OnWoken, Wakes
      <3>2. CASE PauseAll \/ ResumeAll
        BY <3>2 DEF PauseAll, ResumeAll
      <3>3. ASSUME NEW c \in Clients, KeyClose(c) \/ KeyConnect(c) \/ RetryTimer(c)
            PROVE  UNCHANGED keys
        BY <3>3 DEF KeyClose, KeyConnect, RetryTimer
      <3>4. ASSUME NEW s \in Sessions, SessionNotifies(s) \/ SessionEnds(s) PROVE UNCHANGED keys
        BY <3>4 DEF SessionNotifies, SessionEnds
      <3>5. CASE UNCHANGED allVars
        BY <3>5 DEF allVars
      <3> QED BY <1>1, <3>1, <3>2, <3>3, <3>4, <3>5 DEF PlayerNext, Handler
    <2> QED BY <2>1
  <1>3. \A h, z : z \in Seq(Handlers) /\ Runs(h, z) => h \notin KeyHandlers
    <2> SUFFICES ASSUME NEW h, NEW z \in Seq(Handlers), Runs(h, z) PROVE h \notin KeyHandlers
      OBVIOUS
    <2>1. 1 \in 1 .. Len(ready) /\ ready[1] = h
      BY <1>0, RunsCarriers
    <2> QED BY <1>2, <2>1 DEF Untouched
  <1>4. ~PauseAll /\ ~ResumeAll
    <2>1. [do |-> "pauseAll"] \in KeyHandlers /\ [do |-> "resumeAll"] \in KeyHandlers
      BY DEF KeyHandlers
    <2>2. ~PauseAll
      BY <1>0, <1>3, <2>1 DEF PauseAll
    <2>3. [i \in DOMAIN InOrder |-> OnNextOf(Main, InOrder[i])] \in Seq(Handlers)
      BY InOrderTyped
    <2>4. ~ResumeAll
      BY <1>3, <2>1, <2>3 DEF ResumeAll
    <2> QED BY <2>2, <2>4
  <1>5. \A c \in Clients : ~KeyClose(c) /\ ~KeyConnect(c)
    <2> SUFFICES ASSUME NEW c \in Clients PROVE ~KeyClose(c) /\ ~KeyConnect(c)
      OBVIOUS
    <2>1. [do |-> "close", client |-> c] \in KeyHandlers /\ [do |-> "connect", client |-> c] \in KeyHandlers
      BY DEF KeyHandlers
    <2>2. ~Runs([do |-> "close", client |-> c], <<>>) /\ ~Runs([do |-> "connect", client |-> c], <<>>)
      BY <1>0, <1>3, <2>1
    <2> QED BY <2>2 DEF KeyClose, KeyConnect
  <1>6. \/ \E p \in Players, c \in Clients : OnNext(p, c) \/ OnWoken(p, c) \/ Wakes(p, c)
        \/ \E s \in Sessions : SessionNotifies(s) \/ SessionEnds(s)
        \/ \E c \in Clients : RetryTimer(c)
        \/ UNCHANGED allVars
    BY <1>1, <1>4, <1>5 DEF PlayerNext, Handler
  <1>7. Untouched'
    <2>1. ASSUME NEW h, NEW z \in Seq(Handlers), Runs(h, z), UNCHANGED paused,
                 \A i \in 1 .. Len(z) : z[i] \notin KeyHandlers
          PROVE  Untouched'
      <3>1. \A i \in 1 .. Len(ready)' :
              \/ i + 1 \in 1 .. Len(ready) /\ ready'[i] = ready[i + 1]
              \/ i - Len(ready) + 1 \in 1 .. Len(z) /\ ready'[i] = z[i - Len(ready) + 1]
        BY <1>0, <2>1, RunsCarriers
      <3>2. \A i \in 1 .. Len(ready)' : ready'[i] \notin KeyHandlers
        BY <1>2, <2>1, <3>1 DEF Untouched
      <3> QED BY <1>2, <2>1, <3>2 DEF Untouched
    <2>2. \A p \in Players, c \in Clients :
            /\ Posted(p, c) \in Seq(Handlers)
            /\ \A i \in 1 .. Len(Posted(p, c)) : Posted(p, c)[i] \notin KeyHandlers
      <3> SUFFICES ASSUME NEW p \in Players, NEW c \in Clients
                   PROVE  /\ Posted(p, c) \in Seq(Handlers)
                          /\ \A i \in 1 .. Len(Posted(p, c)) : Posted(p, c)[i] \notin KeyHandlers
        OBVIOUS
      <3>1. Posted(p, c) = <<>> \/ Posted(p, c) = <<OnNextOf(p, c)>>
        BY DEF Posted
      <3> QED BY <1>0, <3>1, PostedTyped
    <2>3. ASSUME NEW p \in Players, NEW c \in Clients, OnSleep(p, c) PROVE Untouched'
      <3>1. Runs(OnNextOf(p, c), <<>>) /\ UNCHANGED paused
        BY <2>3 DEF OnSleep
      <3>2. \A i \in 1 .. Len(<<>>) : <<>>[i] \notin KeyHandlers
        OBVIOUS
      <3> QED BY <1>0, <2>1, <3>1, <3>2
    <2>4. ASSUME NEW p \in Players, NEW c \in Clients, GoesOn(p, c) \/ OnWoken(p, c) PROVE Untouched'
      BY <2>1, <2>2, <2>4 DEF GoesOn, OnWoken
    <2>5. ASSUME NEW p \in Players, NEW c \in Clients, OnPlaySubScenario(p, c) PROVE Untouched'
      <3>1. PICK r \in Players \ {Main} : r = Op(p, c).player
        BY <2>5, SubStart DEF OnPlaySubScenario
      <3>2. p = Main
        BY <2>5, SubStart DEF OnPlaySubScenario
      <3>3. Runs(OnNextOf(p, c), StartPosts(p, r, c)) /\ UNCHANGED paused
        BY <2>5, <3>1 DEF OnPlaySubScenario, StartPosts
      <3>4. StartPosts(p, r, c) \in Seq(Handlers)
        BY <3>1, <3>2, StartShape
      <3>5. \A i \in 1 .. Len(StartPosts(p, r, c)) : StartPosts(p, r, c)[i] \notin KeyHandlers
        BY <1>0, <3>1, <3>2, StartShape
      <3> QED BY <2>1, <3>3, <3>4, <3>5
    <2>6. ASSUME NEW p \in Players, NEW c \in Clients, Wakes(p, c) PROVE Untouched'
      <3>1. /\ ready' = Append(ready, WokenUp(p, c)) /\ WokenUp(p, c) \in Handlers
            /\ WokenUp(p, c) \notin KeyHandlers /\ UNCHANGED paused
        BY <1>0, <2>6, PostedTyped DEF Wakes
      <3>2. /\ Len(ready) \in Nat /\ Len(ready)' = Len(ready) + 1
            /\ \A i \in 1 .. Len(ready) : ready'[i] = ready[i]
            /\ ready'[Len(ready) + 1] = WokenUp(p, c)
        BY <1>0, <3>1, PostShape
      <3>3. \A i \in 1 .. Len(ready)' : ready'[i] \notin KeyHandlers
        <4> SUFFICES ASSUME NEW i \in 1 .. Len(ready)' PROVE ready'[i] \notin KeyHandlers
          OBVIOUS
        <4>1. i \in 1 .. Len(ready) \/ i = Len(ready) + 1
          BY <3>2
        <4> QED BY <1>2, <3>1, <3>2, <4>1 DEF Untouched
      <3> QED BY <1>2, <3>1, <3>3 DEF Untouched
    <2>7. CASE Aside
      BY <1>2, <2>7 DEF Aside, playVars, Untouched
    <2>8. ASSUME NEW p \in Players, NEW c \in Clients, OnNext(p, c) PROVE Untouched'
      BY <2>3, <2>4, <2>5, <2>8, GoesOnOps
    <2>9. ASSUME NEW s \in Sessions, SessionNotifies(s) \/ SessionEnds(s) PROVE Untouched'
      BY <2>7, <2>9 DEF SessionNotifies, SessionEnds, Aside
    <2>10. ASSUME NEW c \in Clients, RetryTimer(c) PROVE Untouched'
      BY <2>7, <2>10 DEF RetryTimer, Aside
    <2>11. CASE UNCHANGED allVars
      BY <2>7, <2>11 DEF allVars, Aside
    <2>12. ASSUME NEW p \in Players, NEW c \in Clients, OnWoken(p, c) PROVE Untouched'
      BY <2>4, <2>12
    <2> QED BY <1>6, <2>6, <2>8, <2>9, <2>10, <2>11, <2>12
  <1> QED BY <1>2, <1>6, <1>7

\* A handler that posts nothing for a scenario leaves its chain as it was.
LEMMA BystanderOnce ==
  ASSUME PlayerTypeOK, NEW h, NEW z \in Seq(Handlers), Runs(h, z),
         NEW q \in Players, NEW d \in Clients,
         ~Carries(h, q, d), \A i \in 1 .. Len(z) : ~Carries(z[i], q, d),
         timer'[q][d] = timer[q][d]
  PROVE  /\ CarriedOnce(q, d) => CarriedOnce(q, d)'
         /\ AtRest(q, d) => AtRest(q, d)'
  <1>1. /\ NoneQueued(q, d)' <=> NoneQueued(q, d)
        /\ OneQueued(q, d) => OneQueued(q, d)'
    BY RunsPast DEF PlayerTypeOK
  <1> QED BY <1>1 DEF CarriedOnce, AtRest

\* The scenario whose handler runs is carried by that one, and by no timer.
LEMMA RunningOnce ==
  ASSUME PlayerTypeOK, NEW h, NEW z \in Seq(Handlers), Runs(h, z),
         NEW p \in Players, NEW c \in Clients, Carries(h, p, c)
  PROVE  /\ CarriedOnce(p, c) => timer[p][c] = "idle" /\ OneQueued(p, c)
         /\ ~AtRest(p, c)
  <1>1. 1 \in 1 .. Len(ready) /\ ready[1] = h
    BY RunsCarriers DEF PlayerTypeOK
  <1> QED BY <1>1 DEF CarriedOnce, AtRest, NoneQueued

\* Next() replaces the handler by one other.
LEMMA NextOnce ==
  ASSUME PlayerTypeOK, NEW p \in Players, NEW c \in Clients, ~Halted(p, c),
         NEW h, Runs(h, Posted(p, c)), Carries(h, p, c),
         \A x, y : Carries(h, x, y) => p = x /\ c = y,
         UNCHANGED timer,
         NEW q \in Players, NEW d \in Clients
  PROVE  /\ CarriedOnce(q, d) => CarriedOnce(q, d)'
         /\ AtRest(q, d) => AtRest(q, d)'
         /\ CarriedOnce(p, c) =>
              /\ timer'[p][c] = "idle"
              /\ \A i \in 1 .. Len(ready)' : Carries(ready'[i], p, c) => ready'[i] = OnNextOf(p, c)
  <1>1. /\ Posted(p, c) \in Seq(Handlers) /\ ready \in Seq(Handlers)
        /\ 1 \in 1 .. Len(Posted(p, c)) /\ Posted(p, c)[1] = OnNextOf(p, c)
        /\ \A i \in 1 .. Len(Posted(p, c)) : i = 1
    <2>1. Len(Posted(p, c)) = 1 /\ Posted(p, c)[1] = OnNextOf(p, c)
      BY PostedCarries
    <2> QED BY <2>1, PostedTyped DEF PlayerTypeOK
  <1>2. ASSUME CarriedOnce(p, c)
        PROVE  /\ timer[p][c] = "idle" /\ OneQueued(p, c)'
               /\ \A i \in 1 .. Len(ready)' : Carries(ready'[i], p, c) => ready'[i] = OnNextOf(p, c)
    <2>1. timer[p][c] = "idle" /\ OneQueued(p, c)
      BY <1>1, <1>2, RunningOnce
    <2>2. Carries(Posted(p, c)[1], p, c)
      BY <1>1, OneCarrier
    <2>3. \A i \in 1 .. Len(Posted(p, c)) : Carries(Posted(p, c)[i], p, c) => i = 1
      BY <1>1
    <2>4. /\ OneQueued(p, c)'
          /\ \A i \in 1 .. Len(ready)' :
               Carries(ready'[i], p, c) => ready'[i] = Posted(p, c)[1]
      <3>1. PICK s : s = Posted(p, c)
        OBVIOUS
      <3>2. /\ s \in Seq(Handlers) /\ Runs(h, s) /\ 1 \in 1 .. Len(s) /\ Carries(s[1], p, c)
            /\ \A i \in 1 .. Len(s) : Carries(s[i], p, c) => i = 1
        BY <1>1, <2>2, <2>3, <3>1
      <3>3. /\ OneQueued(p, c)'
            /\ \A i \in 1 .. Len(ready)' : Carries(ready'[i], p, c) => ready'[i] = s[1]
        BY <1>1, <2>1, <3>2, RunsOn
      <3> QED BY <3>1, <3>3
    <2> QED BY <1>1, <2>1, <2>4
  <1>3. CASE q = p /\ d = c
    <2>1. ~AtRest(q, d)
      BY <1>1, <1>3, RunningOnce
    <2> QED BY <1>2, <1>3, <2>1 DEF CarriedOnce
  <1>4. CASE ~(q = p /\ d = c)
    <2>1. \A i \in 1 .. Len(Posted(p, c)) : ~Carries(Posted(p, c)[i], q, d)
      BY <1>1, <1>4, OneCarrier
    <2>2. ~Carries(h, q, d)
      BY <1>4
    <2> QED BY <1>1, <1>2, <2>1, <2>2, BystanderOnce
  <1> QED BY <1>3, <1>4

\* OP_SLEEP replaces the handler by a timer.
LEMMA SleepOnce ==
  ASSUME PlayerTypeOK, NEW p \in Players, NEW c \in Clients, OnSleep(p, c),
         NEW q \in Players, NEW d \in Clients
  PROVE  /\ CarriedOnce(q, d) => CarriedOnce(q, d)'
         /\ AtRest(q, d) => AtRest(q, d)'
  <1>1. /\ Runs(OnNextOf(p, c), <<>>)
        /\ timer' = [timer EXCEPT ![p][c] = "armed"]
        /\ timer \in [Players -> [Clients -> {"idle", "armed"}]]
        /\ ready \in Seq(Handlers) /\ <<>> \in Seq(Handlers)
    BY DEF OnSleep, PlayerTypeOK
  <1>2. \A x, y : \A i \in 1 .. Len(<<>>) : ~Carries(<<>>[i], x, y)
    OBVIOUS
  <1>3. CASE q = p /\ d = c
    <2>1. Carries(OnNextOf(p, c), q, d)
      BY <1>3, OneCarrier
    <2>2. (CarriedOnce(q, d) => OneQueued(q, d)) /\ ~AtRest(q, d)
      BY <1>1, <2>1, RunningOnce
    <2>3. OneQueued(q, d) => NoneQueued(q, d)'
      BY <1>1, <1>2, <2>1, RunsOut
    <2>4. timer'[q][d] = "armed"
      BY <1>1, <1>3
    <2> QED BY <2>2, <2>3, <2>4 DEF CarriedOnce
  <1>4. CASE ~(q = p /\ d = c)
    <2>1. timer'[q][d] = timer[q][d] /\ ~Carries(OnNextOf(p, c), q, d)
      BY <1>1, <1>4, OneCarrier
    <2> QED BY <1>1, <1>2, <2>1, BystanderOnce
  <1> QED BY <1>3, <1>4

\* The end of a wait replaces the timer by a handler.
LEMMA WakeOnce ==
  ASSUME PlayerTypeOK, NEW p \in Players, NEW c \in Clients, Wakes(p, c),
         NEW q \in Players, NEW d \in Clients
  PROVE  /\ CarriedOnce(q, d) => CarriedOnce(q, d)'
         /\ AtRest(q, d) => AtRest(q, d)'
  <1>1. /\ ready' = Append(ready, WokenUp(p, c)) /\ WokenUp(p, c) \in Handlers
        /\ timer[p][c] = "armed" /\ timer' = [timer EXCEPT ![p][c] = "idle"]
        /\ timer \in [Players -> [Clients -> {"idle", "armed"}]]
        /\ ready \in Seq(Handlers)
    BY PostedTyped DEF Wakes, PlayerTypeOK
  <1>2. CASE q = p /\ d = c
    <2>1. NoneQueued(q, d) => OneQueued(q, d)'
      BY <1>1, <1>2, PostCarriers, OneCarrier
    <2>2. timer'[q][d] = "idle"
      BY <1>1, <1>2
    <2> QED BY <1>1, <1>2, <2>1, <2>2 DEF CarriedOnce, AtRest
  <1>3. CASE ~(q = p /\ d = c)
    <2>1. ~Carries(WokenUp(p, c), q, d) /\ timer'[q][d] = timer[q][d]
      BY <1>1, <1>3, OneCarrier
    <2>2. /\ NoneQueued(q, d)' <=> NoneQueued(q, d)
          /\ OneQueued(q, d) => OneQueued(q, d)'
      BY <1>1, <2>1, PostCarriers
    <2> QED BY <2>1, <2>2 DEF CarriedOnce, AtRest
  <1> QED BY <1>2, <1>3

\* A sub scenario is started beside the main one, from rest.
LEMMA StartOnce ==
  ASSUME PlayerTypeOK, NEW p \in Players, NEW c \in Clients, ~Halted(p, c),
         NEW r \in Players, p # r, Runs(OnNextOf(p, c), StartPosts(p, r, c)),
         timer' = [timer EXCEPT ![r][c] = "idle"],
         NEW q \in Players, NEW d \in Clients
  PROVE  /\ CarriedOnce(q, d) /\ ~(q = r /\ d = c) => CarriedOnce(q, d)'
         /\ AtRest(q, d) /\ ~(q = r /\ d = c) => AtRest(q, d)'
         /\ AtRest(r, c) => CarriedOnce(r, c)'
         /\ CarriedOnce(p, c) =>
              /\ timer'[p][c] = "idle"
              /\ \A i \in 1 .. Len(ready)' : Carries(ready'[i], p, c) => ready'[i] = OnNextOf(p, c)
  <1> DEFINE z == StartPosts(p, r, c)
             h == OnNextOf(p, c)
  <1>1. /\ Runs(h, z)
        /\ timer' = [timer EXCEPT ![r][c] = "idle"]
        /\ timer \in [Players -> [Clients -> {"idle", "armed"}]]
        /\ ready \in Seq(Handlers)
    BY DEF PlayerTypeOK
  <1>2. /\ z \in Seq(Handlers)
        /\ 1 \in 1 .. Len(z) /\ z[1] = OnNextOf(r, c)
        /\ 2 \in 1 .. Len(z) /\ z[2] = OnNextOf(p, c)
    BY StartShape
  <1>3. \A i \in 1 .. Len(z) : Carries(z[i], r, c) => i = 1
    BY StartCarries
  <1>4. \A i \in 1 .. Len(z) : Carries(z[i], p, c) => i = 2
    BY StartCarries
  <1>5. ~(q = p /\ d = c) /\ ~(q = r /\ d = c) => \A i \in 1 .. Len(z) : ~Carries(z[i], q, d)
    BY StartBystander
  <1>6. \A x, y : Carries(h, x, y) <=> p = x /\ c = y
    BY OneCarrier
  <1> HIDE DEF z, h
  <1>7. AtRest(r, c) => CarriedOnce(r, c)'
    <2>1. Carries(z[1], r, c)
      BY <1>2, OneCarrier
    <2>2. NoneQueued(r, c) => OneQueued(r, c)'
      BY <1>1, <1>2, <1>3, <2>1, RunsOn
    <2>3. timer'[r][c] = "idle"
      BY <1>1
    <2> QED BY <2>2, <2>3 DEF AtRest, CarriedOnce
  <1>8. ASSUME CarriedOnce(p, c)
        PROVE  /\ timer'[p][c] = "idle" /\ OneQueued(p, c)'
               /\ \A i \in 1 .. Len(ready)' : Carries(ready'[i], p, c) => ready'[i] = OnNextOf(p, c)
    <2>1. timer[p][c] = "idle" /\ OneQueued(p, c)
      BY <1>1, <1>2, <1>6, <1>8, RunningOnce
    <2>2. PICK k \in 1 .. Len(z) :
            /\ z[k] = OnNextOf(p, c)
            /\ \A i \in 1 .. Len(z) : Carries(z[i], p, c) => i = k
      BY <1>2, <1>4
    <2>3. /\ OneQueued(p, c)'
          /\ \A i \in 1 .. Len(ready)' : Carries(ready'[i], p, c) => ready'[i] = z[k]
      <3>1. Carries(h, p, c) /\ Carries(z[k], p, c)
        BY <1>6, <2>2, OneCarrier
      <3>2. ready \in Seq(Handlers) /\ z \in Seq(Handlers) /\ Runs(h, z) /\ OneQueued(p, c)
        BY <1>1, <1>2, <2>1
      <3>3. \A i \in 1 .. Len(z) : Carries(z[i], p, c) => i = k
        BY <2>2
      <3>4. OneQueued(p, c)'
        BY <3>1, <3>2, <3>3, RunsOn
      <3>5. \A i \in 1 .. Len(ready)' : Carries(ready'[i], p, c) => ready'[i] = z[k]
        BY <3>1, <3>2, <3>3, RunsOn
      <3> QED BY <3>4, <3>5
    <2>4. timer'[p][c] = timer[p][c]
      BY <1>1
    <2> QED BY <2>1, <2>2, <2>3, <2>4
  <1>9. CASE q = p /\ d = c
    <2>1. ~AtRest(q, d)
      BY <1>1, <1>2, <1>6, <1>9, RunningOnce
    <2> QED BY <1>7, <1>8, <1>9, <2>1 DEF CarriedOnce
  <1>10. CASE ~(q = p /\ d = c) /\ ~(q = r /\ d = c)
    <2>1. timer'[q][d] = timer[q][d]
      BY <1>1, <1>10
    <2>2. ~Carries(h, q, d) /\ \A i \in 1 .. Len(z) : ~Carries(z[i], q, d)
      BY <1>5, <1>6, <1>10
    <2>3. /\ CarriedOnce(q, d) => CarriedOnce(q, d)'
          /\ AtRest(q, d) => AtRest(q, d)'
      BY <1>1, <1>2, <2>1, <2>2, BystanderOnce
    <2> QED BY <1>7, <1>8, <2>3
  <1> QED BY <1>7, <1>8, <1>9, <1>10

\* The chain of a player and client stays as it is.
Steady(q, d) ==
  /\ CarriedOnce(q, d) => CarriedOnce(q, d)'
  /\ AtRest(q, d) => AtRest(q, d)'

\* A step that starts nothing, and one that starts the player r for client c.
QuietStep ==
  /\ playing' = playing
  /\ \A d \in Clients : opIndex'[Main][d] \in {opIndex[Main][d], Following(Main, d)}
  /\ \A q \in Players, d \in Clients : Steady(q, d)
StartStep(r, c) ==
  /\ r # Main
  /\ MainOp(config, opIndex[Main][c]).op = "sub"
  /\ MainOp(config, opIndex[Main][c]).player = r
  /\ playing' = [playing EXCEPT ![r] = @ \cup {c}]
  /\ \A d \in Clients :
       opIndex'[Main][d] = IF d = c THEN Following(Main, c) ELSE opIndex[Main][d]
  /\ \A q \in Players, d \in Clients : (q = r /\ d = c) \/ Steady(q, d)
  /\ AtRest(r, c) => CarriedOnce(r, c)'

\* OP_SLEEP and the end of its wait start nothing.
LEMMA SleepKind ==
  ASSUME PlayerTypeOK, NEW p \in Players, NEW c \in Clients, OnSleep(p, c) \/ Wakes(p, c)
  PROVE  QuietStep
  <1>1. UNCHANGED <<opIndex, playing>>
    BY DEF OnSleep, Wakes
  <1>2. \A q \in Players, d \in Clients : Steady(q, d)
    BY SleepOnce, WakeOnce DEF Steady
  <1> QED BY <1>1, <1>2 DEF QuietStep

\* Neither does Next() after another operation, or after a wait.
LEMMA NextKind ==
  ASSUME PlayerTypeOK, Untouched, NEW p \in Players, NEW c \in Clients,
         GoesOn(p, c) \/ OnWoken(p, c)
  PROVE  /\ QuietStep
         /\ CarriedOnce(p, c) =>
              /\ timer'[p][c] = "idle"
              /\ \A i \in 1 .. Len(ready)' : Carries(ready'[i], p, c) => ready'[i] = OnNextOf(p, c)
  <1>1. PICK h \in {OnNextOf(p, c), WokenUp(p, c)} : Runs(h, Posted(p, c))
    BY DEF GoesOn, OnWoken
  <1>2. /\ opIndex' = [opIndex EXCEPT ![p][c] = Following(p, c)]
        /\ UNCHANGED <<timer, playing, paused>>
    BY DEF GoesOn, OnWoken
  <1>3. Carries(h, p, c) /\ \A x, y : Carries(h, x, y) => p = x /\ c = y
    BY <1>1, OneCarrier
  <1>4. ~Halted(p, c)
    BY DEF Untouched, Halted
  <1>5. Runs(h, Posted(p, c)) /\ UNCHANGED timer
    BY <1>1, <1>2
  <1>6. \A q \in Players, d \in Clients : Steady(q, d)
    BY <1>3, <1>4, <1>5, NextOnce DEF Steady
  <1>7. CarriedOnce(p, c) =>
          /\ timer'[p][c] = "idle"
          /\ \A i \in 1 .. Len(ready)' : Carries(ready'[i], p, c) => ready'[i] = OnNextOf(p, c)
    BY <1>3, <1>4, <1>5, NextOnce
  <1>8. opIndex \in [Players -> [Clients -> Nat]] /\ Main \in Players
    BY DEF PlayerTypeOK, Players
  <1>9. \A d \in Clients : opIndex'[Main][d] \in {opIndex[Main][d], Following(Main, d)}
    BY <1>2, <1>8
  <1> QED BY <1>2, <1>6, <1>7, <1>9 DEF QuietStep

\* OP_PLAY_SUB_SCENARIO starts one.
LEMMA StartKind ==
  ASSUME PlayerTypeOK, Untouched, NEW p \in Players, NEW c \in Clients,
         OnPlaySubScenario(p, c)
  PROVE  /\ \E r \in Players : StartStep(r, c)
         /\ p = Main
         /\ \E r \in Players \ {Main} :
              Runs(OnNextOf(Main, c), StartPosts(Main, r, c)) /\ timer' = [timer EXCEPT ![r][c] = "idle"]
         /\ CarriedOnce(Main, c) =>
              /\ timer'[Main][c] = "idle"
              /\ \A i \in 1 .. Len(ready)' :
                   Carries(ready'[i], Main, c) => ready'[i] = OnNextOf(Main, c)
  <1>1. /\ p = Main /\ Op(p, c).player \in Players \ {Main} /\ Op(p, c).op = "sub"
        /\ Op(p, c) = MainOp(config, opIndex[Main][c])
    BY SubStart DEF OnPlaySubScenario
  <1>2. PICK r \in Players \ {Main} : r = Op(Main, c).player
    BY <1>1
  <1>3. /\ Runs(OnNextOf(Main, c), StartPosts(Main, r, c))
        /\ timer' = [timer EXCEPT ![r][c] = "idle"]
        /\ playing' = [playing EXCEPT ![r] = @ \cup {c}]
        /\ opIndex' = [opIndex EXCEPT ![Main][c] = Following(Main, c), ![r][c] = 0]
    BY <1>1, <1>2 DEF OnPlaySubScenario, StartPosts
  <1>4. Main \in Players /\ opIndex \in [Players -> [Clients -> Nat]]
    BY <1>1 DEF PlayerTypeOK
  <1>5. \A d \in Clients :
          opIndex'[Main][d] = IF d = c THEN Following(Main, c) ELSE opIndex[Main][d]
    BY <1>2, <1>3, <1>4
  <1>6. /\ Main # r /\ ~Halted(Main, c) /\ Main \in Players
        /\ Runs(OnNextOf(Main, c), StartPosts(Main, r, c))
        /\ timer' = [timer EXCEPT ![r][c] = "idle"]
    BY <1>2, <1>3, <1>4 DEF Untouched, Halted
  <1>7. \A q \in Players, d \in Clients : (q = r /\ d = c) \/ Steady(q, d)
    BY <1>6, StartOnce DEF Steady
  <1>8. /\ AtRest(r, c) => CarriedOnce(r, c)'
        /\ CarriedOnce(Main, c) =>
             /\ timer'[Main][c] = "idle"
             /\ \A i \in 1 .. Len(ready)' :
                  Carries(ready'[i], Main, c) => ready'[i] = OnNextOf(Main, c)
    BY <1>6, StartOnce
  <1>9. StartStep(r, c)
    BY <1>1, <1>2, <1>3, <1>5, <1>7, <1>8 DEF StartStep
  <1> QED BY <1>1, <1>3, <1>8, <1>9

\* A client's main scenario that a step does not touch still waits at a sleep.
LEMMA WaitsOn ==
  ASSUME NEW d, WaitsAtSleep(d), config' = config, opIndex'[Main][d] = opIndex[Main][d],
         timer'[Main][d] = "armed" => timer[Main][d] = "armed",
         (\E i \in 1 .. Len(ready)' : ready'[i] = WokenUp(Main, d)) =>
           timer[Main][d] = "armed" \/ \E i \in 1 .. Len(ready) : ready[i] = WokenUp(Main, d)
  PROVE  WaitsAtSleep(d)'
  BY DEF WaitsAtSleep, MainOp

\* One that has gone on does not wait.
LEMMA WaitsNoMore ==
  ASSUME NEW d, timer'[Main][d] = "idle",
         \A i \in 1 .. Len(ready)' : Carries(ready'[i], Main, d) => ready'[i] = OnNextOf(Main, d)
  PROVE  WaitsAtSleep(d)'
  <1>1. \A i \in 1 .. Len(ready)' : ready'[i] # WokenUp(Main, d)
    BY OneCarrier DEF Carries
  <1> QED BY <1>1 DEF WaitsAtSleep

\* A handler whose wait has ended is only queued by that wait.
LEMMA WokenStays ==
  ASSUME ready \in Seq(Handlers), NEW h, NEW z \in Seq(Handlers), Runs(h, z), NEW d,
         \A i \in 1 .. Len(z) : z[i] # WokenUp(Main, d)
  PROVE  (\E i \in 1 .. Len(ready)' : ready'[i] = WokenUp(Main, d)) =>
           \E i \in 1 .. Len(ready) : ready[i] = WokenUp(Main, d)
  <1>1. \A i \in 1 .. Len(ready)' :
          \/ i + 1 \in 1 .. Len(ready) /\ ready'[i] = ready[i + 1]
          \/ i - Len(ready) + 1 \in 1 .. Len(z) /\ ready'[i] = z[i - Len(ready) + 1]
    BY RunsCarriers
  <1> QED BY <1>1

\* Every step leaves the waiting main scenarios at their sleeps.
LEMMA WaitsStep ==
  ASSUME PlayerTypeOK, Untouched, config' = config, NEW p \in Players, NEW c \in Clients,
         OnNext(p, c) \/ OnWoken(p, c) \/ Wakes(p, c),
         NEW d \in Clients, CarriedOnce(Main, d), WaitsAtSleep(d)
  PROVE  WaitsAtSleep(d)'
  <1>1. /\ Main \in Players /\ opIndex \in [Players -> [Clients -> Nat]] /\ ready \in Seq(Handlers)
        /\ timer \in [Players -> [Clients -> {"idle", "armed"}]]
    BY DEF PlayerTypeOK, Players
  <1>2. CASE OnSleep(p, c)
    <2>1. /\ Op(p, c).op = "sleep" /\ timer' = [timer EXCEPT ![p][c] = "armed"]
          /\ UNCHANGED opIndex /\ Runs(OnNextOf(p, c), <<>>) /\ <<>> \in Seq(Handlers)
      BY <1>2 DEF OnSleep
    <2>2. CASE p = Main /\ d = c
      <3>1. MainOp(config, opIndex[Main][d]).op = "sleep"
        BY <2>1, <2>2 DEF Op, Ops, MainOp
      <3> QED BY <2>1, <3>1 DEF WaitsAtSleep, MainOp
    <2>3. CASE ~(p = Main /\ d = c)
      <3>1. timer'[Main][d] = timer[Main][d]
        BY <1>1, <2>1, <2>3
      <3>2. \A i \in 1 .. Len(<<>>) : <<>>[i] # WokenUp(Main, d)
        OBVIOUS
      <3>3. (\E i \in 1 .. Len(ready)' : ready'[i] = WokenUp(Main, d)) =>
              \E i \in 1 .. Len(ready) : ready[i] = WokenUp(Main, d)
        BY <1>1, <2>1, <3>2, WokenStays
      <3> QED BY <2>1, <3>1, <3>3, WaitsOn
    <2> QED BY <2>2, <2>3
  <1>3. CASE Wakes(p, c)
    <2>1. /\ timer[p][c] = "armed" /\ timer' = [timer EXCEPT ![p][c] = "idle"]
          /\ UNCHANGED opIndex /\ ready' = Append(ready, WokenUp(p, c))
          /\ WokenUp(p, c) \in Handlers
      BY <1>3, PostedTyped DEF Wakes
    <2>2. timer'[Main][d] = "armed" => timer[Main][d] = "armed"
      BY <1>1, <2>1
    <2>3. /\ Len(ready) \in Nat /\ Len(ready)' = Len(ready) + 1
          /\ \A i \in 1 .. Len(ready) : ready'[i] = ready[i]
          /\ ready'[Len(ready) + 1] = WokenUp(p, c)
      BY <1>1, <2>1, PostShape
    <2>4. WokenUp(p, c) = WokenUp(Main, d) => p = Main /\ c = d
      BY OneCarrier DEF Carries
    <2>5. (\E i \in 1 .. Len(ready)' : ready'[i] = WokenUp(Main, d)) =>
            timer[Main][d] = "armed" \/ \E i \in 1 .. Len(ready) : ready[i] = WokenUp(Main, d)
      <3>1. \A i \in 1 .. Len(ready)' : i \in 1 .. Len(ready) \/ i = Len(ready) + 1
        BY <2>3
      <3> QED BY <2>1, <2>3, <2>4, <3>1
    <2> QED BY <2>1, <2>2, <2>5, WaitsOn
  <1>4. CASE GoesOn(p, c) \/ OnWoken(p, c)
    <2>1. PICK h : Runs(h, Posted(p, c))
      BY <1>4 DEF GoesOn, OnWoken
    <2>2. /\ opIndex' = [opIndex EXCEPT ![p][c] = Following(p, c)] /\ UNCHANGED timer
      BY <1>4 DEF GoesOn, OnWoken
    <2>3. CASE p = Main /\ d = c
      <3>1. /\ timer'[p][c] = "idle"
            /\ \A i \in 1 .. Len(ready)' : Carries(ready'[i], p, c) => ready'[i] = OnNextOf(p, c)
        BY <1>4, <2>3, NextKind
      <3> QED BY <2>3, <3>1, WaitsNoMore
    <2>4. CASE ~(p = Main /\ d = c)
      <3>1. opIndex'[Main][d] = opIndex[Main][d] /\ timer'[Main][d] = timer[Main][d]
        BY <1>1, <2>2, <2>4
      <3>2. \A i \in 1 .. Len(Posted(p, c)) : Posted(p, c)[i] # WokenUp(Main, d)
        <4>1. Posted(p, c) = <<>> \/ Posted(p, c) = <<OnNextOf(p, c)>>
          BY DEF Posted
        <4>2. OnNextOf(p, c) # WokenUp(Main, d)
          BY OneCarrier
        <4> QED BY <4>1, <4>2
      <3>3. (\E i \in 1 .. Len(ready)' : ready'[i] = WokenUp(Main, d)) =>
              \E i \in 1 .. Len(ready) : ready[i] = WokenUp(Main, d)
        BY <1>1, <2>1, <3>2, PostedTyped, WokenStays
      <3> QED BY <3>1, <3>3, WaitsOn
    <2> QED BY <2>3, <2>4
  <1>5. CASE OnPlaySubScenario(p, c)
    <2>1. CASE d = c
      <3>1. /\ timer'[Main][c] = "idle"
            /\ \A i \in 1 .. Len(ready)' :
                 Carries(ready'[i], Main, c) => ready'[i] = OnNextOf(Main, c)
        BY <1>5, <2>1, StartKind
      <3> QED BY <2>1, <3>1, WaitsNoMore
    <2>2. CASE d # c
      <3>1. PICK r \in Players \ {Main} :
              Runs(OnNextOf(Main, c), StartPosts(Main, r, c)) /\ timer' = [timer EXCEPT ![r][c] = "idle"]
        BY <1>5, StartKind
      <3>2. PICK x \in Players : StartStep(x, c)
        BY <1>5, StartKind
      <3>3. opIndex'[Main][d] = opIndex[Main][d]
        BY <2>2, <3>2 DEF StartStep
      <3>4. timer'[Main][d] = timer[Main][d]
        BY <1>1, <3>1
      <3>5. /\ StartPosts(Main, r, c) \in Seq(Handlers)
            /\ \A i \in 1 .. Len(StartPosts(Main, r, c)) :
                 StartPosts(Main, r, c)[i] \in {OnNextOf(r, c), OnNextOf(Main, c)}
        <4> DEFINE z == StartPosts(Main, r, c)
        <4>1. /\ z \in Seq(Handlers) /\ z[1] = OnNextOf(r, c)
              /\ \A i \in 1 .. Len(z) : i = 1 \/ z[i] = OnNextOf(Main, c)
          BY <1>1, <3>1, StartShape
        <4> HIDE DEF z
        <4>2. \A i \in 1 .. Len(z) : z[i] \in {OnNextOf(r, c), OnNextOf(Main, c)}
          BY <4>1
        <4> QED BY <4>1, <4>2 DEF z
      <3>6. \A i \in 1 .. Len(StartPosts(Main, r, c)) : StartPosts(Main, r, c)[i] # WokenUp(Main, d)
        <4>1. OnNextOf(r, c) # WokenUp(Main, d) /\ OnNextOf(Main, c) # WokenUp(Main, d)
          BY OneCarrier
        <4> QED BY <3>5, <4>1
      <3>7. (\E i \in 1 .. Len(ready)' : ready'[i] = WokenUp(Main, d)) =>
              \E i \in 1 .. Len(ready) : ready[i] = WokenUp(Main, d)
        BY <1>1, <3>1, <3>5, <3>6, WokenStays
      <3> QED BY <3>3, <3>4, <3>7, WaitsOn
    <2> QED BY <2>1, <2>2
  <1> QED BY <1>2, <1>3, <1>4, <1>5, GoesOnOps

\* A step goes on to the next operation, or back to the loop, which starts nothing.
LEMMA TurnStep ==
  ASSUME PlayerTypeOK, Untouched, config' = config, NEW c \in Clients, SubsInTurn(c),
         opIndex'[Main][c] \in {opIndex[Main][c], Following(Main, c)},
         \A k \in Nat : /\ k \in opIndex'[Main][c] .. Len(ClientScenario(config)) - 1
                        /\ MainOp(config, k).op = "sub"
                        /\ c \in playing'[MainOp(config, k).player]
                        => c \in playing[MainOp(config, k).player]
  PROVE  SubsInTurn(c)'
  <1> DEFINE n == Len(ClientScenario(config))
             j == opIndex[Main][c]
             i == opIndex'[Main][c]
             l == LoopIndex(config)
  <1>1. /\ config \in Configs /\ Main \in Players
        /\ j \in Nat /\ j < Len(Ops(Main))
    BY DEF PlayerTypeOK, Players
  <1>2. n \in Nat /\ l \in Nat /\ l < n /\ Len(Ops(Main)) = n /\ LoopOf(Main) = l
    BY <1>1, LoopInside DEF Ops, LoopOf
  <1>3. i = j \/ i = j + 1 \/ i = l
    BY <1>2 DEF Following, Untouched, Halted
  <1> HIDE DEF n, i, j, l
  <1>4. i \in Nat
    BY <1>1, <1>2, <1>3
  <1>5. ASSUME NEW k \in i .. n - 1, MainOp(config, k).op = "sub"
        PROVE  k \in j .. n - 1
    <2>1. k \in 0 .. n - 1
      BY <1>4, <1>2
    <2>2. k \in 2 .. l - 1
      BY <1>1, <1>5, <2>1, SubOps DEF n, l
    <2> QED BY <1>1, <1>2, <1>3, <1>4, <2>1, <2>2
  <1>6. \A k \in i .. n - 1 : k \in Nat
    BY <1>4, <1>2
  <1>7. ASSUME NEW k \in i .. n - 1, MainOp(config, k).op = "sub"
        PROVE  c \notin playing'[MainOp(config, k).player]
    <2>1. k \in j .. n - 1 /\ k \in Nat
      BY <1>5, <1>6, <1>7
    <2>2. c \notin playing[MainOp(config, k).player]
      BY <1>7, <2>1 DEF SubsInTurn, n, j
    <2> QED BY <1>7, <2>1, <2>2 DEF n, i
  <1> QED BY <1>7 DEF SubsInTurn, MainOp, n, i

\* A step that starts nothing keeps the sub scenarios' chains.
LEMMA SubsQuiet ==
  ASSUME PlayerTypeOK, Untouched, config' = config, QuietStep, NEW c \in Clients, SubsInTurn(c),
         \A p \in Players \ {Main} : SubCarriedOnce(p, c)
  PROVE  SubsInTurn(c)' /\ \A p \in Players \ {Main} : SubCarriedOnce(p, c)'
  <1>1. opIndex'[Main][c] \in {opIndex[Main][c], Following(Main, c)} /\ playing' = playing
    BY DEF QuietStep
  <1>2. SubsInTurn(c)'
    BY <1>1, TurnStep
  <1>3. \A p \in Players \ {Main} : Steady(p, c)
    BY DEF QuietStep
  <1> QED BY <1>1, <1>2, <1>3 DEF Steady, SubCarriedOnce

\* One that starts a player finds it at rest: with labels that differ, no other
\* operation of the scenario is for that player.
LEMMA SubsStart ==
  ASSUME PlayerTypeOK, Untouched, config' = config, LabelsDiffer(config),
         NEW r \in Players, NEW d \in Clients, StartStep(r, d),
         NEW c \in Clients, SubsInTurn(c),
         \A p \in Players \ {Main} : SubCarriedOnce(p, c)
  PROVE  SubsInTurn(c)' /\ \A p \in Players \ {Main} : SubCarriedOnce(p, c)'
  <1> DEFINE n == Len(ClientScenario(config))
             j == opIndex[Main][c]
             l == LoopIndex(config)
  <1>1. /\ config \in Configs /\ Main \in Players /\ playing \in [Players -> SUBSET Clients]
        /\ j \in Nat /\ j < Len(Ops(Main))
    BY DEF PlayerTypeOK, Players
  <1>2. n \in Nat /\ l \in Nat /\ l < n /\ Len(Ops(Main)) = n /\ LoopOf(Main) = l
    BY <1>1, LoopInside DEF Ops, LoopOf
  <1>3. /\ playing' = [playing EXCEPT ![r] = @ \cup {d}]
        /\ \A q \in Players : q = r \/ Steady(q, c)
        /\ d # c => Steady(r, c)
        /\ opIndex'[Main][c] = IF c = d THEN Following(Main, d) ELSE opIndex[Main][c]
        /\ AtRest(r, d) => CarriedOnce(r, d)'
    BY DEF StartStep
  <1>4. CASE d # c
    <2>1. \A q \in Players : c \in playing'[q] <=> c \in playing[q]
      BY <1>1, <1>3, <1>4
    <2>2. \A k \in Nat : /\ k \in opIndex'[Main][c] .. Len(ClientScenario(config)) - 1
                         /\ MainOp(config, k).op = "sub"
                         /\ c \in playing'[MainOp(config, k).player]
                         => c \in playing[MainOp(config, k).player]
      <3> SUFFICES ASSUME NEW k \in Nat, k \in j .. n - 1, MainOp(config, k).op = "sub",
                          c \in playing'[MainOp(config, k).player]
                   PROVE  c \in playing[MainOp(config, k).player]
        BY <1>3, <1>4
      <3>1. k \in 0 .. n - 1
        BY <1>1, <1>2
      <3>2. MainOp(config, k).player \in SubPlayers(config)
        BY <1>1, <3>1, SubOps
      <3>3. MainOp(config, k).player \in Players
        BY <1>1, <3>2 DEF Players
      <3> QED BY <2>1, <3>3
    <2>3. SubsInTurn(c)'
      BY <1>3, <1>4, <2>2, TurnStep
    <2>4. \A p \in Players \ {Main} : Steady(p, c)
      BY <1>3, <1>4
    <2> QED BY <2>1, <2>3, <2>4 DEF Steady, SubCarriedOnce
  <1>5. CASE d = c
    <2>1. j \in 0 .. n - 1 /\ MainOp(config, j).op = "sub" /\ MainOp(config, j).player = r /\ r # Main
      BY <1>1, <1>2, <1>5 DEF StartStep
    <2>2. /\ j \in 2 .. l - 1
          /\ \A k \in 0 .. n - 1 :
               MainOp(config, k).op = "sub" /\ MainOp(config, k).player = r => k = j
      BY <1>1, <2>1, SubOps
    <2>3. opIndex'[Main][c] = j + 1
      BY <1>1, <1>2, <1>3, <1>5, <2>2 DEF Following, Untouched, Halted
    <2>4. \A q \in Players : q # r => (c \in playing'[q] <=> c \in playing[q])
      BY <1>1, <1>3, <1>5
    <2>5. \A k \in Nat : /\ k \in opIndex'[Main][c] .. Len(ClientScenario(config)) - 1
                         /\ MainOp(config, k).op = "sub"
                         /\ c \in playing'[MainOp(config, k).player]
                         => c \in playing[MainOp(config, k).player]
      <3> SUFFICES ASSUME NEW k \in Nat, k \in j + 1 .. n - 1, MainOp(config, k).op = "sub",
                          c \in playing'[MainOp(config, k).player]
                   PROVE  c \in playing[MainOp(config, k).player]
        BY <2>3
      <3>1. k \in 0 .. n - 1 /\ k # j
        BY <1>1, <1>2
      <3>2. MainOp(config, k).player \in SubPlayers(config)
        BY <1>1, <3>1, SubOps
      <3>3. MainOp(config, k).player \in Players
        BY <1>1, <3>2 DEF Players
      <3>4. MainOp(config, k).player # r
        BY <2>2, <3>1
      <3> QED BY <2>4, <3>3, <3>4
    <2>6. SubsInTurn(c)'
      <3>1. opIndex'[Main][c] \in {opIndex[Main][c], Following(Main, c)}
        BY <1>3, <1>5
      <3> QED BY <2>5, <3>1, TurnStep
    <2>7. c \notin playing[r]
      <3>1. j \in j .. n - 1
        BY <1>1, <1>2, <2>1
      <3> QED BY <2>1, <3>1 DEF SubsInTurn
    <2>8. SubCarriedOnce(r, c)'
      <3>1. AtRest(r, c)
        BY <2>1, <2>7 DEF SubCarriedOnce
      <3>2. CarriedOnce(r, c)' /\ c \in playing'[r]
        BY <1>1, <1>3, <1>5, <3>1
      <3> QED BY <3>2 DEF SubCarriedOnce
    <2>9. \A p \in Players \ {Main} : p # r => SubCarriedOnce(p, c)'
      BY <1>3, <2>4 DEF Steady, SubCarriedOnce
    <2> QED BY <2>6, <2>8, <2>9
  <1> QED BY <1>4, <1>5

\* run() is called with the one handler that starts each main scenario.
LEMMA ChainInvInit == PlayerInit => PlayerTypeOK /\ ChainInv
  <1> SUFFICES ASSUME PlayerInit PROVE PlayerTypeOK /\ ChainInv
    OBVIOUS
  <1>1. PlayerTypeOK
    BY PlayerTypeInit
  <1>2. /\ ready \in Seq(Handlers) /\ Main \in Players /\ config \in Configs
        /\ timer = [p \in Players |-> [c \in Clients |-> "idle"]]
        /\ opIndex = [p \in Players |-> [c \in Clients |-> 0]]
        /\ playing = [p \in Players |-> IF p = Main THEN Clients ELSE {}]
        /\ paused = [c \in Clients |-> FALSE]
    BY <1>1 DEF PlayerInit, PlayerTypeOK, Players
  <1>3. /\ DOMAIN InOrder = 1 .. Cardinality(Clients)
        /\ \A i \in DOMAIN InOrder : InOrder[i] \in Clients
    BY InOrderTyped
  <1>4. \A i \in 1 .. Len(ready) : \E c \in Clients : ready[i] = OnNextOf(Main, c)
    <2>1. ready = [i \in DOMAIN InOrder |-> OnNextOf(Main, InOrder[i])]
      BY DEF PlayerInit
    <2>2. Len(ready) \in Nat /\ DOMAIN ready = 1 .. Len(ready)
      BY <1>2
    <2>3. DOMAIN ready = DOMAIN InOrder
      BY <2>1
    <2> QED BY <1>3, <2>1, <2>2, <2>3
  <1>5. Untouched
    <2>1. \A c \in Clients : OnNextOf(Main, c) \notin KeyHandlers
      BY <1>2, OneCarrier DEF Carries
    <2> QED BY <1>2, <1>4, <2>1 DEF Untouched
  <1>6. ASSUME NEW c \in Clients PROVE CarriedOnce(Main, c) /\ WaitsAtSleep(c)
    <2>1. OneQueued(Main, c) /\ timer[Main][c] = "idle"
      BY <1>2, FirstCarriers
    <2>2. \A i \in 1 .. Len(ready) : ready[i] # WokenUp(Main, c)
      BY <1>4, OneCarrier
    <2> QED BY <2>1, <2>2 DEF CarriedOnce, WaitsAtSleep
  <1>7. ASSUME NEW c \in Clients
        PROVE  SubsInTurn(c) /\ \A p \in Players \ {Main} : SubCarriedOnce(p, c)
    <2>1. \A p \in Players \ {Main} : AtRest(p, c) /\ c \notin playing[p]
      BY <1>2, FirstCarriers DEF AtRest
    <2>2. SubsInTurn(c)
      <3>1. Len(ClientScenario(config)) \in Nat /\ opIndex[Main][c] = 0
        BY <1>2, LoopInside
      <3>2. ASSUME NEW k \in 0 .. Len(ClientScenario(config)) - 1, MainOp(config, k).op = "sub"
            PROVE  c \notin playing[MainOp(config, k).player]
        <4>1. MainOp(config, k).player \in Players \ {Main}
          BY <1>2, <3>2, SubOps DEF Players
        <4> QED BY <2>1, <4>1
      <3> QED BY <3>1, <3>2 DEF SubsInTurn
    <2> QED BY <2>1, <2>2 DEF SubCarriedOnce
  <1> QED BY <1>1, <1>5, <1>6, <1>7 DEF ChainInv

\* The chains are kept by every step.
LEMMA ChainInvStep == PlayerTypeOK /\ ChainInv /\ [PlayerNext]_allVars => ChainInv'
  <1> SUFFICES ASSUME PlayerTypeOK, ChainInv, [PlayerNext]_allVars, keys' = 0
               PROVE  /\ Untouched'
                      /\ \A c \in Clients : CarriedOnce(Main, c)' /\ WaitsAtSleep(c)'
                      /\ LabelsDiffer(config)' =>
                           \A c \in Clients :
                             SubsInTurn(c)' /\ \A p \in Players \ {Main} : SubCarriedOnce(p, c)'
    BY DEF ChainInv, Players
  <1>1. config' = config
    BY GivenIsKept DEF given
  <1>2. /\ keys = 0 /\ Untouched /\ Untouched'
        /\ \/ \E p \in Players, c \in Clients : OnNext(p, c) \/ OnWoken(p, c) \/ Wakes(p, c)
           \/ \E s \in Sessions : SessionNotifies(s) \/ SessionEnds(s)
           \/ \E c \in Clients : RetryTimer(c)
           \/ UNCHANGED allVars
    BY KeylessSteps DEF ChainInv
  <1>3. /\ \A c \in Clients : CarriedOnce(Main, c) /\ WaitsAtSleep(c)
        /\ LabelsDiffer(config) =>
             \A c \in Clients : SubsInTurn(c) /\ \A p \in Players \ {Main} : SubCarriedOnce(p, c)
    BY <1>2 DEF ChainInv
  <1>4. Main \in Players
    BY DEF Players
  <1>5. LabelsDiffer(config)' = LabelsDiffer(config)
    BY <1>1 DEF LabelsDiffer
  <1>6. ASSUME NEW p \in Players, NEW d \in Clients,
               OnNext(p, d) \/ OnWoken(p, d) \/ Wakes(p, d)
        PROVE  /\ \A c \in Clients : CarriedOnce(Main, c)' /\ WaitsAtSleep(c)'
               /\ LabelsDiffer(config)' =>
                    \A c \in Clients :
                      SubsInTurn(c)' /\ \A q \in Players \ {Main} : SubCarriedOnce(q, c)'
    <2>1. QuietStep \/ \E r \in Players : StartStep(r, d)
      BY <1>2, <1>6, GoesOnOps, SleepKind, NextKind, StartKind
    <2>2. \A c \in Clients : WaitsAtSleep(c)'
      BY <1>1, <1>2, <1>3, <1>6, WaitsStep
    <2>3. \A c \in Clients : CarriedOnce(Main, c)'
      <3>1. \A c \in Clients : Steady(Main, c)
        BY <1>4, <2>1 DEF QuietStep, StartStep
      <3> QED BY <1>3, <3>1 DEF Steady
    <2>4. ASSUME LabelsDiffer(config), NEW c \in Clients
          PROVE  SubsInTurn(c)' /\ \A q \in Players \ {Main} : SubCarriedOnce(q, c)'
      <3>1. SubsInTurn(c) /\ \A q \in Players \ {Main} : SubCarriedOnce(q, c)
        BY <1>3, <2>4
      <3>2. CASE QuietStep
        BY <1>1, <1>2, <3>1, <3>2, SubsQuiet
      <3>3. ASSUME NEW r \in Players, StartStep(r, d)
            PROVE  SubsInTurn(c)' /\ \A q \in Players \ {Main} : SubCarriedOnce(q, c)'
        BY <1>1, <1>2, <2>4, <3>1, <3>3, SubsStart
      <3> QED BY <2>1, <3>2, <3>3
    <2> QED BY <1>5, <2>2, <2>3, <2>4
  <1>7. CASE Aside
    <2>1. UNCHANGED <<opIndex, timer, playing, ready, config>>
      BY <1>1, <1>7 DEF Aside, playVars
    <2>2. ASSUME NEW c \in Clients, NEW p
          PROVE  /\ CarriedOnce(p, c)' <=> CarriedOnce(p, c)
                 /\ AtRest(p, c)' <=> AtRest(p, c)
      BY <2>1 DEF CarriedOnce, AtRest, NoneQueued, OneQueued
    <2>3. ASSUME NEW c \in Clients
          PROVE  (WaitsAtSleep(c)' <=> WaitsAtSleep(c)) /\ (SubsInTurn(c)' <=> SubsInTurn(c))
      BY <2>1 DEF WaitsAtSleep, SubsInTurn, MainOp
    <2>4. ASSUME NEW c \in Clients, NEW p
          PROVE  SubCarriedOnce(p, c)' <=> SubCarriedOnce(p, c)
      BY <2>1, <2>2 DEF SubCarriedOnce
    <2> QED BY <1>2, <1>3, <1>5, <2>2, <2>3, <2>4
  <1>8. ASSUME NEW s \in Sessions, SessionNotifies(s) \/ SessionEnds(s) PROVE Aside
    BY <1>8 DEF SessionNotifies, SessionEnds, Aside
  <1>9. ASSUME NEW c \in Clients, RetryTimer(c) PROVE Aside
    BY <1>9 DEF RetryTimer, Aside
  <1>10. ASSUME UNCHANGED allVars PROVE Aside
    BY <1>10 DEF allVars, Aside
  <1>11. CASE \E p \in Players, c \in Clients : OnNext(p, c) \/ OnWoken(p, c) \/ Wakes(p, c)
    <2>1. PICK p \in Players, c \in Clients : OnNext(p, c) \/ OnWoken(p, c) \/ Wakes(p, c)
      BY <1>11
    <2>2. /\ \A d \in Clients : CarriedOnce(Main, d)' /\ WaitsAtSleep(d)'
          /\ LabelsDiffer(config)' =>
               \A d \in Clients :
                 SubsInTurn(d)' /\ \A q \in Players \ {Main} : SubCarriedOnce(q, d)'
      BY <1>6, <2>1
    <2> QED BY <1>2, <2>2
  <1>12. \/ \E p \in Players, c \in Clients : OnNext(p, c) \/ OnWoken(p, c) \/ Wakes(p, c)
         \/ Aside
    BY <1>2, <1>8, <1>9, <1>10
  <1> QED BY <1>7, <1>11, <1>12

\* One chain each is what OneContinuation counts.
LEMMA ChainInvCounts == PlayerTypeOK /\ ChainInv => OneContinuation
  <1> SUFFICES ASSUME PlayerTypeOK, ChainInv, keys = 0, NEW p \in Players, NEW c \in playing[p],
                      p = Main \/ LabelsDiffer(config)
               PROVE  Continuations(p, c) = 1
    BY DEF OneContinuation
  <1>1. c \in Clients
    BY DEF PlayerTypeOK
  <1>2. CarriedOnce(p, c)
    BY <1>1 DEF ChainInv, SubCarriedOnce
  <1> QED BY <1>1, <1>2, CountingContinuations DEF CountsContinuations

\* Without keys, every scenario that plays goes on along exactly one chain of handlers
\* and waits (OneContinuation; scenario_player.h:95-139), for any number of clients and
\* any configuration: the main one whatever the labels are, the others if they differ.
THEOREM ScenariosGoOnOnce == PlayerSpec => []OneContinuation
  <1>1. PlayerInit => ChainInv
    BY ChainInvInit
  <1> QED BY <1>1, PlayerTypes, ChainInvStep, ChainInvCounts, PTL DEF PlayerSpec

-----------------------------------------------------------------------------
(* Without keys, whoever has exited stays offline. *)

\* Where the main scenario of a client is, and where Next() leads.
LEMMA MainIndex ==
  ASSUME PlayerTypeOK, Untouched, NEW c \in Clients
  PROVE  LET k == opIndex[Main][c]
             n == Len(ClientScenario(config))
             l == LoopIndex(config)
         IN /\ config \in Configs /\ Main \in Players
            /\ n \in Nat /\ l \in Nat /\ l < n /\ k \in 0 .. n - 1
            /\ Following(Main, c) = IF k + 1 = n THEN l ELSE k + 1
            /\ Op(Main, c) = MainOp(config, k)
  <1>1. config \in Configs /\ Main \in Players /\ opIndex[Main][c] \in Nat /\ opIndex[Main][c] < Len(Ops(Main))
    BY DEF PlayerTypeOK, Players
  <1>2. /\ Len(ClientScenario(config)) \in Nat /\ LoopIndex(config) \in Nat
        /\ LoopIndex(config) < Len(ClientScenario(config))
        /\ Ops(Main) = ClientScenario(config) /\ LoopOf(Main) = LoopIndex(config)
    BY <1>1, LoopInside DEF Ops, LoopOf
  <1> QED BY <1>1, <1>2 DEF Following, Untouched, Halted, Op, MainOp

\* A sub scenario never closes, connects or exits anything.
LEMMA SubsOnlyTalk ==
  ASSUME PlayerTypeOK, NEW p \in Players, NEW c \in Clients,
         Op(p, c).op \in {"disconnect", "reconnect", "exit"}
  PROVE  p = Main
  <1> SUFFICES ASSUME p # Main PROVE FALSE
    OBVIOUS
  <1>1. config \in Configs /\ opIndex[p][c] \in Nat /\ opIndex[p][c] < Len(Ops(p))
    BY DEF PlayerTypeOK
  <1>2. Len(Ops(p)) = 2
    BY <1>1, PlayerOps
  <1>3. opIndex[p][c] \in 0 .. 1
    BY <1>1, <1>2
  <1> QED BY <1>1, <1>3, PlayerOps DEF Op

\* A step that leaves a client's connection alone.
ClientSame(d) ==
  UNCHANGED <<closing[d], needReconnect[d], onClose[d], retryTimer[d], signaling[d], exit[d]>>

\* A step that at most goes on from a sleep, a start or a message.
Moved(d) ==
  \/ opIndex'[Main][d] = opIndex[Main][d]
  \/ /\ MainOp(config, opIndex[Main][d]).op \in {"sleep", "sub", "voice", "send"}
     /\ opIndex'[Main][d] = Following(Main, d)

\* The operations that do not touch the connection.
LEMMA QuietMoves ==
  ASSUME PlayerTypeOK, Untouched, NEW p \in Players, NEW c \in Clients, WaitsAtSleep(c),
         \/ OnSleep(p, c) \/ OnPlaySubScenario(p, c) \/ OnVoiceOrMessage(p, c)
         \/ OnWoken(p, c) \/ Wakes(p, c),
         NEW d \in Clients
  PROVE  ClientSame(d) /\ terminated' = terminated /\ Moved(d)
  <1>0. /\ Main \in Players /\ opIndex \in [Players -> [Clients -> Nat]] /\ ready \in Seq(Handlers)
        /\ <<>> \in Seq(Handlers)
    BY DEF PlayerTypeOK, Players
  <1>1. UNCHANGED <<vars, exitVars>>
    BY DEF OnSleep, OnPlaySubScenario, OnVoiceOrMessage, OnWoken, Wakes
  <1>2. ClientSame(d) /\ terminated' = terminated
    BY <1>1 DEF vars, clientVars, exitVars, ClientSame
  <1>3. CASE OnSleep(p, c) \/ Wakes(p, c)
    BY <1>2, <1>3 DEF OnSleep, Wakes, Moved
  <1>4. CASE OnPlaySubScenario(p, c)
    <2>1. PICK r \in Players : StartStep(r, c)
      BY <1>4, StartKind
    <2> QED BY <1>2, <2>1 DEF StartStep, Moved
  <1>5. CASE OnVoiceOrMessage(p, c)
    <2>1. /\ Op(p, c).op \in {"voice", "send"}
          /\ opIndex' = [opIndex EXCEPT ![p][c] = Following(p, c)]
      BY <1>5 DEF OnVoiceOrMessage, GoesOn
    <2>2. CASE p = Main /\ c = d
      <3>1. MainOp(config, opIndex[Main][d]).op \in {"voice", "send"}
        BY <2>1, <2>2, MainIndex
      <3>2. opIndex'[Main][d] = Following(Main, d)
        BY <1>0, <2>1, <2>2
      <3> QED BY <1>2, <3>1, <3>2 DEF Moved
    <2>3. CASE ~(p = Main /\ c = d)
      <3>1. opIndex'[Main][d] = opIndex[Main][d]
        BY <1>0, <2>1, <2>3
      <3> QED BY <1>2, <3>1 DEF Moved
    <2> QED BY <2>2, <2>3
  <1>6. CASE OnWoken(p, c)
    <2>1. /\ Runs(WokenUp(p, c), Posted(p, c))
          /\ opIndex' = [opIndex EXCEPT ![p][c] = Following(p, c)]
      BY <1>6 DEF OnWoken
    <2>2. CASE p = Main /\ c = d
      <3>1. Posted(p, c) \in Seq(Handlers)
        BY PostedTyped
      <3>2. 1 \in 1 .. Len(ready) /\ ready[1] = WokenUp(Main, d)
        BY <1>0, <2>1, <2>2, <3>1, RunsCarriers
      <3>3. MainOp(config, opIndex[Main][d]).op = "sleep"
        BY <2>2, <3>2 DEF WaitsAtSleep
      <3>4. opIndex'[Main][d] = Following(Main, d)
        BY <1>0, <2>1, <2>2
      <3> QED BY <1>2, <3>3, <3>4 DEF Moved
    <2>3. CASE ~(p = Main /\ c = d)
      <3>1. opIndex'[Main][d] = opIndex[Main][d]
        BY <1>0, <2>1, <2>3
      <3> QED BY <1>2, <3>1 DEF Moved
    <2> QED BY <2>2, <2>3
  <1> QED BY <1>3, <1>4, <1>5, <1>6

\* A client that has exited.
Settled(c) == exit[c] => ~Online(c) /\ retryTimer[c] = "idle"

\* A client that leaves for good, by where its scenario is: before its first connection
\* it is offline without a retry, a pending callback is the one of the last OP_EXIT,
\* and between OP_DISCONNECT and OP_EXIT the client is closing, or has lost its session
\* and no retry is under way.
Leaving(c) ==
  LET k == opIndex[Main][c]
      l == LoopIndex(config)
  IN /\ ~needReconnect[c]
     /\ retryTimer[c] # "idle" => ~Online(c)
     /\ k < 2 => ~Online(c) /\ retryTimer[c] = "idle"
     /\ onClose[c] # NoCallback => k \in {l, l + 1}
     /\ closing[c] => k = l + 2 \/ onClose[c] # NoCallback
     /\ exit[c] => k \in {l, l + 1}
     /\ k = l + 2 => closing[c] \/ (~Online(c) /\ retryTimer[c] = "idle")

\* The inductive invariant.  Only a client that leaves for good ever exits.
ExitInv ==
  keys = 0 =>
    IF Exits(config)
      THEN \A c \in Clients : Settled(c) /\ (~terminated => Leaving(c))
      ELSE \A c \in Clients : ~exit[c] /\ onClose[c] = NoCallback

\* Where the connection stays as it is, going on keeps a client in its place.
LEMMA LeavesOn ==
  ASSUME PlayerTypeOK, Untouched, Exits(config), config' = config, NEW c \in Clients,
         ClientSame(c), Moved(c), Leaving(c)
  PROVE  Leaving(c)'
  <1> DEFINE k == opIndex[Main][c]
             l == LoopIndex(config)
             n == Len(ClientScenario(config))
             i == opIndex'[Main][c]
             op == MainOp(config, k).op
  <1>1. /\ config \in Configs /\ l \in Nat /\ n \in Nat /\ k \in 0 .. n - 1
        /\ Following(Main, c) = IF k + 1 = n THEN l ELSE k + 1
    BY MainIndex
  <1>2. /\ l >= 2 /\ n = l + 3
        /\ op = "reconnect" <=> k = 1
        /\ op = "disconnect" <=> k = l + 1
        /\ op = "exit" <=> k = l + 2
    BY <1>1, ExitOps
  <1>3. i = k \/ (op \in {"sleep", "sub", "voice", "send"} /\ i = Following(Main, c))
    BY DEF Moved
  <1>4. i = k \/ (k # 1 /\ k <= l /\ i = k + 1)
    <2> HIDE DEF k, l, n, i, op
    <2> QED BY <1>1, <1>2, <1>3
  <1>5. k \in Nat
    <2> HIDE DEF k, l, n, i, op
    <2> QED BY <1>1
  <1> QED BY <1>1, <1>2, <1>4, <1>5 DEF Leaving, ClientSame, Online

\* Nothing moves a client that has exited but its own operations.
LEMMA SettlesOn ==
  ASSUME NEW c, ClientSame(c), Settled(c) PROVE Settled(c)'
  BY DEF ClientSame, Settled, Online

\* The handlers of the operations that touch the connection of their own client.
TouchesOnly(c) ==
  /\ \A d \in Clients \ {c} :
       /\ ClientSame(d)
       /\ opIndex'[Main][d] = opIndex[Main][d]
  /\ opIndex'[Main][c] = Following(Main, c)

\* They are operations of the main player.
LEMMA GoesOnAlone ==
  ASSUME PlayerTypeOK, IInv, NEW p \in Players, NEW c \in Clients,
         \/ OnOpDisconnect(p, c) \/ OnOpReconnect(p, c) \/ OnOpExit(p, c)
  PROVE  /\ p = Main /\ TouchesOnly(c)
         /\ OnOpDisconnect(p, c) => MainOp(config, opIndex[Main][c]).op = "disconnect"
         /\ OnOpReconnect(p, c) => MainOp(config, opIndex[Main][c]).op = "reconnect"
         /\ OnOpExit(p, c) => MainOp(config, opIndex[Main][c]).op = "exit"
  <1>1. /\ OnOpDisconnect(p, c) => Op(p, c).op = "disconnect"
        /\ OnOpReconnect(p, c) => Op(p, c).op = "reconnect"
        /\ OnOpExit(p, c) => Op(p, c).op = "exit"
        /\ opIndex' = [opIndex EXCEPT ![p][c] = Following(p, c)]
    BY DEF OnOpDisconnect, OnOpReconnect, OnOpExit, GoesOn
  <1>2. p = Main
    BY <1>1, SubsOnlyTalk
  <1>3. Op(p, c) = MainOp(config, opIndex[Main][c])
    BY <1>2 DEF Op, Ops, MainOp
  <1>4. opIndex \in [Players -> [Clients -> Nat]] /\ Main \in Players
    BY <1>2 DEF PlayerTypeOK
  <1>5. /\ opIndex'[Main][c] = Following(Main, c)
        /\ \A d \in Clients \ {c} : opIndex'[Main][d] = opIndex[Main][d]
    BY <1>1, <1>2, <1>4
  <1>6. ASSUME NEW d \in Clients \ {c} PROVE ClientSame(d)
    <2>1. exit' \in {exit, [exit EXCEPT ![c] = TRUE]}
      BY DEF OnOpDisconnect, OnOpReconnect, OnOpExit, exitVars, Exited
    <2>2. exit'[d] = exit[d]
      BY <2>1 DEF PlayerTypeOK
    <2>3. CASE Connect(c)
      BY <2>2, <2>3 DEF Connect, ReconnectLater, ReplaceSession, OpenSession, ClientSame, IInv, TypeOK
    <2>4. ASSUME NEW cb, Close(c, cb) PROVE ClientSame(d)
      BY <2>2, <2>4 DEF Close, clientVars, ClientSame, IInv, TypeOK
    <2> QED BY <2>3, <2>4 DEF OnOpDisconnect, OnOpReconnect, OnOpExit
  <1> QED BY <1>1, <1>2, <1>3, <1>5, <1>6 DEF TouchesOnly

\* The first connection.
LEMMA LeaverConnects ==
  ASSUME PlayerTypeOK, IInv, Untouched, Exits(config), config' = config,
         NEW c \in Clients, OnOpReconnect(Main, c), Leaving(c), Settled(c)
  PROVE  Leaving(c)' /\ Settled(c)'
  <1> DEFINE k == opIndex[Main][c]
             l == LoopIndex(config)
             n == Len(ClientScenario(config))
  <1>1. /\ config \in Configs /\ l \in Nat /\ n \in Nat /\ k \in 0 .. n - 1 /\ Main \in Players
        /\ Following(Main, c) = IF k + 1 = n THEN l ELSE k + 1
    BY MainIndex
  <1>2. TouchesOnly(c) /\ MainOp(config, k).op = "reconnect"
    BY <1>1, GoesOnAlone
  <1>3. l >= 2 /\ n = l + 3 /\ k = 1
    BY <1>1, <1>2, ExitOps
  <1>4. opIndex'[Main][c] = 2
    BY <1>1, <1>2, <1>3 DEF TouchesOnly
  <1>5. /\ ~needReconnect[c] /\ ~Online(c) /\ retryTimer[c] = "idle"
        /\ onClose[c] = NoCallback /\ ~closing[c] /\ ~exit[c]
    <2>1. ~Online(c) /\ retryTimer[c] = "idle" /\ ~needReconnect[c]
      BY <1>3 DEF Leaving
    <2>2. ~closing[c]
      BY <2>1 DEF IInv, ClosingIsDisconnecting
    <2>3. onClose[c] = NoCallback
      BY <2>2 DEF IInv, PendingOnlyWhileClosing
    <2>4. ~exit[c]
      BY <1>1, <1>3 DEF Leaving
    <2> QED BY <2>1, <2>2, <2>3, <2>4
  <1>6. /\ UNCHANGED <<closing, onClose, needReconnect, exit>>
        /\ retryTimer' = [retryTimer EXCEPT ![c] = Cancelled(@)]
    BY <1>5 DEF OnOpReconnect, Connect, ReconnectLater, ReplaceSession, OpenSession, exitVars
  <1>7. retryTimer'[c] = "idle"
    BY <1>5, <1>6 DEF Cancelled, IInv, TypeOK
  <1>8. Settled(c)'
    BY <1>5, <1>6 DEF Settled
  <1>9. Leaving(c)'
    <2>1. opIndex'[Main][c] # l + 2 /\ ~(opIndex'[Main][c] < 2)
      BY <1>1, <1>3, <1>4
    <2> QED BY <1>5, <1>6, <1>7, <2>1 DEF Leaving
  <1> QED BY <1>8, <1>9

\* OP_DISCONNECT, with a callback that is never the one of an OP_EXIT.
LEMMA LeaverCloses ==
  ASSUME PlayerTypeOK, IInv, Untouched, Exits(config), config' = config,
         NEW c \in Clients, OnOpDisconnect(Main, c), Leaving(c), Settled(c)
  PROVE  Settled(c)' /\ (terminated' \/ Leaving(c)')
  <1> DEFINE k == opIndex[Main][c]
             l == LoopIndex(config)
             n == Len(ClientScenario(config))
  <1>1. /\ config \in Configs /\ l \in Nat /\ n \in Nat /\ k \in 0 .. n - 1 /\ Main \in Players
        /\ Following(Main, c) = IF k + 1 = n THEN l ELSE k + 1
    BY MainIndex
  <1>2. TouchesOnly(c) /\ MainOp(config, k).op = "disconnect"
    BY <1>1, GoesOnAlone
  <1>3. l >= 2 /\ n = l + 3 /\ k = l + 1
    BY <1>1, <1>2, ExitOps
  <1>4. opIndex'[Main][c] = l + 2
    BY <1>1, <1>2, <1>3 DEF TouchesOnly
  <1>5. Close(c, NoCallback) /\ UNCHANGED exit
    BY DEF OnOpDisconnect, exitVars
  <1>6. CASE AnswersAtOnce(c)
    <2>1. terminated' /\ UNCHANGED clientVars
      BY <1>5, <1>6 DEF Close, Call, AnswersAtOnce, Online
    <2> QED BY <1>5, <2>1 DEF clientVars, Settled, Online
  <1>7. CASE ~AnswersAtOnce(c)
    <2>1. ~(closing[c] /\ onClose[c] = NoCallback)
      BY <1>1, <1>3 DEF Leaving
    <2>2. /\ ~closing[c] /\ Online(c)
          /\ closing' = [closing EXCEPT ![c] = TRUE]
          /\ onClose' = [onClose EXCEPT ![c] = NoCallback]
          /\ UNCHANGED <<needReconnect, retryTimer, signaling>>
      BY <1>5, <1>7, <2>1 DEF Close
    <2>3. closing'[c] /\ onClose'[c] = NoCallback
      BY <2>2 DEF IInv, TypeOK
    <2>4. ~exit[c]
      BY <2>2 DEF Settled
    <2>5. Settled(c)'
      BY <1>5, <2>4 DEF Settled
    <2>6. ~(opIndex'[Main][c] < 2)
      BY <1>1, <1>3, <1>4
    <2>7. Leaving(c)'
      BY <1>4, <1>5, <2>2, <2>3, <2>4, <2>6 DEF Leaving, Online
    <2> QED BY <2>5, <2>7
  <1> QED BY <1>6, <1>7

\* OP_EXIT: the client is closing and takes the callback, or has long been offline and
\* exits at once.
LEMMA LeaverExits ==
  ASSUME PlayerTypeOK, IInv, Untouched, Exits(config), config' = config,
         NEW c \in Clients, OnOpExit(Main, c), Leaving(c), Settled(c)
  PROVE  Leaving(c)' /\ Settled(c)' /\ terminated' = terminated
  <1> DEFINE k == opIndex[Main][c]
             l == LoopIndex(config)
             n == Len(ClientScenario(config))
  <1>1. /\ config \in Configs /\ l \in Nat /\ n \in Nat /\ k \in 0 .. n - 1 /\ Main \in Players
        /\ Following(Main, c) = IF k + 1 = n THEN l ELSE k + 1
    BY MainIndex
  <1>2. TouchesOnly(c) /\ MainOp(config, k).op = "exit"
    BY <1>1, GoesOnAlone
  <1>3. l >= 2 /\ n = l + 3 /\ k = l + 2
    BY <1>1, <1>2, ExitOps
  <1>4. opIndex'[Main][c] = l
    BY <1>1, <1>2, <1>3 DEF TouchesOnly
  <1>5. /\ Close(c, ExitCallback) /\ ExitCallback # NoCallback /\ ~terminated
        /\ IF AnswersAtOnce(c) THEN Exited(c) ELSE UNCHANGED exitVars
    BY ExitCallbackAssumption, NoCallbackAssumption DEF OnOpExit, Close
  <1>6. /\ ~needReconnect[c] /\ onClose[c] = NoCallback /\ ~exit[c]
        /\ closing[c] \/ (~Online(c) /\ retryTimer[c] = "idle")
        /\ retryTimer[c] # "idle" => ~Online(c)
    <2>1. k \notin {l, l + 1}
      BY <1>1, <1>3
    <2> QED BY <1>3, <2>1 DEF Leaving
  <1>7. opIndex'[Main][c] # l + 2 /\ ~(opIndex'[Main][c] < 2) /\ opIndex'[Main][c] \in {l, l + 1}
    BY <1>1, <1>3, <1>4
  <1>8. CASE closing[c]
    <2>1. ~AnswersAtOnce(c)
      BY <1>6, <1>8 DEF AnswersAtOnce
    <2>2. /\ onClose' = [onClose EXCEPT ![c] = ExitCallback]
          /\ UNCHANGED <<closing, needReconnect, retryTimer, signaling, exit, terminated>>
      BY <1>5, <1>8, <2>1 DEF Close, exitVars
    <2>3. onClose'[c] # NoCallback
      BY <1>5, <2>2 DEF IInv, TypeOK
    <2>4. Leaving(c)'
      BY <1>6, <1>7, <2>2, <2>3 DEF Leaving, Online
    <2> QED BY <1>6, <2>2, <2>4 DEF Settled
  <1>9. CASE ~closing[c]
    <2>1. ~Online(c) /\ retryTimer[c] = "idle" /\ AnswersAtOnce(c)
      BY <1>6, <1>9 DEF AnswersAtOnce
    <2>2. /\ UNCHANGED clientVars /\ terminated' = FALSE
          /\ exit' = [exit EXCEPT ![c] = TRUE]
      BY <1>5, <2>1, <1>9 DEF Close, Call, Exited
    <2>3. ~closing'[c] /\ onClose'[c] = NoCallback /\ ~Online(c)' /\ retryTimer'[c] = "idle"
          /\ ~needReconnect'[c]
      BY <1>6, <1>9, <2>1, <2>2 DEF clientVars, Online
    <2>4. Leaving(c)'
      BY <1>7, <2>3 DEF Leaving
    <2>5. Settled(c)'
      BY <2>3 DEF Settled
    <2>6. terminated' = terminated
      BY <1>5, <2>2 DEF IInv, TypeOK
    <2> QED BY <2>4, <2>5, <2>6
  <1> QED BY <1>8, <1>9

\* What a session reports concerns its observer alone.
LEMMA SessionAlone ==
  ASSUME PlayerTypeOK, IInv, NEW s \in Sessions, SessionNotifies(s) \/ SessionEnds(s)
  PROVE  /\ observer[s] \in Clients /\ signaling[observer[s]] = s /\ Online(observer[s])
         /\ \A d \in Clients : opIndex'[Main][d] = opIndex[Main][d]
         /\ \A d \in Clients \ {observer[s]} : ClientSame(d)
         /\ SessionNotifies(s) => ClientSame(observer[s])
         /\ terminated' = terminated
  <1>0. session[s] # "free"
    BY DEF SessionNotifies, SessionEnds, OnNotify, OnDisconnect
  <1>1. observer[s] \in Clients /\ signaling[observer[s]] = s /\ s # NoSession
    BY <1>0, ReportedSession, NoSessionAssumption
  <1>2. UNCHANGED opIndex
    BY DEF SessionNotifies, SessionEnds, playVars
  <1>3. exit' \in {exit, [exit EXCEPT ![observer[s]] = TRUE]}
    BY DEF SessionNotifies, SessionEnds, exitVars, Exited
  <1>4. \A d \in Clients \ {observer[s]} : exit'[d] = exit[d]
    BY <1>3 DEF PlayerTypeOK
  <1>5. CASE SessionNotifies(s)
    <2>1. ClientSame(observer[s]) /\ terminated' = terminated /\ \A d \in Clients \ {observer[s]} : ClientSame(d)
      BY <1>5 DEF SessionNotifies, OnNotify, ClientSame, exitVars
    <2> QED BY <1>1, <1>2, <2>1 DEF Online
  <1>6. CASE SessionEnds(s) /\ ~SessionNotifies(s)
    <2>1. OnDisconnect(s)
      BY <1>6 DEF SessionEnds
    <2>2. \A d \in Clients \ {observer[s]} : ClientSame(d)
      BY <1>1, <1>4, <2>1 DEF OnDisconnect, LostSession, ClosedSession, Answered, Cancelled, ClientSame, IInv, TypeOK
    <2> QED BY <1>1, <1>2, <1>6, <2>1, <2>2 DEF OnDisconnect, Online
  <1> QED BY <1>5, <1>6

\* The end of a leaver's session: if it was asked for, the client is offline for good
\* and its callback, if any, is called; else a retry may follow.
LEMMA LeaverLoses ==
  ASSUME PlayerTypeOK, IInv, Untouched, Exits(config), config' = config,
         NEW s \in Sessions, SessionEnds(s), Leaving(observer[s]), Settled(observer[s])
  PROVE  Leaving(observer[s])' /\ Settled(observer[s])'
  <1> DEFINE c == observer[s]
             k == opIndex[Main][c]
             l == LoopIndex(config)
  <1>1. /\ c \in Clients /\ signaling[c] = s /\ Online(c) /\ opIndex'[Main][c] = k
    BY SessionAlone
  <1>2. /\ OnDisconnect(s) /\ s # NoSession
        /\ IF onClose[c] = ExitCallback THEN Exited(c) ELSE UNCHANGED exitVars
    BY NoSessionAssumption DEF SessionEnds
  <1>3. /\ retryTimer[c] # "due" /\ Answered(c)
        /\ LostSession(c, s) \/ ClosedSession(c, s)
    BY <1>2 DEF OnDisconnect
  <1>4. /\ ExitCallback # NoCallback /\ retryTimer[c] \in {"idle", "armed", "due"}
        /\ l \in Nat /\ k \in Nat
    <2>1. retryTimer[c] \in {"idle", "armed", "due"}
      BY <1>1 DEF IInv, TypeOK
    <2>2. l \in Nat /\ k \in Nat
      BY <1>1, MainIndex
    <2> QED BY <2>1, <2>2, ExitCallbackAssumption, NoCallbackAssumption
  <1> HIDE DEF c
  <1>5. /\ ~needReconnect[c] /\ retryTimer[c] = "idle" /\ ~(k < 2) /\ ~exit[c]
        /\ onClose[c] # NoCallback => k \in {l, l + 1}
        /\ closing[c] => k = l + 2 \/ onClose[c] # NoCallback
        /\ k = l + 2 => closing[c]
    BY <1>1 DEF Leaving, Settled, c
  <1>6. onClose'[c] = NoCallback
    BY <1>1, <1>3 DEF Answered, IInv, TypeOK
  <1>7. CASE LostSession(c, s)
    <2>1. ~closing[c] /\ onClose[c] = NoCallback
      BY <1>1, <1>7 DEF LostSession, IInv, PendingOnlyWhileClosing
    <2>2. UNCHANGED <<closing, needReconnect, exit>>
      BY <1>2, <1>4, <1>7, <2>1 DEF LostSession, exitVars
    <2>3. ~Online(c)'
      BY <1>1, <1>7 DEF LostSession, Online, IInv, TypeOK
    <2>4. k # l + 2
      BY <1>5, <2>1
    <2>5. Settled(c)'
      BY <1>5, <2>2 DEF Settled
    <2>6. Leaving(c)'
      BY <1>1, <1>5, <1>6, <2>1, <2>2, <2>3, <2>4 DEF Leaving
    <2> QED BY <2>5, <2>6 DEF c
  <1>8. CASE ClosedSession(c, s)
    <2>1. ~ReconnectsNow(c)
      BY <1>5 DEF ReconnectsNow
    <2>2. ~Online(c)'
      BY <1>1, <1>8, <2>1 DEF ClosedSession, Online, IInv, TypeOK
    <2>3. ~closing'[c] /\ ~needReconnect'[c] /\ retryTimer'[c] = "idle"
      BY <1>1, <1>5, <1>8 DEF ClosedSession, Cancelled, IInv, TypeOK
    <2>4. exit'[c] => k \in {l, l + 1}
      <3>1. CASE onClose[c] = ExitCallback
        BY <1>4, <1>5, <3>1
      <3>2. CASE onClose[c] # ExitCallback
        BY <1>2, <1>5, <3>2 DEF exitVars
      <3> QED BY <3>1, <3>2
    <2>5. Settled(c)'
      BY <2>2, <2>3 DEF Settled
    <2>6. Leaving(c)'
      BY <1>1, <1>5, <1>6, <2>2, <2>3, <2>4 DEF Leaving
    <2> QED BY <2>5, <2>6 DEF c
  <1> QED BY <1>3, <1>7, <1>8

\* A retry timer concerns its client alone.
LEMMA RetryAlone ==
  ASSUME PlayerTypeOK, IInv, NEW c \in Clients, RetryTimer(c)
  PROVE  /\ \A d \in Clients : opIndex'[Main][d] = opIndex[Main][d]
         /\ \A d \in Clients \ {c} : ClientSame(d)
         /\ UNCHANGED <<terminated, exit, stopped>>
  <1>1. UNCHANGED <<opIndex, exit, stopped>>
    BY DEF RetryTimer, playVars, exitVars
  <1>2. CASE RetryExpires(c)
    BY <1>1, <1>2 DEF RetryExpires, ClientSame, IInv, TypeOK
  <1>3. CASE RetryFires(c)
    BY <1>1, <1>3 DEF RetryFires, ReconnectLater, ReplaceSession, OpenSession, ClientSame, IInv, TypeOK
  <1> QED BY <1>2, <1>3 DEF RetryTimer

\* The retry of a leaver: it is offline, has not exited, and is not about to.
LEMMA LeaverRetries ==
  ASSUME PlayerTypeOK, IInv, Untouched, Exits(config), config' = config,
         NEW c \in Clients, RetryTimer(c), Leaving(c), Settled(c)
  PROVE  Leaving(c)' /\ Settled(c)'
  <1> DEFINE k == opIndex[Main][c]
             l == LoopIndex(config)
  <1>1. opIndex'[Main][c] = k /\ UNCHANGED <<exit, terminated>>
    BY RetryAlone
  <1>2. l \in Nat /\ k \in Nat
    BY MainIndex
  <1>3. retryTimer[c] # "idle"
    BY DEF RetryTimer, RetryExpires, RetryFires
  <1>4. ~Online(c) /\ ~closing[c] /\ onClose[c] = NoCallback
    <2>1. ~Online(c)
      BY <1>3 DEF Leaving
    <2>2. ~closing[c]
      BY <2>1 DEF IInv, ClosingIsDisconnecting
    <2> QED BY <2>1, <2>2 DEF IInv, PendingOnlyWhileClosing
  <1>5. ~(k < 2) /\ k # l + 2 /\ ~exit[c] /\ ~needReconnect[c]
    BY <1>3, <1>4 DEF Leaving, Settled
  <1>6. UNCHANGED <<closing, onClose>>
    BY <1>4 DEF RetryTimer, RetryExpires, RetryFires, ReconnectLater, ReplaceSession, OpenSession
  <1>7. CASE RetryExpires(c)
    <2>1. UNCHANGED <<signaling, needReconnect>>
      BY <1>7 DEF RetryExpires
    <2> QED BY <1>1, <1>2, <1>4, <1>5, <1>6, <2>1 DEF Leaving, Settled, Online
  <1>8. CASE RetryFires(c)
    <2>1. needReconnect'[c] = FALSE /\ retryTimer'[c] = "idle"
      BY <1>4, <1>8 DEF RetryFires, ReconnectLater, ReplaceSession, IInv, TypeOK
    <2>2. closing'[c] = FALSE /\ onClose'[c] = NoCallback /\ exit'[c] = FALSE
      BY <1>1, <1>4, <1>5, <1>6 DEF PlayerTypeOK, IInv, TypeOK
    <2> QED BY <1>1, <1>2, <1>5, <2>1, <2>2 DEF Leaving, Settled
  <1> QED BY <1>7, <1>8 DEF RetryTimer

\* What the players do to a client without keys, from a client's point of view.
LEMMA ExitInvInit == PlayerInit => ExitInv
  <1> SUFFICES ASSUME PlayerInit PROVE ExitInv
    OBVIOUS
  <1>1. /\ Main \in Players /\ config \in Configs
        /\ opIndex = [p \in Players |-> [c \in Clients |-> 0]]
        /\ exit = [c \in Clients |-> FALSE]
    BY DEF PlayerInit, Players
  <1>2. Exits(config) => LoopIndex(config) \in Nat /\ LoopIndex(config) >= 2
    BY <1>1, OnceShape DEF Exits
  <1>3. Init
    BY DEF PlayerInit
  <1>4. ASSUME NEW c \in Clients
        PROVE  /\ ~exit[c] /\ onClose[c] = NoCallback /\ ~needReconnect[c] /\ ~closing[c]
               /\ ~Online(c) /\ retryTimer[c] = "idle" /\ opIndex[Main][c] = 0
    BY <1>1, <1>3 DEF Init, Online
  <1>5. ASSUME NEW c \in Clients, Exits(config) PROVE Leaving(c) /\ Settled(c)
    BY <1>2, <1>4, <1>5 DEF Leaving, Settled
  <1> QED BY <1>4, <1>5 DEF ExitInv

\* One step of a client that leaves for good.
LEMMA LeaverStep ==
  ASSUME PlayerTypeOK, IInv, Untouched, Exits(config), config' = config,
         \A c \in Clients : WaitsAtSleep(c) /\ Leaving(c) /\ Settled(c),
         \/ \E p \in Players, c \in Clients : OnNext(p, c) \/ OnWoken(p, c) \/ Wakes(p, c)
         \/ \E s \in Sessions : SessionNotifies(s) \/ SessionEnds(s)
         \/ \E c \in Clients : RetryTimer(c),
         NEW d \in Clients
  PROVE  Settled(d)' /\ (~terminated' => Leaving(d)')
  <1>1. ASSUME ClientSame(d), Moved(d) PROVE Settled(d)' /\ Leaving(d)'
    BY <1>1, LeavesOn, SettlesOn
  <1>2. opIndex'[Main][d] = opIndex[Main][d] => Moved(d)
    BY DEF Moved
  <1>3. ASSUME NEW p \in Players, NEW c \in Clients,
               \/ OnSleep(p, c) \/ OnPlaySubScenario(p, c) \/ OnVoiceOrMessage(p, c)
               \/ OnWoken(p, c) \/ Wakes(p, c)
        PROVE  Settled(d)' /\ (~terminated' => Leaving(d)')
    <2>1. ClientSame(d) /\ Moved(d)
      BY <1>3, QuietMoves
    <2> QED BY <1>1, <2>1
  <1>4. ASSUME NEW p \in Players, NEW c \in Clients,
               OnOpDisconnect(p, c) \/ OnOpReconnect(p, c) \/ OnOpExit(p, c)
        PROVE  Settled(d)' /\ (~terminated' => Leaving(d)')
    <2>1. p = Main /\ TouchesOnly(c)
      BY <1>4, GoesOnAlone
    <2>2. CASE d = c
      <3>1. Leaving(c) /\ Settled(c)
        OBVIOUS
      <3>2. OnOpDisconnect(Main, c) \/ OnOpReconnect(Main, c) \/ OnOpExit(Main, c)
        BY <1>4, <2>1
      <3> QED BY <2>2, <3>1, <3>2, LeaverConnects, LeaverCloses, LeaverExits
    <2>3. CASE d # c
      <3>1. ClientSame(d) /\ opIndex'[Main][d] = opIndex[Main][d]
        BY <2>1, <2>3 DEF TouchesOnly
      <3> QED BY <1>1, <1>2, <3>1
    <2> QED BY <2>2, <2>3
  <1>5. ASSUME NEW s \in Sessions, SessionNotifies(s) \/ SessionEnds(s)
        PROVE  Settled(d)' /\ (~terminated' => Leaving(d)')
    <2>1. /\ observer[s] \in Clients
          /\ opIndex'[Main][d] = opIndex[Main][d]
          /\ d # observer[s] => ClientSame(d)
          /\ SessionNotifies(s) => ClientSame(observer[s])
      BY <1>5, SessionAlone
    <2>2. CASE SessionEnds(s) /\ d = observer[s]
      <3>1. Leaving(observer[s]) /\ Settled(observer[s])
        BY <2>1
      <3> QED BY <2>2, <3>1, LeaverLoses
    <2> QED BY <1>1, <1>2, <1>5, <2>1, <2>2
  <1>6. ASSUME NEW c \in Clients, RetryTimer(c)
        PROVE  Settled(d)' /\ (~terminated' => Leaving(d)')
    <2>1. opIndex'[Main][d] = opIndex[Main][d] /\ (d # c => ClientSame(d))
      BY <1>6, RetryAlone
    <2>2. CASE d = c
      <3>1. Leaving(c) /\ Settled(c)
        OBVIOUS
      <3> QED BY <1>6, <2>2, <3>1, LeaverRetries
    <2> QED BY <1>1, <1>2, <2>1, <2>2
  <1> QED BY <1>3, <1>4, <1>5, <1>6 DEF OnNext

\* Whoever does not leave for good never exits.
LEMMA StayerStep ==
  ASSUME PlayerTypeOK, IInv, Untouched, ~Exits(config),
         \A c \in Clients : ~exit[c] /\ onClose[c] = NoCallback,
         \/ \E p \in Players, c \in Clients : OnNext(p, c) \/ OnWoken(p, c) \/ Wakes(p, c)
         \/ \E s \in Sessions : SessionNotifies(s) \/ SessionEnds(s)
         \/ \E c \in Clients : RetryTimer(c)
  PROVE  \A c \in Clients : ~exit'[c] /\ onClose'[c] = NoCallback
  <1>0. onClose \in [Clients -> Callbacks \cup {NoCallback}] /\ ExitCallback # NoCallback
    BY ExitCallbackAssumption, NoCallbackAssumption DEF IInv, TypeOK
  <1>1. ASSUME NEW p \in Players, NEW c \in Clients PROVE ~OnOpExit(p, c)
    <2> SUFFICES ASSUME OnOpExit(p, c) PROVE FALSE
      OBVIOUS
    <2>1. MainOp(config, opIndex[Main][c]).op = "exit"
      BY GoesOnAlone
    <2>2. config \in Configs /\ opIndex[Main][c] \in 0 .. Len(ClientScenario(config)) - 1
      BY MainIndex
    <2> QED BY <2>1, <2>2, ReturnOps, StayOps
  <1>2. ASSUME NEW p \in Players, NEW c \in Clients, OnNext(p, c) \/ OnWoken(p, c) \/ Wakes(p, c)
        PROVE  \A d \in Clients : ~exit'[d] /\ onClose'[d] = NoCallback
    <2>1. CASE \/ OnSleep(p, c) \/ OnPlaySubScenario(p, c) \/ OnVoiceOrMessage(p, c)
               \/ OnWoken(p, c) \/ Wakes(p, c)
      <3>1. UNCHANGED <<exit, onClose>>
        BY <2>1 DEF OnSleep, OnPlaySubScenario, OnVoiceOrMessage, OnWoken, Wakes, vars, clientVars, exitVars
      <3> QED BY <3>1
    <2>2. CASE OnOpReconnect(p, c)
      <3>1. UNCHANGED <<exit, onClose>>
        BY <2>2 DEF OnOpReconnect, Connect, ReconnectLater, ReplaceSession, OpenSession, exitVars
      <3> QED BY <3>1
    <2>3. CASE OnOpDisconnect(p, c)
      <3>1. UNCHANGED exit /\ Close(c, NoCallback)
        BY <2>3 DEF OnOpDisconnect, exitVars
      <3>2. onClose' \in {onClose, [onClose EXCEPT ![c] = NoCallback]}
        BY <3>1 DEF Close, clientVars
      <3> QED BY <1>0, <3>1, <3>2
    <2> QED BY <1>1, <1>2, <2>1, <2>2, <2>3 DEF OnNext
  <1>3. ASSUME NEW s \in Sessions, SessionNotifies(s) \/ SessionEnds(s)
        PROVE  \A d \in Clients : ~exit'[d] /\ onClose'[d] = NoCallback
    <2>1. observer[s] \in Clients
      BY <1>3, SessionAlone
    <2>2. UNCHANGED exit
      BY <1>0, <1>3, <2>1 DEF SessionNotifies, SessionEnds, exitVars
    <2>3. onClose' \in {onClose, [onClose EXCEPT ![observer[s]] = NoCallback]}
      BY <1>3 DEF SessionNotifies, SessionEnds, OnNotify, OnDisconnect, Answered
    <2> QED BY <1>0, <2>2, <2>3
  <1>4. ASSUME NEW c \in Clients, RetryTimer(c)
        PROVE  \A d \in Clients : ~exit'[d] /\ onClose'[d] = NoCallback
    <2>1. UNCHANGED <<exit, onClose>>
      BY <1>4, RetryAlone DEF RetryTimer, RetryExpires, RetryFires, ReconnectLater, ReplaceSession, OpenSession
    <2> QED BY <2>1
  <1> QED BY <1>2, <1>3, <1>4

\* A step that changes nothing.
LEMMA ExitInvStutter == ExitInv /\ UNCHANGED allVars => ExitInv'
  BY DEF ExitInv, allVars, vars, clientVars, playVars, exitVars, given, Exits, ReconnectScenario,
     Settled, Leaving, Online

\* One step for what concerns a single client, one for what concerns none.
LEMMA ExitInvStep ==
  PlayerTypeOK /\ IInv /\ ChainInv /\ ExitInv /\ [PlayerNext]_allVars => ExitInv'
  <1> SUFFICES ASSUME PlayerTypeOK, IInv, ChainInv, ExitInv, PlayerNext, keys' = 0
               PROVE  ExitInv'
    BY ExitInvStutter DEF ExitInv
  <1>1. config' = config
    BY GivenIsKept DEF given
  <1>2. /\ keys = 0 /\ Untouched
        /\ \/ \E p \in Players, c \in Clients : OnNext(p, c) \/ OnWoken(p, c) \/ Wakes(p, c)
           \/ \E s \in Sessions : SessionNotifies(s) \/ SessionEnds(s)
           \/ \E c \in Clients : RetryTimer(c)
           \/ UNCHANGED allVars
    BY KeylessSteps DEF ChainInv
  <1>3. \A c \in Clients : WaitsAtSleep(c)
    BY <1>2 DEF ChainInv
  <1>4. Exits(config)' = Exits(config)
    BY <1>1 DEF Exits, ReconnectScenario
  <1>5. ~terminated \/ UNCHANGED allVars
    BY OnlyRunning DEF Running
  <1>6. CASE UNCHANGED allVars
    BY <1>6, ExitInvStutter
  <1>7. CASE /\ ~UNCHANGED allVars
             /\ Exits(config)
    <2>1. \A c \in Clients : WaitsAtSleep(c) /\ Leaving(c) /\ Settled(c)
      BY <1>2, <1>3, <1>5, <1>7 DEF ExitInv
    <2>2. \A d \in Clients : Settled(d)' /\ (~terminated' => Leaving(d)')
      BY <1>1, <1>2, <1>7, <2>1, LeaverStep
    <2> QED BY <1>4, <1>7, <2>2 DEF ExitInv
  <1>8. CASE /\ ~UNCHANGED allVars
             /\ ~Exits(config)
    <2>1. \A c \in Clients : ~exit[c] /\ onClose[c] = NoCallback
      BY <1>2, <1>8 DEF ExitInv
    <2>2. \A c \in Clients : ~exit'[c] /\ onClose'[c] = NoCallback
      BY <1>2, <1>8, <2>1, StayerStep
    <2> QED BY <1>4, <1>8, <2>2 DEF ExitInv
  <1> QED BY <1>6, <1>7, <1>8

\* Once it has exited, a client is offline.
LEMMA ExitInvHolds == ExitInv => ExitedIsOffline
  BY DEF ExitInv, ExitedIsOffline, Settled

\* All that is known of the players of an instance without keys.
LEMMA KeylessInvariant == PlayerSpec => [](PlayerTypeOK /\ IInv /\ ChainInv /\ ExitInv)
  <1>1. PlayerInit => PlayerTypeOK /\ ChainInv /\ ExitInv
    BY ChainInvInit, ExitInvInit
  <1> QED BY <1>1, PlayersKeepClientsSafe, PlayerTypes, ChainInvStep, ExitInvStep, PTL DEF PlayerSpec

\* Without keys, a client that has exited has no session and no retry that would open
\* one (ExitedIsOffline; scenario_player.h:219-230, virtual_client.cpp:165-201): its
\* scenario goes round once more only to end the process.
THEOREM ExitedStayOffline == PlayerSpec => []ExitedIsOffline
  BY KeylessInvariant, ExitInvHolds, PTL

\* The io_context is stopped by the callback of the last client that exits.
StopInv == stopped => \A c \in Clients : exit[c]

\* Only that callback stops it.
LEMMA StopInvStep == StopInv /\ [PlayerNext]_allVars => StopInv'
  <1> SUFFICES ASSUME StopInv, [PlayerNext]_allVars PROVE StopInv'
    OBVIOUS
  <1>1. CASE UNCHANGED exitVars
    BY <1>1 DEF exitVars, StopInv
  <1>2. ASSUME NEW c, Exited(c) PROVE StopInv'
    BY <1>2 DEF Exited, StopInv
  <1>3. ASSUME NEW p \in Players, NEW c \in Clients, OnNext(p, c) PROVE StopInv'
    <2>1. UNCHANGED exitVars \/ Exited(c)
      BY <1>3 DEF OnNext, OnSleep, OnPlaySubScenario, OnVoiceOrMessage, OnOpDisconnect,
         OnOpReconnect, OnOpExit
    <2> QED BY <1>1, <1>2, <2>1
  <1>4. ASSUME NEW p \in Players, NEW c \in Clients, OnWoken(p, c) \/ Wakes(p, c)
        PROVE  UNCHANGED exitVars
    BY <1>4 DEF OnWoken, Wakes
  <1>5. ASSUME PauseAll \/ ResumeAll PROVE UNCHANGED exitVars
    BY <1>5 DEF PauseAll, ResumeAll
  <1>6. ASSUME NEW c \in Clients, KeyClose(c) \/ KeyConnect(c) \/ RetryTimer(c)
        PROVE  UNCHANGED exitVars
    BY <1>6 DEF KeyClose, KeyConnect, RetryTimer
  <1>7. ASSUME NEW h \in KeyHandlers, PressKey(h) PROVE UNCHANGED exitVars
    BY <1>7 DEF PressKey
  <1>8. ASSUME NEW s \in Sessions, SessionNotifies(s) \/ SessionEnds(s) PROVE StopInv'
    <2>1. UNCHANGED exitVars \/ Exited(observer[s])
      BY <1>8 DEF SessionNotifies, SessionEnds
    <2> QED BY <1>1, <1>2, <2>1
  <1>9. ASSUME UNCHANGED allVars PROVE UNCHANGED exitVars
    BY <1>9 DEF allVars
  <1> QED BY <1>1, <1>3, <1>4, <1>5, <1>6, <1>7, <1>8, <1>9 DEF PlayerNext, Handler

\* A session that has not ended belongs to a client that is online.
LEMMA NoneOnlineWhenStopped == IInv /\ ExitInv /\ StopInv => StopsWithoutSessions
  <1> SUFFICES ASSUME IInv, ExitInv, StopInv, keys = 0, stopped, NEW s \in Sessions,
                      session[s] # "free"
               PROVE  FALSE
    BY DEF StopsWithoutSessions
  <1>1. observer[s] \in Clients /\ Online(observer[s])
    BY ReportedSession, NoSessionAssumption DEF Online
  <1>2. exit[observer[s]]
    BY <1>1 DEF StopInv
  <1> QED BY <1>1, <1>2, ExitInvHolds DEF ExitedIsOffline, ExitInv

\* Without keys, the io_context is only stopped when no session object is left
\* (StopsWithoutSessions; scenario_player.h:224-229).
THEOREM StopLeavesNoSession == PlayerSpec => []StopsWithoutSessions
  <1>1. PlayerInit => StopInv
    BY DEF PlayerInit, StopInv
  <1> QED BY <1>1, KeylessInvariant, StopInvStep, NoneOnlineWhenStopped, PTL DEF PlayerSpec

-----------------------------------------------------------------------------
(* A scenario that comes back never calls an empty callback.                 *)

\* Where no session is lost, a client that comes back has no retry, and from its
\* reconnect to its next disconnect it is online or is about to be.
Returning(c) ==
  LET k == opIndex[Main][c]
      l == LoopIndex(config)
  IN /\ retryTimer[c] = "idle"
     /\ k \in 2 .. l + 1 => Online(c) /\ (closing[c] => needReconnect[c])

\* The inductive invariant.
ReturnInv ==
  keys = 0 /\ ~lossy /\ (config.lasts => config.repeats) =>
    /\ ~terminated
    /\ Returns(config) => \A c \in Clients : Returning(c)

\* Nobody is online before the first reconnect.
LEMMA ReturnInvInit == PlayerInit => ReturnInv
  <1> SUFFICES ASSUME PlayerInit PROVE ReturnInv
    OBVIOUS
  <1>1. /\ Main \in Players /\ config \in Configs
        /\ opIndex = [p \in Players |-> [c \in Clients |-> 0]]
        /\ Init
    BY DEF PlayerInit, Players
  <1>2. \A c \in Clients : retryTimer[c] = "idle" /\ opIndex[Main][c] = 0
    BY <1>1 DEF Init
  <1>3. LoopIndex(config) \in Nat
    BY <1>1, LoopInside
  <1>4. \A c \in Clients : Returning(c)
    BY <1>2, <1>3 DEF Returning
  <1> QED BY <1>1, <1>4 DEF ReturnInv, Init

\* Going on from a sleep, a start or a message.
LEMMA ReturnsOn ==
  ASSUME PlayerTypeOK, Untouched, Returns(config), config' = config, NEW c \in Clients,
         ClientSame(c), Moved(c), Returning(c)
  PROVE  Returning(c)'
  <1> DEFINE k == opIndex[Main][c]
             l == LoopIndex(config)
             n == Len(ClientScenario(config))
             i == opIndex'[Main][c]
             op == MainOp(config, k).op
  <1>1. /\ config \in Configs /\ l \in Nat /\ n \in Nat /\ k \in 0 .. n - 1
        /\ Following(Main, c) = IF k + 1 = n THEN l ELSE k + 1
    BY MainIndex
  <1>2. /\ l >= 2 /\ n = l + 4
        /\ op = "reconnect" <=> k \in {1, l + 3}
        /\ op = "disconnect" <=> k = l + 1
    BY <1>1, ReturnOps
  <1>3. i = k \/ (op \in {"sleep", "sub", "voice", "send"} /\ i = Following(Main, c))
    BY DEF Moved
  <1>4. i \in 2 .. l + 1 => k \in 2 .. l + 1
    <2> HIDE DEF k, l, n, i, op
    <2> QED BY <1>1, <1>2, <1>3
  <1> QED BY <1>4 DEF Returning, ClientSame, Online

\* OP_RECONNECT: the client is online afterwards, or will be when its session has ended.
LEMMA ReturnerConnects ==
  ASSUME PlayerTypeOK, IInv, Untouched, Returns(config), config' = config,
         NEW c \in Clients, OnOpReconnect(Main, c), Returning(c)
  PROVE  Returning(c)' /\ terminated' = terminated
  <1>1. Connect(c)
    BY DEF OnOpReconnect
  <1>2. retryTimer'[c] = "idle" /\ terminated' = terminated
    BY <1>1 DEF Connect, Cancelled, Returning, IInv, TypeOK
  <1>3. CASE ReconnectLater(c)
    <2>1. closing[c] /\ Online(c)
      BY <1>3 DEF ReconnectLater, IInv, ClosingIsDisconnecting
    <2>2. needReconnect'[c] /\ Online(c)'
      BY <1>3, <2>1 DEF ReconnectLater, Online, IInv, TypeOK
    <2> QED BY <1>2, <2>2 DEF Returning
  <1>4. CASE ReplaceSession(c)
    <2>1. needReconnect'[c] /\ Online(c)'
      BY <1>4 DEF ReplaceSession, Online, IInv, TypeOK
    <2> QED BY <1>2, <2>1 DEF Returning
  <1>5. CASE OpenSession(c)
    <2>1. ~closing'[c] /\ Online(c)'
      BY <1>5, NoSessionAssumption DEF OpenSession, Online, IInv, TypeOK
    <2> QED BY <1>2, <2>1 DEF Returning
  <1> QED BY <1>1, <1>3, <1>4, <1>5 DEF Connect

\* OP_DISCONNECT finds the client online, or closing without a callback.
LEMMA ReturnerCloses ==
  ASSUME PlayerTypeOK, IInv, Untouched, Returns(config), config' = config,
         NEW c \in Clients, OnOpDisconnect(Main, c), Returning(c), onClose[c] = NoCallback
  PROVE  Returning(c)' /\ terminated' = terminated
  <1> DEFINE k == opIndex[Main][c]
             l == LoopIndex(config)
             n == Len(ClientScenario(config))
  <1>1. /\ config \in Configs /\ l \in Nat /\ n \in Nat /\ k \in 0 .. n - 1 /\ Main \in Players
        /\ Following(Main, c) = IF k + 1 = n THEN l ELSE k + 1
    BY MainIndex
  <1>2. TouchesOnly(c) /\ MainOp(config, k).op = "disconnect"
    BY <1>1, GoesOnAlone
  <1>3. l >= 2 /\ n = l + 4 /\ k = l + 1
    BY <1>1, <1>2, ReturnOps
  <1>4. opIndex'[Main][c] = l + 2
    BY <1>1, <1>2, <1>3 DEF TouchesOnly
  <1>5. Online(c)
    BY <1>1, <1>3 DEF Returning
  <1>6. ~AnswersAtOnce(c)
    BY <1>5 DEF AnswersAtOnce
  <1>7. UNCHANGED <<retryTimer, terminated>>
    BY <1>6 DEF OnOpDisconnect, Close
  <1>8. opIndex'[Main][c] \notin 2 .. l + 1
    BY <1>1, <1>4
  <1> QED BY <1>7, <1>8 DEF Returning

\* Its sessions only end when they are told to, and are replaced if a reconnect waits.
LEMMA ReturnerLoses ==
  ASSUME PlayerTypeOK, IInv, ~lossy, config' = config,
         NEW s \in Sessions, SessionEnds(s), Returning(observer[s]),
         onClose[observer[s]] = NoCallback
  PROVE  Returning(observer[s])'
  <1> DEFINE c == observer[s]
  <1>1. /\ c \in Clients /\ signaling[c] = s /\ Online(c)
        /\ opIndex'[Main][c] = opIndex[Main][c]
    BY SessionAlone
  <1>2. session[s] = "disconnecting" /\ OnDisconnect(s)
    BY DEF SessionEnds
  <1>3. closing[c]
    BY <1>1, <1>2 DEF IInv, ClosingIsDisconnecting
  <1>4. ClosedSession(c, s)
    BY <1>2, <1>3 DEF OnDisconnect, LostSession
  <1> HIDE DEF c
  <1>5. ~closing'[c] /\ retryTimer'[c] = "idle"
    BY <1>1, <1>4 DEF ClosedSession, Cancelled, Returning, IInv, TypeOK, c
  <1>6. CASE needReconnect[c]
    <2>1. ReconnectsNow(c)
      BY <1>6 DEF ReconnectsNow, c
    <2>2. Online(c)'
      BY <1>1, <1>4, <2>1, NoSessionAssumption DEF ClosedSession, Online, IInv, TypeOK
    <2>3. Returning(c)'
      BY <1>5, <2>2 DEF Returning
    <2> QED BY <2>3 DEF c
  <1>7. CASE ~needReconnect[c]
    <2>1. opIndex[Main][c] \notin 2 .. LoopIndex(config) + 1
      BY <1>3, <1>7 DEF Returning, c
    <2>2. Returning(c)'
      BY <1>1, <1>5, <2>1 DEF Returning
    <2> QED BY <2>2 DEF c
  <1> QED BY <1>6, <1>7

\* One step of a client that comes back.
LEMMA ReturnerStep ==
  ASSUME PlayerTypeOK, IInv, Untouched, Returns(config), config' = config, ~lossy, ~terminated,
         \A c \in Clients : WaitsAtSleep(c) /\ Returning(c) /\ onClose[c] = NoCallback,
         \/ \E p \in Players, c \in Clients : OnNext(p, c) \/ OnWoken(p, c) \/ Wakes(p, c)
         \/ \E s \in Sessions : SessionNotifies(s) \/ SessionEnds(s)
         \/ \E c \in Clients : RetryTimer(c),
         NEW d \in Clients
  PROVE  Returning(d)' /\ ~terminated'
  <1>1. ASSUME ClientSame(d), Moved(d) PROVE Returning(d)'
    BY <1>1, ReturnsOn
  <1>2. opIndex'[Main][d] = opIndex[Main][d] => Moved(d)
    BY DEF Moved
  <1>3. ASSUME NEW p \in Players, NEW c \in Clients,
               \/ OnSleep(p, c) \/ OnPlaySubScenario(p, c) \/ OnVoiceOrMessage(p, c)
               \/ OnWoken(p, c) \/ Wakes(p, c)
        PROVE  Returning(d)' /\ ~terminated'
    <2>1. ClientSame(d) /\ Moved(d) /\ terminated' = terminated
      BY <1>3, QuietMoves
    <2> QED BY <1>1, <2>1
  <1>4. ASSUME NEW p \in Players, NEW c \in Clients,
               OnOpDisconnect(p, c) \/ OnOpReconnect(p, c) \/ OnOpExit(p, c)
        PROVE  Returning(d)' /\ ~terminated'
    <2>1. p = Main /\ TouchesOnly(c)
      BY <1>4, GoesOnAlone
    <2>2. ~OnOpExit(p, c)
      <3>1. config \in Configs /\ opIndex[Main][c] \in 0 .. Len(ClientScenario(config)) - 1
        BY MainIndex
      <3> QED BY <3>1, GoesOnAlone, ReturnOps
    <2>3. Returning(c) /\ onClose[c] = NoCallback
      OBVIOUS
    <2>4. OnOpDisconnect(Main, c) \/ OnOpReconnect(Main, c)
      BY <1>4, <2>1, <2>2
    <2>5. Returning(c)' /\ terminated' = terminated
      BY <2>3, <2>4, ReturnerConnects, ReturnerCloses
    <2>6. d # c => ClientSame(d) /\ opIndex'[Main][d] = opIndex[Main][d]
      BY <2>1 DEF TouchesOnly
    <2> QED BY <1>1, <1>2, <2>5, <2>6
  <1>5. ASSUME NEW s \in Sessions, SessionNotifies(s) \/ SessionEnds(s)
        PROVE  Returning(d)' /\ ~terminated'
    <2>1. /\ observer[s] \in Clients /\ terminated' = terminated
          /\ opIndex'[Main][d] = opIndex[Main][d]
          /\ d # observer[s] => ClientSame(d)
          /\ SessionNotifies(s) => ClientSame(observer[s])
      BY <1>5, SessionAlone
    <2>2. CASE SessionEnds(s) /\ d = observer[s]
      <3>1. Returning(observer[s]) /\ onClose[observer[s]] = NoCallback
        BY <2>1
      <3> QED BY <2>1, <2>2, <3>1, ReturnerLoses
    <2> QED BY <1>1, <1>2, <1>5, <2>1, <2>2
  <1>6. ASSUME NEW c \in Clients PROVE ~RetryTimer(c)
    <2>1. retryTimer[c] = "idle"
      BY DEF Returning
    <2> QED BY <2>1 DEF RetryTimer, RetryExpires, RetryFires
  <1> QED BY <1>3, <1>4, <1>5, <1>6 DEF OnNext

\* A scenario without OP_DISCONNECT and OP_EXIT closes nothing.
LEMMA StayerGoesOn ==
  ASSUME PlayerTypeOK, IInv, Untouched, ~Exits(config), ~Returns(config),
         \A c \in Clients : WaitsAtSleep(c),
         \/ \E p \in Players, c \in Clients : OnNext(p, c) \/ OnWoken(p, c) \/ Wakes(p, c)
         \/ \E s \in Sessions : SessionNotifies(s) \/ SessionEnds(s)
         \/ \E c \in Clients : RetryTimer(c)
  PROVE  terminated' = terminated
  <1>1. ASSUME NEW p \in Players, NEW c \in Clients PROVE ~OnOpDisconnect(p, c) /\ ~OnOpExit(p, c)
    <2>1. config \in Configs /\ opIndex[Main][c] \in 0 .. Len(ClientScenario(config)) - 1
      BY MainIndex
    <2> QED BY <2>1, GoesOnAlone, StayOps
  <1>2. ASSUME NEW p \in Players, NEW c \in Clients, OnNext(p, c) \/ OnWoken(p, c) \/ Wakes(p, c)
        PROVE  terminated' = terminated
    <2>1. CASE OnOpReconnect(p, c)
      BY <2>1 DEF OnOpReconnect, Connect
    <2>2. CASE \/ OnSleep(p, c) \/ OnPlaySubScenario(p, c) \/ OnVoiceOrMessage(p, c)
               \/ OnWoken(p, c) \/ Wakes(p, c)
      BY <2>2, QuietMoves
    <2> QED BY <1>1, <1>2, <2>1, <2>2 DEF OnNext
  <1>3. ASSUME NEW s \in Sessions, SessionNotifies(s) \/ SessionEnds(s)
        PROVE  terminated' = terminated
    BY <1>3, SessionAlone
  <1>4. ASSUME NEW c \in Clients, RetryTimer(c) PROVE terminated' = terminated
    BY <1>4, RetryAlone
  <1> QED BY <1>2, <1>3, <1>4

\* A stutter leaves it.
LEMMA ReturnInvStutter == ReturnInv /\ UNCHANGED allVars => ReturnInv'
  BY DEF ReturnInv, allVars, vars, clientVars, playVars, exitVars, given, Returns,
     ReconnectScenario, Returning, Online

\* The step is the one of a client that comes back, or nothing that concerns the clients.
LEMMA ReturnInvStep ==
  PlayerTypeOK /\ IInv /\ ChainInv /\ ExitInv /\ ReturnInv /\ [PlayerNext]_allVars => ReturnInv'
  <1> SUFFICES ASSUME PlayerTypeOK, IInv, ChainInv, ExitInv, ReturnInv, PlayerNext,
                      ~UNCHANGED allVars, keys' = 0, ~lossy', (config.lasts => config.repeats)'
               PROVE  ReturnInv'
    BY ReturnInvStutter DEF ReturnInv
  <1>1. config' = config /\ lossy' = lossy
    BY GivenIsKept DEF given
  <1>2. /\ keys = 0 /\ Untouched
        /\ \/ \E p \in Players, c \in Clients : OnNext(p, c) \/ OnWoken(p, c) \/ Wakes(p, c)
           \/ \E s \in Sessions : SessionNotifies(s) \/ SessionEnds(s)
           \/ \E c \in Clients : RetryTimer(c)
    BY KeylessSteps DEF ChainInv
  <1>3. \A c \in Clients : WaitsAtSleep(c)
    BY <1>2 DEF ChainInv
  <1>4. ~lossy /\ ~Exits(config) /\ ~terminated
    BY <1>1, <1>2 DEF ReturnInv, Exits
  <1>5. \A c \in Clients : onClose[c] = NoCallback
    BY <1>2, <1>4 DEF ExitInv
  <1>6. Returns(config)' = Returns(config)
    BY <1>1 DEF Returns, ReconnectScenario
  <1>7. CASE Returns(config)
    <2>1. \A c \in Clients : WaitsAtSleep(c) /\ Returning(c) /\ onClose[c] = NoCallback
      BY <1>1, <1>2, <1>3, <1>4, <1>5, <1>7 DEF ReturnInv
    <2>2. \A d \in Clients : Returning(d)' /\ ~terminated'
      BY <1>1, <1>2, <1>4, <1>7, <2>1, ReturnerStep
    <2>3. ~terminated'
      <3>1. \E d : d \in Clients
        BY <1>2, ObserverAssumption
      <3> QED BY <2>2, <3>1
    <2> QED BY <2>2, <2>3 DEF ReturnInv
  <1>8. CASE ~Returns(config)
    <2>1. terminated' = terminated
      BY <1>2, <1>3, <1>4, <1>8, StayerGoesOn
    <2> QED BY <1>4, <1>6, <1>8, <2>1 DEF ReturnInv
  <1> QED BY <1>7, <1>8

\* Without keys and lost sessions, a scenario that does not exit never calls Close() on a
\* client that would have to be called back at once: the empty callback of OP_DISCONNECT
\* is not called and the process is not ended by it (ThrowsOnlyAfterLoss;
\* scenario_player.h:211-214, virtual_client.cpp:86-102).
THEOREM NothingThrowsWithoutLoss == PlayerSpec => []ThrowsOnlyAfterLoss
  <1>1. ReturnInv => ThrowsOnlyAfterLoss
    BY DEF ReturnInv, ThrowsOnlyAfterLoss
  <1> QED BY <1>1, KeylessInvariant, ReturnInvInit, ReturnInvStep, PTL DEF PlayerSpec
=============================================================================
