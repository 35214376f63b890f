---------------------------- MODULE ScenarioPlayer ----------------------------
(***************************************************************************)
(* src/src/scenario_player.h, the loop of zakuro.cpp:596-629 that starts   *)
(* it, and the keys of fake_audio_key_trigger.h:42-79 that act on it: one  *)
(* instance's io_context, its players and its virtual clients.             *)
(*                                                                         *)
(* The io_context is the sequence "ready" of the handlers that are queued, *)
(* run one at a time in that order.  A handler is one step, with all the   *)
(* calls it makes.  A player's timer is "armed" while a wait is pending;   *)
(* its completion handler is queued when it expires, and cancel() cannot   *)
(* take that back.  Handlers that only find their wait cancelled are left  *)
(* out.  What VirtualClient's sessions and retry timers report may be      *)
(* queued anywhere, and so may run between any two handlers.               *)
(*                                                                         *)
(* Only the main player is ever paused or has exited (the keys and the     *)
(* exit callback know no other), so those flags have no player index.      *)
(* Left out: the voices and messages themselves, and how long sleeps are,  *)
(* so that timers expire in any order.                                     *)
(***************************************************************************)
EXTENDS VirtualClient, ScenarioBuilder, Integers

CONSTANTS
  ExitCallback,  \* the function OP_EXIT gives to Close()
  Configs,       \* the configurations of the instance, one of which it has
  Lossy,         \* subset of BOOLEAN: may sessions be lost of their own accord?
  MaxKeys        \* bound: key presses that post a handler

\* The clients are numbered from 0, as their vector is (zakuro.cpp:596).
ASSUME ClientsAssumption ==
  IsFiniteSet(Clients) /\ Clients = 0 .. Cardinality(Clients) - 1
ASSUME ConfigsAssumption == \A g \in Configs : IsConfiguration(g)
ASSUME MaxKeysAssumption == MaxKeys \in Nat
ASSUME LossyAssumption == Lossy \subseteq BOOLEAN
ASSUME ExitCallbackAssumption == ExitCallback \in Callbacks

VARIABLES
  config,    \* the instance's configuration
  lossy,     \* are sessions lost, or only ended by Disconnect()?
  opIndex,   \* info.op_index, by player and client
  timer,     \* info.timer, by player and client: "idle" or "armed"
  playing,   \* by player: the clients it was given a scenario for
  paused,    \* info.paused of the main player, by client
  exit,      \* info.exit of the main player, by client
  ready,     \* the handlers queued on the io_context
  stopped,   \* has the io_context been stopped?
  keys       \* key presses so far

playVars == <<opIndex, timer, playing, paused>>
exitVars == <<exit, stopped>>
given == <<config, lossy>>
allVars == <<vars, playVars, exitVars, given, ready, keys>>

Players == {Main} \cup UNION {SubPlayers(g) : g \in Configs}

Ops(p) == IF p = Main THEN ClientScenario(config) ELSE SubScenario(p)
LoopOf(p) == IF p = Main THEN LoopIndex(config) ELSE 0

InOrder == [i \in 1 .. Cardinality(Clients) |-> i - 1]

\* The handlers that are posted: OnNext of a player, the completion of its timer,
\* and what the key trigger posts.
OnNextOf(p, c) == [do |-> "next", player |-> p, client |-> c]
WokenUp(p, c) == [do |-> "woken", player |-> p, client |-> c]
KeyHandlers ==
  [do : {"pauseAll", "resumeAll"}] \cup [do : {"close", "connect"}, client : Clients]
Handlers == [do : {"next", "woken"}, player : Players, client : Clients] \cup KeyHandlers

PlayerTypeOK ==
  /\ TypeOK
  /\ config \in Configs
  /\ lossy \in Lossy
  /\ opIndex \in [Players -> [Clients -> Nat]]
  /\ \A p \in Players, c \in Clients : opIndex[p][c] < Len(Ops(p))
  /\ timer \in [Players -> [Clients -> {"idle", "armed"}]]
  /\ playing \in [Players -> SUBSET Clients]
  /\ paused \in [Clients -> BOOLEAN]
  /\ exit \in [Clients -> BOOLEAN]
  /\ ready \in Seq(Handlers)
  /\ stopped \in BOOLEAN
  /\ keys \in 0 .. MaxKeys

\* Every client has been given its scenario (596-604), and run() is about to be
\* called (629).
PlayerInit ==
  /\ Init
  /\ config \in Configs
  /\ lossy \in Lossy
  /\ opIndex = [p \in Players |-> [c \in Clients |-> 0]]
  /\ timer = [p \in Players |-> [c \in Clients |-> "idle"]]
  /\ playing = [p \in Players |-> IF p = Main THEN Clients ELSE {}]
  /\ paused = [c \in Clients |-> FALSE]
  /\ exit = [c \in Clients |-> FALSE]
  /\ ready = [i \in DOMAIN InOrder |-> OnNextOf(Main, InOrder[i])]
  /\ stopped = FALSE
  /\ keys = 0

-----------------------------------------------------------------------------
(* Handlers of the io_context. *)

\* run() takes handlers until stop() is called or one throws.
Running == ~stopped /\ ~terminated

\* The handler h is at the front of the queue, is taken, and posts those of q.
Runs(h, q) ==
  /\ Running
  /\ ready # <<>>
  /\ Head(ready) = h
  /\ ready' = Tail(ready) \o q

\* Mutant: Next() does not look at the flag.
HaltedNever(p, c) == FALSE

Halted(p, c) == p = Main /\ paused[c]

\* Mutant: the end of the scenario is noticed one operation too late.
FollowingPastEnd(p, c) ==
  IF Halted(p, c) THEN opIndex[p][c]
  ELSE IF opIndex[p][c] + 1 > Len(Ops(p)) THEN LoopOf(p) ELSE opIndex[p][c] + 1

\* Next(): what it posts, and where it leaves op_index.
Posted(p, c) == IF Halted(p, c) THEN <<>> ELSE <<OnNextOf(p, c)>>
Following(p, c) ==
  IF Halted(p, c) THEN opIndex[p][c]
  ELSE IF opIndex[p][c] + 1 = Len(Ops(p)) THEN LoopOf(p) ELSE opIndex[p][c] + 1

\* The operation that OnNext(p, c) finds.
Op(p, c) == Ops(p)[opIndex[p][c] + 1]

\* The handler of an operation that does nothing to the players but go on.
GoesOn(p, c) ==
  /\ Runs(OnNextOf(p, c), Posted(p, c))
  /\ opIndex' = [opIndex EXCEPT ![p][c] = Following(p, c)]
  /\ UNCHANGED <<timer, playing, paused, given, keys>>

OnSleep(p, c) ==
  /\ Op(p, c).op = "sleep"
  /\ Runs(OnNextOf(p, c), <<>>)
  /\ timer' = [timer EXCEPT ![p][c] = "armed"]
  /\ UNCHANGED <<vars, opIndex, playing, paused, exitVars, given, keys>>

\* The sub scenario is started, then the main one goes on.
OnPlaySubScenario(p, c) ==
  /\ Op(p, c).op = "sub"
  /\ LET q == Op(p, c).player IN
     /\ Runs(OnNextOf(p, c), <<OnNextOf(q, c)>> \o Posted(p, c))
     /\ opIndex' = [opIndex EXCEPT ![p][c] = Following(p, c), ![q][c] = 0]
     /\ timer' = [timer EXCEPT ![q][c] = "idle"]
     /\ playing' = [playing EXCEPT ![q] = @ \cup {c}]
  /\ UNCHANGED <<vars, paused, exitVars, given, keys>>

\* A voice or a message: SendMessage() does nothing without a session or while
\* closing_, and neither is of any consequence here.
OnVoiceOrMessage(p, c) ==
  /\ Op(p, c).op \in {"voice", "send"}
  /\ GoesOn(p, c)
  /\ UNCHANGED <<vars, exitVars>>

\* Mutant: the case returns instead of breaking.
OnOpDisconnectReturns(p, c) ==
  /\ Op(p, c).op = "disconnect"
  /\ Runs(OnNextOf(p, c), <<>>)
  /\ Close(c, NoCallback)
  /\ UNCHANGED <<playVars, exitVars, given, keys>>

\* The argument of Close() is left to its default.
OnOpDisconnect(p, c) ==
  /\ Op(p, c).op = "disconnect"
  /\ GoesOn(p, c)
  /\ Close(c, NoCallback)
  /\ UNCHANGED exitVars

OnOpReconnect(p, c) ==
  /\ Op(p, c).op = "reconnect"
  /\ GoesOn(p, c)
  /\ Connect(c)
  /\ UNCHANGED exitVars

\* Mutant: stop() is called as soon as one client has exited.
ExitedFirst(c) ==
  /\ exit' = [exit EXCEPT ![c] = TRUE]
  /\ stopped' = TRUE

\* The callback of OP_EXIT: the last client to exit stops the io_context.
Exited(c) ==
  /\ exit' = [exit EXCEPT ![c] = TRUE]
  /\ stopped' = \A d \in Clients : exit'[d]

\* Mutant: the client counts as exited before it has been closed.
OnOpExitEarly(p, c) ==
  /\ Op(p, c).op = "exit"
  /\ GoesOn(p, c)
  /\ Close(c, ExitCallback)
  /\ Exited(c)

OnOpExit(p, c) ==
  /\ Op(p, c).op = "exit"
  /\ GoesOn(p, c)
  /\ Close(c, ExitCallback)
  /\ IF AnswersAtOnce(c) THEN Exited(c) ELSE UNCHANGED exitVars

OnNext(p, c) ==
  \/ OnSleep(p, c)
  \/ OnPlaySubScenario(p, c)
  \/ OnVoiceOrMessage(p, c)
  \/ OnOpDisconnect(p, c)
  \/ OnOpReconnect(p, c)
  \/ OnOpExit(p, c)

\* The handler of a wait that was not cancelled.
OnWoken(p, c) ==
  /\ Runs(WokenUp(p, c), Posted(p, c))
  /\ opIndex' = [opIndex EXCEPT ![p][c] = Following(p, c)]
  /\ UNCHANGED <<vars, timer, playing, paused, exitVars, given, keys>>

PauseAll ==
  /\ Runs([do |-> "pauseAll"], <<>>)
  /\ timer' = [timer EXCEPT ![Main] = [c \in Clients |-> "idle"]]
  /\ paused' = [c \in Clients |-> TRUE]
  /\ UNCHANGED <<vars, opIndex, playing, exitVars, given, keys>>

\* Mutant: only the flag is cleared.
ResumeFlagOnly ==
  /\ Runs([do |-> "resumeAll"], <<>>)
  /\ paused' = [c \in Clients |-> FALSE]
  /\ UNCHANGED <<vars, opIndex, timer, playing, exitVars, given, keys>>

ResumeAll ==
  /\ Runs([do |-> "resumeAll"], [i \in DOMAIN InOrder |-> OnNextOf(Main, InOrder[i])])
  /\ paused' = [c \in Clients |-> FALSE]
  /\ UNCHANGED <<vars, opIndex, timer, playing, exitVars, given, keys>>

KeyClose(c) ==
  /\ Runs([do |-> "close", client |-> c], <<>>)
  /\ Close(c, NoCallback)
  /\ UNCHANGED <<playVars, exitVars, given, keys>>

KeyConnect(c) ==
  /\ Runs([do |-> "connect", client |-> c], <<>>)
  /\ Connect(c)
  /\ UNCHANGED <<playVars, exitVars, given, keys>>

-----------------------------------------------------------------------------
(* What queues handlers, or runs between them. *)

Wakes(p, c) ==
  /\ Running
  /\ timer[p][c] = "armed"
  /\ timer' = [timer EXCEPT ![p][c] = "idle"]
  /\ ready' = Append(ready, WokenUp(p, c))
  /\ UNCHANGED <<vars, opIndex, playing, paused, exitVars, given, keys>>

\* The key thread posts; only an instance with a trigger has one.
PressKey(h) ==
  /\ Running
  /\ config.trigger
  /\ keys < MaxKeys
  /\ keys' = keys + 1
  /\ ready' = Append(ready, h)
  /\ UNCHANGED <<vars, playVars, exitVars, given>>

SessionNotifies(s) ==
  /\ Running
  /\ OnNotify(s)
  /\ UNCHANGED <<playVars, exitVars, given, ready, keys>>

\* OnDisconnect, which calls the exit callback if that is what waits.
SessionEnds(s) ==
  /\ Running
  /\ lossy \/ session[s] = "disconnecting"
  /\ OnDisconnect(s)
  /\ IF onClose[observer[s]] = ExitCallback THEN Exited(observer[s]) ELSE UNCHANGED exitVars
  /\ UNCHANGED <<playVars, given, ready, keys>>

RetryTimer(c) ==
  /\ Running
  /\ RetryExpires(c) \/ RetryFires(c)
  /\ UNCHANGED <<playVars, exitVars, given, ready, keys>>

-----------------------------------------------------------------------------
Handler ==
  \/ \E p \in Players, c \in Clients : OnNext(p, c) \/ OnWoken(p, c)
  \/ PauseAll
  \/ ResumeAll
  \/ \E c \in Clients : KeyClose(c) \/ KeyConnect(c)

PlayerNext ==
  \/ Handler
  \/ \E p \in Players, c \in Clients : Wakes(p, c)
  \/ \E h \in KeyHandlers : PressKey(h)
  \/ \E s \in Sessions : SessionNotifies(s)
  \/ \E s \in Sessions : SessionEnds(s)
  \/ \E c \in Clients : RetryTimer(c)

\* Queued handlers run, timers expire, and a Disconnect() is answered.  No key need
\* be pressed, no session need come up or be lost.
PlayerFairness ==
  /\ WF_allVars(Handler)
  /\ \A p \in Players, c \in Clients : WF_allVars(Wakes(p, c))
  /\ \A c \in Clients : WF_allVars(RetryTimer(c))
  /\ \A s \in Sessions : WF_allVars(session[s] = "disconnecting" /\ SessionEnds(s))

PlayerSpec == PlayerInit /\ [][PlayerNext]_allVars /\ PlayerFairness

-----------------------------------------------------------------------------
(* Safety. *)

\* What keeps the scenario of player p going for client c: a pending wait, or a
\* handler in the queue.
Continuations(p, c) ==
  Cardinality({i \in DOMAIN ready : ready[i] \in {OnNextOf(p, c), WokenUp(p, c)}})
    + IF timer[p][c] = "armed" THEN 1 ELSE 0

\* A scenario that plays goes on along exactly one chain of handlers, whether the
\* main player starts it, loops over it or wakes up: with none it would stand
\* still, with two every client would do everything twice as often.  (DoNext is
\* posted by Play, by Next and by ResumeAll: 95-139.)  Two data channels with one
\* label share a player, whose second Play() may find a timer that it can no longer
\* cancel; the main scenario has one chain even then.
OneContinuation ==
  keys = 0 =>
    \A p \in Players : \A c \in playing[p] :
      p = Main \/ LabelsDiffer(config) => Continuations(p, c) = 1

\* Keys may double a chain but never lose one: while it is not paused, every
\* scenario has something left that carries it on.
NeverLost ==
  Running => \A p \in Players : \A c \in playing[p] :
               Halted(p, c) \/ Continuations(p, c) >= 1

\* Without keys, a client that has exited is offline for good: it has no session
\* and no retry that would open one (219-230, virtual_client.cpp:165-201).
ExitedIsOffline ==
  keys = 0 => \A c \in Clients : exit[c] => ~Online(c) /\ retryTimer[c] = "idle"

\* Without keys, the io_context is only stopped when no session object is left
\* (224-229).
StopsWithoutSessions ==
  keys = 0 /\ stopped => \A s \in Sessions : session[s] = "free"

\* A scenario that never exits calls Close() without a callback only where nothing
\* has to be called back, if no session is lost: however late a disconnect is
\* answered, the client is online or closing when its next duration is over.
ThrowsOnlyAfterLoss ==
  keys = 0 /\ ~lossy /\ (config.lasts => config.repeats) => ~terminated

-----------------------------------------------------------------------------
(* Liveness. *)

\* With a duration and no interval to repeat after, the instance ends, one way or
\* the other.
Ends == (config.lasts /\ ~config.repeats /\ ~config.trigger) ~> ~Running

\* With an interval to repeat after, every client is online again and again, until
\* the process ends.
ComesBack ==
  config.lasts /\ config.repeats =>
    \A c \in Clients : []<>(Online(c) \/ terminated)

\* A pause takes hold: the main scenario of a paused client comes to a halt, after
\* the operation that was queued if there was one, whatever timers are under way.
PauseTakesHold ==
  \A c \in Clients :
    paused[c] ~> Continuations(Main, c) = 0 \/ ~paused[c] \/ ~Running

-----------------------------------------------------------------------------
(* What the documents say and the code does not do. *)

\* CHANGES.md:303: when every client has been disconnected because its duration is
\* over, zakuro ends by itself (and not on an exception that nobody catches).
NoUncaughtException == ~terminated

\* fake_audio_key_trigger.h:47, "pause": every scenario comes to a halt as the main
\* one does, the one that plays voices included.
PauseSilences ==
  \A p \in Players, c \in Clients :
    paused[c] ~> Continuations(p, c) = 0 \/ ~paused[c] \/ ~Running
=============================================================================
