------------------------------ MODULE GameKeys ------------------------------
(***************************************************************************)
(* src/src/game/game_key_core.h, src/src/game/game_key.h and               *)
(* src/src/fake_audio_key_trigger.h, with the order in which Zakuro::Run   *)
(* (src/src/zakuro.cpp:208-639) builds and destroys the trigger: the way   *)
(* of a typed key to the instances.                                        *)
(*                                                                         *)
(* One thread of the process reads keys and pushes each of them to the     *)
(* GameKey of every instance, in the order in which these stand in keys_.  *)
(* The thread of an instance's trigger takes one key every 100 ms from its *)
(* GameKey and acts on it.  PushKey() and PopKey() lock; keys_ has no      *)
(* lock, and the instances' own threads add and remove their GameKey.      *)
(*                                                                         *)
(* What the code leaves undefined (a change of keys_ while another thread  *)
(* uses it, a post to an io_context that has been destroyed, the use of a  *)
(* destroyed GameKey) sets undefined, and nothing is modelled after it.    *)
(* A user is careful who types while every instance runs, and lets them    *)
(* start and end one at a time and with nothing typed left over.           *)
(*                                                                         *)
(* The time between two keys is a choice: a sequence may have expired at   *)
(* every turn.  What the posted handlers do is in ScenarioPlayer.          *)
(***************************************************************************)
EXTENDS Naturals, Sequences, SequencesExt

CONSTANTS
  Instances,  \* that take keys
  Endless,    \* those of them that do not end
  Keys,       \* that are typed
  Vcs,        \* virtual clients of each instance
  MaxTyped    \* bound: keys typed

\* "a" stands for every letter that means nothing, " " for what is no letter or digit.
Letters == {"q", "Q", "a"}
Digits == {"1", "2", "0"}

ASSUME EndlessAssumption == Endless \subseteq Instances
ASSUME KeysAssumption == Keys \subseteq Letters \union Digits \union {"s", "S", " "}
ASSUME BoundsAssumption == Vcs \in Nat /\ MaxTyped \in Nat

VARIABLES
  careful,    \* is the user careful?
  reader,     \* the thread of GameKeyCore
  at,         \* where its loop over keys_ is, 0 outside of the loop
  typed,      \* the keys that it has read
  keys,       \* keys_
  stage,      \* of each instance's thread
  queue,      \* queue_ of each GameKey
  trigger,    \* the thread of each trigger
  seq,        \* its sequence
  since,      \* keys typed before it was there
  taken,      \* keys typed until the one it has popped last
  lapses,     \* the values of taken at which its sequence expired
  done,       \* the commands that it has given
  undefined   \* has something undefined happened?

readerVars == <<reader, at, typed>>
triggerVars == <<queue, trigger, seq, since, taken, lapses, done>>
vars == <<careful, readerVars, keys, stage, triggerVars, undefined>>

Stages == {"hatching", "registering", "running", "closed", "cleared", "joining",
           "unregistering", "gone"}

TypeOK ==
  /\ careful \in BOOLEAN /\ undefined \in BOOLEAN
  /\ reader \in {"reading", "over"}
  /\ at \in 0 .. Len(keys)
  /\ typed \in Seq(Keys) /\ keys \in Seq(Instances)
  /\ stage \in [Instances -> Stages]
  /\ queue \in [Instances -> Seq(Keys)]
  /\ trigger \in [Instances -> {"none", "turning", "over"}]
  /\ seq \in [Instances -> Seq(Letters)]
  /\ since \in [Instances -> Nat] /\ taken \in [Instances -> Nat]
  /\ lapses \in [Instances -> SUBSET Nat]

Init ==
  /\ careful \in BOOLEAN
  /\ reader = "reading" /\ at = 0 /\ typed = << >>
  /\ keys = << >>
  /\ stage = [i \in Instances |-> "hatching"]
  /\ queue = [i \in Instances |-> << >>]
  /\ trigger = [i \in Instances |-> "none"]
  /\ seq = [i \in Instances |-> << >>]
  /\ since = [i \in Instances |-> 0]
  /\ taken = [i \in Instances |-> 0]
  /\ lapses = [i \in Instances |-> {}]
  /\ done = [i \in Instances |-> << >>]
  /\ undefined = FALSE

AllIn(s) == \A i \in Instances : stage[i] = s

BeingChanged == \E i \in Instances : stage[i] \in {"registering", "unregistering"}

InUse == at # 0 \/ BeingChanged

-----------------------------------------------------------------------------
(* The thread of GameKeyCore. *)

\* A key is there, and the loop over keys_ begins.
Reads(k) ==
  /\ ~undefined /\ reader = "reading" /\ at = 0
  /\ Len(typed) < MaxTyped
  /\ careful => AllIn("running")
  /\ typed' = Append(typed, k)
  /\ at' = IF keys = << >> THEN 0 ELSE 1
  /\ undefined' = BeingChanged
  /\ UNCHANGED <<careful, reader, keys, stage, triggerVars>>

\* Mutant: a key goes to one instance only, as with one queue for all of them.
AfterOnePush == 0

AfterPush == IF at = Len(keys) THEN 0 ELSE at + 1

\* key->PushKey(c) of one element of keys_.
PushesKey ==
  /\ ~undefined /\ at # 0
  /\ queue' = [queue EXCEPT ![keys[at]] = Append(@, Last(typed))]
  /\ at' = AfterPush
  /\ UNCHANGED <<careful, reader, typed, keys, stage, trigger, seq, since, taken, lapses, done,
                 undefined>>

\* No terminal, an error or the end of the input; or the core is destroyed, after the
\* instances' threads have been joined, and its thread finds stopped_ set.
StopsReading ==
  /\ ~undefined /\ reader = "reading" /\ at = 0
  /\ reader' = "over"
  /\ UNCHANGED <<careful, at, typed, keys, stage, triggerVars, undefined>>

-----------------------------------------------------------------------------
(* The thread of an instance. *)

Moves(i, from, to) ==
  /\ ~undefined
  /\ stage[i] = from
  /\ stage' = [stage EXCEPT ![i] = to]

\* Register() or Unregister() begins.
StartsChange(i, from, to) ==
  /\ Moves(i, from, to)
  /\ careful => ~InUse
  /\ undefined' = InUse
  /\ UNCHANGED <<careful, readerVars, keys, triggerVars>>

StartsRegister(i) == StartsChange(i, "hatching", "registering")

\* The GameKey stands in keys_, and the trigger's thread is started.
Registered(i) ==
  /\ Moves(i, "registering", "running")
  /\ keys' = Append(keys, i)
  /\ trigger' = [trigger EXCEPT ![i] = "turning"]
  /\ since' = [since EXCEPT ![i] = Len(typed)]
  /\ taken' = [taken EXCEPT ![i] = Len(typed)]
  /\ UNCHANGED <<careful, readerVars, queue, seq, lapses, done, undefined>>

\* run() has returned, and the scope of the io_context and the player is left.
Closes(i) ==
  /\ i \notin Endless
  /\ Moves(i, "running", "closed")
  /\ careful => at = 0 /\ queue[i] = << >>
  /\ UNCHANGED <<careful, readerVars, keys, triggerVars, undefined>>

\* vcs.clear()
ClearsClients(i) ==
  /\ Moves(i, "closed", "cleared")
  /\ UNCHANGED <<careful, readerVars, keys, triggerVars, undefined>>

\* The destructor of the trigger sets stopped_ and waits for its thread.
StartsJoin(i) ==
  /\ Moves(i, "cleared", "joining")
  /\ UNCHANGED <<careful, readerVars, keys, triggerVars, undefined>>

\* Mutant: the thread is told to stop, and not waited for.
JoinedAtOnce(i) == TRUE

Joined(i) == trigger[i] = "over"

\* The destructor of key_.
StartsUnregister(i) ==
  /\ Joined(i)
  /\ StartsChange(i, "joining", "unregistering")

\* It stands in keys_ once, as its constructor alone registers it, and is removed.
Unregistered(i) ==
  /\ Moves(i, "unregistering", "gone")
  /\ \E n \in 1 .. Len(keys) : keys[n] = i /\ keys' = RemoveAt(keys, n)
  /\ UNCHANGED <<careful, readerVars, triggerVars, undefined>>

Lives(i) ==
  \/ StartsRegister(i) \/ Registered(i)
  \/ Closes(i) \/ ClearsClients(i) \/ StartsJoin(i)
  \/ StartsUnregister(i) \/ Unregistered(i)

-----------------------------------------------------------------------------
(* The thread of a trigger. *)

\* '1' is 0, '2' is 1, ..., '0' is 9.
Number(k) == CASE k = "1" -> 0 [] k = "2" -> 1 [] k = "0" -> 9

\* The io_context and the clients live as long as their scopes; a manager has one voice.
HasContext(i) == stage[i] = "running"
ClientsOf(i) == IF stage[i] \in {"running", "closed"} THEN Vcs ELSE 0
Voices == 1

Command(op, of) == <<[op |-> op, of |-> of]>>

\* What the thread does for k after the letters s.
CommandsFor(i, s, k) ==
  CASE k = "s" -> Command("PauseAll", 0)
    [] k = "S" -> Command("ResumeAll", 0)
    [] k \in Digits /\ s = << >> /\ Number(k) < Voices -> Command("Play", Number(k))
    [] k \in Digits /\ s = <<"q">> /\ Number(k) < ClientsOf(i) -> Command("Close", Number(k))
    [] k \in Digits /\ s = <<"Q">> /\ Number(k) < ClientsOf(i) -> Command("Connect", Number(k))
    [] OTHER -> << >>

\* Mutant: a digit does not end the sequence.
SequenceKept(s, k) == IF k \in Letters THEN Append(s, k) ELSE s

SequenceAfter(s, k) ==
  CASE k \in Letters -> Append(s, k)
    [] k \in Digits -> << >>
    [] OTHER -> s

\* 100 ms are over, and stopped_ is set.
Stops(i) ==
  /\ ~undefined /\ trigger[i] = "turning"
  /\ stage[i] \in {"joining", "unregistering", "gone"}
  /\ trigger' = [trigger EXCEPT ![i] = "over"]
  /\ UNCHANGED <<careful, readerVars, keys, stage, queue, seq, since, taken, lapses, done,
                 undefined>>

\* They are over, and it is not: the test of stopped_ and what follows it are one step,
\* as what the other threads do in between could as well have been done before the test.
Turns(i) ==
  /\ ~undefined /\ trigger[i] = "turning"
  /\ stage[i] # "joining"

\* A sequence older than a second is forgotten, before a key is taken.
Current(i, late) == IF late THEN << >> ELSE seq[i]

Lapse(i, late) ==
  lapses' = IF late /\ seq[i] # << >> THEN [lapses EXCEPT ![i] = @ \union {taken[i]}]
            ELSE lapses

KeyIsGone(i) == stage[i] \in {"unregistering", "gone"}

\* Mutant: the thread ends when there is no key.
EndsWithoutKey(i) == trigger' = [trigger EXCEPT ![i] = "over"]

\* continue
GoesOnWithoutKey(i) == UNCHANGED trigger

\* PopKey() returns -1.
FindsNoKey(i, late) ==
  /\ Turns(i) /\ queue[i] = << >>
  /\ GoesOnWithoutKey(i)
  /\ seq' = [seq EXCEPT ![i] = Current(i, late)]
  /\ Lapse(i, late)
  /\ undefined' = KeyIsGone(i)
  /\ UNCHANGED <<careful, readerVars, keys, stage, queue, since, taken, done>>

TakesKey(i, late) ==
  /\ Turns(i) /\ queue[i] # << >>
  /\ queue' = [queue EXCEPT ![i] = Tail(@)]
  /\ taken' = [taken EXCEPT ![i] = @ + 1]
  /\ Lapse(i, late)
  /\ LET k == Head(queue[i])
         commands == CommandsFor(i, Current(i, late), k)
     IN  /\ seq' = [seq EXCEPT ![i] = SequenceAfter(Current(i, late), k)]
         /\ done' = [done EXCEPT ![i] = @ \o commands]
         /\ undefined' = \/ KeyIsGone(i)
                         \/ /\ ~HasContext(i)
                            /\ \E c \in ToSet(commands) : c.op # "Play"
  /\ UNCHANGED <<careful, readerVars, keys, stage, trigger, since>>

Acts(i) ==
  \/ Stops(i)
  \/ \E late \in {FALSE, seq[i] # << >>} : FindsNoKey(i, late) \/ TakesKey(i, late)

-----------------------------------------------------------------------------
Next ==
  \/ \E k \in Keys : Reads(k)
  \/ PushesKey
  \/ StopsReading
  \/ \E i \in Instances : Lives(i) \/ Acts(i)

\* The threads go on when they can; nobody has to type, and no instance has to end.
Fairness ==
  /\ WF_vars(PushesKey)
  /\ \A i \in Instances : WF_vars(Acts(i))

Spec == Init /\ [][Next]_vars /\ Fairness

-----------------------------------------------------------------------------
(* Properties. *)

\* Is the key read last still on its way to i?
OnItsWay(i) == at # 0 /\ \E n \in at .. Len(keys) : keys[n] = i

\* Every instance gets every key read since it registered, in the order they were typed,
\* none of them twice and none lost, whoever registers, ends or is slow meanwhile
\* (game_key_core.h:113-117, game_key.h:24-38).
KeysArrive ==
  ~undefined =>
    \A i \in Instances :
      stage[i] \in {"running", "closed", "cleared", "joining"} =>
        queue[i] = SubSeq(typed, taken[i] + 1,
                          IF OnItsWay(i) THEN Len(typed) - 1 ELSE Len(typed))

\* A user who types only while all instances run, and has them start and end one at a
\* time, never meets a race for keys_ or the use of something destroyed: the trigger's
\* thread is joined before its GameKey goes (fake_audio_key_trigger.h:90-99,
\* zakuro.cpp:607-638).
CarefulIsSafe == careful => ~undefined

\* The letters typed before the n-th key that belong to the same sequence for i.
LettersBefore(i, n) ==
  {l \in since[i] + 1 .. n - 1 :
     /\ typed[l] \in Letters
     /\ \A m \in l + 1 .. n - 1 : typed[m] \notin Digits
     /\ \A m \in l .. n - 1 : m \notin lapses[i]}

\* Is the n-th key for i one after exactly the letter k?
After(i, n, k) == \E l \in LettersBefore(i, n) : LettersBefore(i, n) = {l} /\ typed[l] = k

\* What the n-th key means for i: a digit plays a voice, unless letters stand before it;
\* after exactly q it closes a client, after exactly Q it connects one.
Meaning(i, n) ==
  CASE typed[n] = "s" -> Command("PauseAll", 0)
    [] typed[n] = "S" -> Command("ResumeAll", 0)
    [] typed[n] \in Digits /\ LettersBefore(i, n) = {} /\ Number(typed[n]) < Voices ->
         Command("Play", Number(typed[n]))
    [] typed[n] \in Digits /\ After(i, n, "q") /\ Number(typed[n]) < Vcs ->
         Command("Close", Number(typed[n]))
    [] typed[n] \in Digits /\ After(i, n, "Q") /\ Number(typed[n]) < Vcs ->
         Command("Connect", Number(typed[n]))
    [] OTHER -> << >>

\* While an instance runs, its trigger gives exactly the commands that were typed: letters
\* of a sequence that has expired or been ended by a digit count for nothing, and the
\* backlog of one instance does not change what the keys mean (fake_audio_key_trigger.h:36-86).
CommandsAreTyped ==
  ~undefined =>
    \A i \in Instances :
      stage[i] = "running" =>
        done[i] = FlattenSeq([n \in 1 .. taken[i] - since[i] |-> Meaning(i, since[i] + n)])

\* A key typed while an instance runs is acted on by it, unless it stops running first
\* (fake_audio_key_trigger.h:28-47, game_key_core.h:113-117).
KeysAreHandled ==
  \A i \in Instances, n \in 1 .. MaxTyped :
    (stage[i] = "running" /\ since[i] < n /\ Len(typed) >= n)
      ~> (taken[i] >= n \/ stage[i] # "running" \/ undefined)
=============================================================================
