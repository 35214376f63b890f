# A verification project for Zakuro

Zakuro is a load generator for the WebRTC SFU Sora: one process runs a number of
*instances*, each with a number of *virtual clients* that connect, send fake
audio, video and data channel messages, disconnect and reconnect as a scenario
says. This directory holds TLA+ models of its control logic, the TLC
configurations that check them, and proofs checked by TLAPS. Paths below are
relative to `src/src/` of the repository, and `file:line` refers to it.

## 1. The system

### Components, their state and their operations

| Component | State | Operations |
| --- | --- | --- |
| `VirtualClient` (virtual_client.{h,cpp}) | `closing_`, `need_reconnect_`, `retry_count_`, `on_close_`, `retry_timer_`, `signaling_` | `Connect`, `Close`, `Clear`, `SendMessage`, `GetStats`; reports `OnSetOffer`, `OnDisconnect`, `OnNotify`; the completion of the retry timer |
| Scenario (zakuro.cpp:518-604) | the vector of operations and the loop index given to the player | built once from the configuration, played once for each client |
| `ScenarioPlayer` (scenario_player.h) | per client `op_index`, `timer`, `paused`, `exit`; `sub_scenario_`, `dc_counter_` | `Play`, `PauseAll`, `ResumeAll`, `Next`, `OnNext` with seven operations |
| `FakeAudioKeyTrigger` (fake_audio_key_trigger.h) | the key sequence and its time, a thread and its stop flag | pops a key, plays a voice, posts pause, resume, close, connect |
| `GameKeyCore`, `GameKey` (game/) | `keys_`, one queue of keys for each instance, a thread | `Register`, `Unregister`, `PushKey`, `PopKey` |
| `GameAudio` (game/game_audio.h) | `buf_` under a mutex | `Play`, `Render` |
| `main()` and `ZakuroStats` (main.cpp, zakuro_stats.h) | instance threads, `stats_countdown`, the map of statistics, the stats thread | hatch, `Run`, countdown, `Set`, `Get`, join |
| `HttpServer`, `HttpSession` (http_server.{h,cpp}) | `running_`, a thread, an acceptor; per session a stream with a deadline, `req_`, `res_` | `Start`, `Stop`, accept, read, answer, write, close |
| `HttpProxy` (http_proxy.{h,cpp}) | `on_response_`, the streams and their deadline | resolve, connect, handshake, write, read, shutdown, finish or error |
| `JsonRpcHandler` (json_rpc.{h,cpp}) | none | `Process` |
| `ZakuroAudioDeviceModule` | `device_buffer_`, flags, an audio thread | `Init`, `Terminate`, `StartRecording`, `StopRecording`, the 10 ms loop |
| `FakeVideoCapturer`, `Y4MReader` | a thread; file position and frame counters | `StartCapture`, `StopCapture`; `Open`, `GetFrame` |
| `WavReader`, `VoiceNumberReader`, `BinaryPool`, options (util.cpp) | none, or a constant buffer | pure functions |

Vendored resources, the build scripts (`buildbase.py`, `run.py`, `canary.py`) and
the end-to-end tests in `test/` are not part of the running program's logic and
are left aside.

### How they interact

```
 main() ── one thread each ──> Zakuro::Run ── io_context (one thread) ──┐
   │                                                                    │
   ├─ stats thread <── ZakuroStats <── stats timer ── GetStats ──┐      │ handlers
   ├─ key thread ── GameKey queue ──> key trigger thread ── post ┼──>   │
   └─ HTTP thread: HttpServer, HttpSession, HttpProxy            │      v
                                            ScenarioPlayer ── Connect/Close ──> VirtualClient
                                                  ^                                 │
                                                  └──── on_close (exit) ────────────┤
                                                 sora::SoraSignaling <── Connect/Disconnect
                                                        └── OnNotify, OnDisconnect ──> VirtualClient
```

Everything between a scenario and its clients runs as handlers of one
single-threaded `io_context` (zakuro.cpp:495, 629). There are no locks there and
none are needed; what is hard is the *order* of handlers: a session reports its
end in a later handler than the one that asked for it, a timer that was
cancelled may already have its completion queued, and the scenario, the keys and
the retries all call `Connect()` and `Close()` in between. Everything else is
threads: keys, audio, video, statistics, HTTP.

### What makes each component correct

- **VirtualClient**: never two sessions at once; `closing_` says exactly that a
  disconnect is under way; nothing pending outlives the disconnect it waits for;
  whoever waits for the client to leave is told once, and then the client is
  offline; a lost session is replaced while the budget lasts; a retry never
  disturbs a session.
- **ScenarioPlayer**: a scenario goes on along one chain of handlers; indices stay
  in the scenario; sub scenarios are started once; a client that has exited stays
  offline; the instance stops when all have exited and not before; with an interval
  the clients come back for ever; a pause takes hold.
- **Instances**: every way out of `Run()` is counted down; `main()` returns when all
  instances have ended; an interrupt ends all of them.
- **Keys and audio**: a key reaches every registered instance once and in order, and is
  acted on; sequences are what was typed within a second; nothing is used after it has been
  destroyed; a voice is rendered from its start, in order, without a gap.
- **HTTP**: every request that was read is answered once; a session ends or reads
  again; `Stop()` returns; a JSON-RPC request gets its id back, a notification nothing.
- **Options**: an instance runs with what its entry and the command line say, and
  nothing of the instance before it.
- **Audio device, readers, pool**: no use of the buffer after `Terminate()`; frames
  in order, for ever over the end of a file; no index outside a buffer.

`PROJECT.json` lists the hazards behind these, each at its line, with the
properties that cover it or the reason why none does yet.

## 2. Modules

| Module | Models |
| --- | --- |
| `ClientLink` | what a virtual client promises: offline, online or leaving, and who waits for its departure |
| `VirtualClient` | virtual_client.{h,cpp}; implements `ClientLink` |
| `VirtualClientProofs` | the inductive invariant of `VirtualClient`, its theorems, and the refinement |
| `ScenarioBuilder` | the scenario as a function of the configuration (zakuro.cpp:518-604) |
| `ScenarioPlayer` | scenario_player.h over the queue of an `io_context`, with the keys, composed with `VirtualClient` |
| `ScenarioPlayerProofs` | the inductive invariants of `ScenarioPlayer`, and its safety for any number of clients and keys |
| `Instances` | main.cpp:217-325, the stages of `Zakuro::Run`, and the thread of the HTTP server |
| `InstancesProofs` | the countdown, and what follows from it, for any number of instances |
| `HttpExchange` | what a session of the HTTP server promises: one request at a time, answered or given up |
| `HttpProxy` | http_proxy.{h,cpp} |
| `HttpSession` | http_server.{h,cpp}, composed with `HttpProxy`; implements `HttpExchange` |
| `HttpSessionProofs` | the inductive invariant of `HttpSession`, its theorems, and the refinement |
| `GameAudio` | game/game_audio.h: the voice that is being rendered |
| `AudioDevice` | zakuro_audio_device_module.{h,cpp}, composed with `GameAudio` |
| `AudioDeviceProofs` | the buffer outlives the thread that uses it; types; what is heard is in order |
| `Y4MReader` | y4m_reader.{h,cpp} |
| `VideoCapturer` | the thread of fake_video_capturer.cpp, composed with `Y4MReader` |
| `VideoCapturerProofs` | types; the picture is the one of the time; a whole file is played for ever |
| `GameKeys` | game/game_key_core.h, game/game_key.h, fake_audio_key_trigger.h, and the end of `Zakuro::Run` that destroys the trigger |
| `GameKeysProofs` | a careful user meets nothing undefined; keys arrive; commands are what was typed |
| `Options` | main.cpp:67-208 with the option parsing of util.cpp: the configurations of the instances |
| `JsonRpc` | json_rpc.cpp and `HandleJsonRpcRequest` (http_server.cpp:159-215) |
| `BinaryPool` | binary_pool.h |
| `DataChannels` | `ParseDataChannels` (zakuro.cpp:50-206) and the size of a message (scenario_player.h:173-209), with `BinaryPool` |
| `WavReader` | wav_reader.cpp |
| `InputsProofs` | what the readers of `JsonRpc`, `BinaryPool`, `DataChannels`, `WavReader` and `Options` promise, for every input |
| `MCVirtualClient`, `MCScenarioPlayer` | instances for TLC |
| `MCInputs` | `Options`, `JsonRpc`, `DataChannels` and `WavReader` side by side, one of them at work |
| `MCMedia` | `AudioDevice` and `VideoCapturer` side by side, one of them at work |

**VirtualClient.** One variable for each field. `Connect`, `Close`, `RetryExpires`,
`RetryFires`, `OnNotify` and `OnDisconnect` are actions, each with all the calls it
makes; the branches of the code are disjuncts. `sora::SoraSignaling` is a library:
a session object is `connecting`, `connected` (its own `connection.created` has been
reported), `disconnecting` (`Disconnect()` was called) or `free`. It reports
`OnDisconnect` once, from a handler of its own, at any moment. `Sessions` is a pool, so that
one object can still be ending while the next is created; `observer` says for
which client each is made. The retry timer is `armed`, then `due` when its completion is queued
(`cancel()` is then too late), then `idle`. `NoCallback` is the empty
`std::function`; calling it sets `terminated`, after which nothing runs: the exception leaves
`ioc.run()` and the thread.

**ScenarioPlayer** extends `VirtualClient` and is the only place where its actions
are called. `ready` is the queue of the `io_context`, in order. Each operation is an
action that takes the handler at the head, does what the case of the switch does
including the `Next()` at its end, and posts. `Play`, `Next` and `DoNext` are not
actions: they are the operators `Posted`, `Following` and `OnNextOf` used by those
that call them. Reports of sessions and the retry timer may come between any two
handlers. The sub scenarios are players of their own, indexed by name. Two data channels of one label
share a player, as they share the name of their sub scenario in the code: its second start may find the completion of the
first one's timer already queued, and then it has two chains of handlers. `OneContinuation` asks for one chain of a sub scenario
only where the labels differ, and of the main scenario always.

**Instances.** The thread of an instance is `hatching`, `starting`, `running` (its signal
set exists), `ended` (`Run()` has returned) or `over` (it has counted down). A kind says whether
it ends by itself, never, or fails in its set-up. `stats` says where the statistics thread is:
it holds `stats_mut` while `writing`, and gives it up in `wait_for`. `main` goes through the
joins and the destructor of `HttpServer`, which stops and joins its thread. `Signal`
reaches the instances that run, and kills the process if there are none.
`RunThrows` is the exception that leaves a thread.

**HttpProxy and HttpSession.** Every handler is an action, or two: one for success, one for
its error path. `step` is the operation the proxy has pending, `op` the one of the session;
`onResponse` and `keepAlive` are fields of the proxy. `HttpSession` starts the proxy in `OnRead`
and joins each handler of it with what its callback does: `ProxyContinues`
leaves the session alone, `ProxyAnswers` includes `SendResponse`. The deadlines are `none`,
`set` or `passed`. An operation whose deadline has passed may still succeed if it
is done at that moment, as Beast allows; the proxy's deadline is set later than the session's and
passes later. `10 MB` in http_proxy.cpp:19 is not modelled: Beast's parser fails beyond its own 8 MB
before it can apply.

**GameAudio and AudioDevice.** A sample is the voice and its place in it, or a place in the data of
the fake audio; past the end of the data, where the code reads whatever is there, it is none of its samples. `FakeSize` is any
number, as nothing in wav_reader.cpp sees to whole samples; what needs them says so (`WholeData`). `thread` is the audio thread's program counter: `testing` the flag, `asleep`, `filling`
its block, `delivering` it. `caller` is the call in which WebRTC's thread waits for the join; a restart
makes the new thread in the same step as it is over. `heard` is what was delivered last, with the
sample before it: enough to see every seam. How late the thread wakes up is chosen. That WebRTC terminates only a
device that no longer records is the guard of `Terminate`: without it the code would deliver through a null
pointer.

**Y4MReader and VideoCapturer.** A file is the lengths of the header lines of its frames, the
tokens of its header, and the number of bytes that are missing at its end. `pos` is the code's own count and
`ftell` where the file really is. `GetFrame` is the part before the loop, `SkipFrame` a turn of
it, `ReadsFrame` what follows, and `FailsFrame` all of their errors. The clock goes on by any number
of milliseconds, none included, and never back: libc++, with which WebRTC is built,
makes `high_resolution_clock` a steady one.

**GameKeys.** The key thread's loop over `keys_` is a step for each instance (`at`), so that
slow instances and those that come and go are seen in the middle of it. The triggers' threads turn on
their own. What the code leaves undefined (`keys_` changed while it is read, a post to a
destroyed `io_context`, `vcs_` read while it is cleared, a destroyed `GameKey`) sets `undefined`,
and nothing is modelled after it. Any user can bring that about: register and unregister have no lock,
and a key left in a queue may be taken between the end of the `io_context` and the join. `careful`
says what a user has to keep to so that nothing of the kind happens: type only while all instances
run, and have them start and end one at a time and with nothing left over. The test of `stopped_`
and what follows it in a turn are one step (`Turns`): a thread that has tested the flag may go on while the
destructor waits, but nothing that it does then differs from having been done before the flag
was set. Whether a sequence has expired is chosen at each turn. What is posted is in `ScenarioPlayer`.

**Options.** Options that behave alike are represented by one: `url` (the only `take_all`), `channel`
(required), `name` (optional), `metadata` (JSON, passed without replacing `${}`), and `port` for the
options of the process. A value is its origin. Arguments are, for each option, its values in their order; the order among
different options means nothing to CLI11. `config` and `port` are variables that
every turn writes over, as in `main()`. `EachInstanceItsOwn` lets the command line override an entry, as
it is documented, but for URLs that both give: the code adds them up, and `ArgumentsOverride`, the rule for all options, is
the run `override`.

**JsonRpc.** A body is one of the classes that `Process` tells apart; codes are named, not numbered.

**BinaryPool and DataChannels.** A byte is its index in the pool; each turn of the loop is a
step. `asked` and `from` remember what was drawn. A description is whether it is well-formed, whether the
channel sends, and its sizes; unrelated members are left out. Of one that is not, `Refuses` is where the code tests and returns false, and
`Throws` where `boost::json::value_to` meets a member of another type that was not tested.

**WavReader.** A file is how it begins (`magic`), its chunks and the number of bytes that are there, which may
end in any header or chunk. Left out by assumption, as the reader takes them untested: sizes from -8 to -1,
odd sizes without padding, and a `fmt ` chunk of less than 16 bytes.

Left out of `VirtualClient` and `ScenarioPlayer`: the content of messages (their sizes are in `DataChannels`) and of voices, durations (timers expire
in any order), tracks and encodings, and the signals, which stop the `io_context`
from outside.

## 3. Runs

| Run | Instance | Shows |
| --- | --- | --- |
| `virtual_client` | 2 clients, 2 session objects each, `MaxRetry` 2, one callback | the four invariants, the refinement of `ClientLink` with its liveness, and recovery of lost sessions |
| `stale_retry` (violation) | 1 client, `MaxRetry` 1 | a retry whose completion is queued replaces a session that somebody else has opened |
| `scenario` | 2 clients, `MaxRetry` 1; scenarios without keys: for ever, once for a duration, with an interval; lossy or not | who has exited stays offline; no session is left when the instance stops; the instance ends, or its clients come back |
| `keys` | 1 client, `MaxRetry` 0, 2 keys; scenarios with voices, `reconnect`, a data channel, and two of one label | no scenario is lost, none is doubled without keys, a pause takes hold |
| `instances` | 2 instances of all kinds, with or without the other two threads, 2 signals | statistics go on while an instance runs; `main()` leaves nothing behind; the process ends when no instance is endless |
| `http` | 2 sessions; no UI, one over HTTP, over HTTPS, or a bad URL; keep-alive or not | one handler at a time; the answer belongs to the request; no wait without a deadline; each request is answered or given up |
| `media` | the device: fake audio of 2 channels and 6 values, or an external source and 2 voices of 3 samples; or the capturer: every file of up to 3 frames, whole or cut, 4:2 frames a second of 3 ms, 20 ms, up to 6 at once | the buffer outlives the thread; what is read is inside the data; what is heard has no gap and nothing twice; audio flows after every start; every call returns; the picture is the one of the time; a whole file is played for ever; frames go on being captured |
| `game_keys` | 2 instances, one of which ends; 3 keys among `s`, `q`, `1`; 1 client each | every key reaches every instance once and in order and is acted on; commands are what was typed; a careful user meets nothing undefined |
| `inputs` | up to 2 entries of up to 2 copies, every command line; all classes of requests; up to 2 channels over a pool of 3 bytes; files of up to 3 chunks, cut anywhere | an instance gets its own options; requests get their answer; a message is a cut within its sizes; a file is read exactly if its data is there |
| `auto_exit` (violation) | 2 clients, a duration, no lost connections | the client that exits first ends the process with an exception in its next turn |
| `pause` (violation) | 1 client, 1 key | the voices go on during a pause |
| `override` (violation) | 1 entry of up to 2 copies, every command line | URLs on the command line are added to those of the file |

**Bounds.** Clients of one instance interact only through the `exit` flags and the
queue; two are enough for "the first" and "the last" to exit, and for their handlers
to interleave. One session object for each client can be ending while the next is
created, never two (`OneSessionEach`, proved), so two objects each are enough.
`MaxRetry` 2 tells the first retry, a later one and an exhausted budget apart.
`MaxKeys` bounds the keys pressed: two make the pairs that matter (pause then
resume, twice the same, close then connect). The queue, the timers and the numbers
of losses and reconnects are not bounded. Instances meet only in the countdown and in signals: two make "not the last" and
"the last", and one that a signal reaches next to one it does not; `MaxSignals` 2
lets a signal reach each on its own. Sessions share nothing but the URL: two show that they do not
mix; connections and requests are not bounded. In the audio half of `media` a block is two samples, which divides neither the voice nor
the data into whole blocks for each channel, and `MaxLate` 2 is a wake up that is late by a whole block;
the rate makes ten milliseconds a whole number of samples, which 22050 Hz in stereo does not, and the data holds whole samples (see the hazards). In its video half
20 ms are thirteen frames, so that files of up to three frames begin again several
times, and 6 ms are four: a whole file is skipped at once. A second has 3 ms to keep the clock small; the rate is
a fraction, so that frames are of unequal length. The clock stands
still at the bound, where the thread goes on with the same picture. In `game_keys` three keys make a sequence of two
letters with its digit, or a digit before and after a sequence; one instance that ends next to one that does not
brings all changes of `keys_` about. In `inputs` the second entry and the second copy are where a leftover of
the first would show; a pool of 3 bytes is gone round twice by the largest message; the third chunk is the one that is found
only if the one before it was skipped whole.

**Fairness.** Queued handlers run (the `io_context`'s thread runs until it is stopped),
a timer that is armed expires, and a `Disconnect()` is answered by `OnDisconnect`: Sora's
`SoraSignaling` guards its disconnect with a timeout. Nothing forces a key, a
notification, a connection to come up, or one to be lost. In `Instances`, threads run, and a
thread that wants `stats_mut` again and again gets it (strong fairness: the other side holds it only to
write a file every ten seconds); an instance that can end does; no signal is owed. In
`HttpSession`, posted handlers run, deadlines pass, an operation under a passed deadline ends, and resolving ends (it has no deadline in the code and
relies on the system's resolver); clients and the UI may stay silent for ever. The audio and the video thread run, and a join returns when
its thread has ended; WebRTC need not call anything. The image that is drawn can be read now and then
(strong fairness), or nothing would be captured. In `GameKeys` the key thread goes on with a push it has begun, and
each trigger turns every 100 ms; nobody has to type, and no instance has to start or end. `inputs` needs none.

**Deadlock** is not checked where the system may really stop: the instance has
ended, the process has, the capturer is gone, or a reader has come to its end. It is checked in `http`, where the clients can always
do something; that the audio thread and those who join it do not wait on each other is `CallsReturn`.

### Disagreements found

1. `stale_retry`: `retry_timer_.cancel()` (virtual_client.cpp:41) does not take back a
   completion that is already queued. If `OP_RECONNECT` or the `Q` key opens a session
   between the expiry and the handler, the handler calls `Connect()` and ends the healthy session.
2. `auto_exit`: after `OP_EXIT` a client's scenario loops. Unless all clients exit
   before its next `OP_DISCONNECT`, `Close()` is called with its default `nullptr` on a client without a
   session, and virtual_client.cpp:100 calls an empty `std::function`. CHANGES.md:303 promises that the
   process ends by itself. A connection that is down when the duration ends has the same effect;
   `ThrowsOnlyAfterLoss` shows that without lost connections a scenario that
   repeats is free of it.
3. `pause`: `PauseAll()` reaches the main player only; the sub scenario that plays
   the voices in the default scenario goes on.
4. `override`: CHANGES.md:508 says that arguments override the configuration file. `main()` puts them behind the
   arguments of an entry (main.cpp:158-161), and the last one counts; but `--sora-signaling-url` is `take_all`
   (util.cpp:196-198), so that its values are added to the URLs of the entry.

A smaller one has no run of its own: doc/USE.md:206 calls a member of a data channel
`max_packet_lifetime`; zakuro.cpp:168 reads `max_packet_life_time`.

## 4. Proofs

### VirtualClient

`VirtualClientProofs` proves, for every number of clients, sessions, callbacks and
retries, from the four assumptions on the constants of `VirtualClient`:

| Theorem | States |
| --- | --- |
| `TypeCorrectness` | `Spec => []TypeOK` |
| `SessionsAreOwned` | `Spec => []OneSessionEach` |
| `ClosingIsExact` | `Spec => []ClosingExact`: `ClosingIsDisconnecting` and `PendingOnlyWhileClosing` |
| `NoTimerOverSession` | `Spec => []RetryArmedOnlyOffline` |
| `FullBudget` | `Spec => []ConnectedHasFullBudget` |
| `ImplementsClientLink` | `Safety => Link!Safety` |

No invariant is inductive alone. That closing_ means "disconnecting" needs that the
session a client holds is its own (`OneSessionEach`), or `OnDisconnect` of another
session could end it; `OneSessionEach` needs that the reconnect inside `OnDisconnect`
happens when the old session is gone, which is what `closing_` tells; and that nothing is
pending after the answer needs both. `IInv` is their conjunction, with
`RetryArmedOnlyOffline`. The proof has one lemma for each of the three outcomes of
`Connect()`, which the retry handler shares, one for each other action, and one
step in each for each conjunct it can disturb. The refinement maps a client to
offline, online or leaving, and uses `IInv` to show that the answer to a
disconnect is the abstract `Left` of exactly that client.

### ScenarioPlayer

`ScenarioPlayerProofs` proves every safety property of `ScenarioPlayer`, for every number of clients, sessions, retries and keys
and all configurations:

| Theorem | States |
| --- | --- |
| `PlayerTypes` | `PlayerSpec => []PlayerTypeOK`: indices stay inside their scenarios |
| `ScenariosGoOn` | `PlayerSpec => []NeverLost` |
| `ScenariosGoOnOnce` | `PlayerSpec => []OneContinuation` |
| `ExitedStayOffline` | `PlayerSpec => []ExitedIsOffline` |
| `StopLeavesNoSession` | `PlayerSpec => []StopsWithoutSessions` |
| `NothingThrowsWithoutLoss` | `PlayerSpec => []ThrowsOnlyAfterLoss` |

Besides the assumptions of `VirtualClient` they rest on: clients are numbered from 0 (as the vector is, which `Play` and `ResumeAll`
go through); a configuration is one (`IsConfiguration`: its `--scenario` is one of two, and no label is the name of the main player or of
the voices', which the code keeps apart by prefixes); `MaxKeys` is a natural number; the exit callback is a callback, not
the empty one; `Lossy` is a set of truth values. The argument:

- *The scenarios.* Where sleeps, starts, disconnects, reconnects and exits stand in a scenario, and where it loops to, for all configurations
  (`OnceShape`, `CycleShape`, `ScenarioShape` and the lemmas `...Ops`): this is what the loop index counted by hand has to fit.
- *The clients.* A step of the players is a step of `VirtualClient` or leaves the clients alone (`ClientStep`), so that its invariant `IInv` holds
  here too (`PlayersKeepClientsSafe`).
- *The chains.* `Carried`, `CarriedOnce` and `AtRest` say of the queue and the timer what `Continuations` counts; the count itself only
  appears in the last step (`ContinuationsCount`). `NeverLost` is inductive with the types. `OneContinuation` is not: that one chain is not
  doubled needs that a main scenario waits at a sleep only (`WaitsAtSleep`), or it could start a sub scenario twice, and that a sub scenario
  that is still to be started does not play yet (`SubsInTurn`), which is where the loop index comes in. Both are in `ChainInv`.
- *Who has exited.* `Leaving` ties the connection of a client to its place in the scenario: only `OP_EXIT` leaves a callback, it is pending only until
  the scenario has gone round to its sleep and back at most to `OP_DISCONNECT`, and between the two operations the client is closing or offline without a retry. It
  needs `IInv` for what an `OnDisconnect` may mean, and `ChainInv` because a second chain would move the index under it. Who has not exited but closed is
  why it is stated for every client, and not for the one that has exited. Nothing is claimed of a client after the exception.
- *The end.* The `io_context` is stopped by the last exit only (`StopInv`), so that everybody is offline then, and `OneSessionEach` leaves no session.
- *Without losses.* `Returning`: from its reconnect to its disconnect a client is online, and if it is closing there, a reconnect is pending; so
  `Close()` never meets a client that has nothing to close.

TLC checked each of these invariants on the instances of `scenario` and `keys` before it was proved.

### Instances

`InstancesProofs` proves `TypeOK`, `StatsLast` and `NothingLeftBehind` for every number of instances
(assumptions: `N` and `MaxSignals` are naturals, `Kinds` is among the three). The
invariant ties the countdown to the cardinality of the set of threads that are not over; a thread that counts down leaves
that set, so zero means that it is empty. That main() leaves nothing behind needs besides that the
threads it has joined are over.

### HttpSession

`HttpSessionProofs` proves `TypeOK`, `OneHandler`, `AnswersTheRequest`, `StepsHaveDeadlines` and
`Safety => Exchange!Safety` for every number of sessions (assumptions: the kinds of URLs and
targets, and that `NoRequest` is no request). Two conjuncts are added: a request
is in hand exactly while a session waits or writes, and what waits was for the proxy, which
remembers its keep-alive. The refinement needs both: the answer that is written
must know the keep-alive of the request it ends, which came to it through the proxy.

### AudioDevice

`AudioDeviceProofs` proves `UsesLiveBuffer` for every rate, number of channels, size of data
and voice. The invariant says that while there is a thread the device counts as recording and has its
buffer, and that who waits for a thread waits for one that is there: the first keeps `Terminate` away, the second
that a join that has returned leaves none behind.

`DeviceTypes`, `DataIsNotLeft` and `EverythingIsHeardInOrder` prove `TypeOK`, `ReadsInData` and `HeardInOrder`. The index is tested after all channels of a
sample only: whatever the length of the data, it has come back from the end before the next sample (`NextPlace`, which is all that `DeviceTypes` says), but
that the values of that sample are in the data needs that it and the length are whole samples (`Place`, `SampleIsThere`). That is no assumption: `WholeData`
is a condition within `ReadsInData`, and without it nothing is claimed of what is read. The order is
stated about `Stream`, what has been delivered followed by the block that is being made: it is a chain (`Chain`), and the sample that is up next (`Upcoming`), at
the index or at the start of the render buffer, may follow its last one. For a voice this needs that what is left of it is its end (`VoiceLeft`). With fake audio the
theorem has two hypotheses: `WholeData`, and `WholeRate`: with another rate, 22050 Hz in stereo for one, a block is delivered one sample short and cleared. Without
either the property is false (see the hazards). With an external source it holds for every rate.

### GameKeys

`GameKeysProofs` proves `CarefulIsSafe` for every number of instances, clients and keys. It needs two more
conjuncts: a trigger's thread runs only within the life of its `GameKey` (there is none before it is registered, and
it is over before it is unregistered, because the destructor joins it first), and while the user is careful, a key is
on its way or waiting only where everybody runs. The first excludes the destroyed `GameKey`; the second that a
key is taken when the `io_context` is gone, and that `keys_` changes under the loop.

The other two theorems hold for every user, until something undefined has happened. `KeysArrive` needs `ArrivalInv`: `keys_` holds every
instance that takes keys exactly once (`KeysStand`), or a key would be pushed twice or not at all; it does not change while the loop
goes through it; and nothing is left in a queue before its instance registers (`Fresh`). Then a push appends the one key that is missing, and a
turn takes the first (`SubSeqPush`, `SubSeqPop`). `CommandsAreTyped` needs `CommandInv`: the sequence a trigger remembers is made of the letters at the
places `LettersBefore` names (`SpelledBy`, a bijection of places and letters, which is all that tells "none", "exactly q" and "exactly Q" apart); it
lapses only at keys already taken, so that no later lapse changes what a key has meant (`MeaningKept`). That the commands are appended one by
one is an induction over `FlattenSeq` (`SetInduction`, `FlattenLast`), which is a lemma about a set of naturals, not an operator.

### VideoCapturer

`VideoCapturerProofs` proves every safety property of `VideoCapturer`, for every number and length of the frames of a file, every cut
and rate, and every clock:

| Theorem | States |
| --- | --- |
| `Invariance` | `CaptureSpec => []IInv` |
| `CapturerTypes` | `CaptureSpec => []CaptureTypeOK` |
| `ThePictureOfTheTime` | `CaptureSpec => []ShowsPictureOfTime` |
| `AWholeFileIsPlayed` | `CaptureSpec => []WholeFileIsPlayed` |

`IInv` has three parts besides the types. `AtNext`: `pos_` and the file both stand at the frame `frame_` modulo the number of frames, which the
code keeps as three numbers that no line compares. `ShowsLast`: the picture is that of `prev_frame_`, and `frame_` is one more. `OnTime`: what
is asked for is the frame of the clock, which stands still while `GetFrame` skips. That a step keeps `AtNext` is the one hard step
(`PassesNext`): the code goes back to the start where `pos_` meets the size of the file, and this happens behind the last frame and no other. It needs that
frames begin one behind the other (`OffsetStep`, `OffsetMonotone`, by induction over the recursive function in `Offset`, with
`BeginsExist` for its existence), what the size of the file then is (`FileSizeBounds`), and to count round (`NextRemainder`). A file
that is cut never comes to its end, and so never goes back to the start: it fails.

### Readers

`InputsProofs` proves for every input what `MCInputs` checks of small ones:

| Theorem | States |
| --- | --- |
| `AnswersAreRight` | `RpcAnswers` for any set of identifiers, from the assumption that null and the two signs for "no id" are none |
| `LoopInvariant`, `GetIsACut` | `PoolSpec => []PoolIInv`, `PoolSpec => []GetReturnsCut` |
| `MessagesAreCuts` | `DcSpec => []MessageIsCut` |
| `FilesAreRead` | `WavSpec => []WavIsRead` |
| `InstancesAreTheirOwn` | `OptSpec => []EachInstanceItsOwn` |

- *JSON-RPC* goes through the responses of `Process`, class by class, and none of them is mistaken for the lack of one.
- *The pool*: the bytes copied are the first ones of the cut, and `pos` and `size` agree with them; the step needs that within a piece, which
  never crosses the end of the pool, adding commutes with `%`.
- *Data channels*: while the list is parsed, the channels are the descriptions so far that send, in their order (`ChannelsRight`), and their sizes are what the
  descriptions mean (`ChannelSizes`), so that no range given to the pool is empty, and a cut with its header keeps to them (`SendingRight`).
- *WAV files*: once "RIFF" and "WAVE" are read and until it returns, the reader stands at the header of a chunk, with as many bytes left as are behind it in the file, and no chunk of data is
  behind it (`Walk`). Chunks end one behind the other (`EndStep`, `EndMonotone`, by induction again), so that behind a chunk that is cut there
  is no whole one (`NoneBehind`), and an error is right.
- *Options*: what `take_last` leaves of the arguments of a copy is what is due to it (`LastIsDue`, `ParsedIsOwn`, `EntryArgs`), what `take_all` leaves of the URLs
  is so too unless both sides give them (`GivenTwice`), and then is not empty; and the
  configurations so far are those of the copies so far, in their order (`Done`, `AreThoseOf`). That nothing of the copy before is left
  needs only that `config` is empty when the arguments are parsed, which is `Fresh`. `port` is not reset and needs no reset: once an
  entry has been read, it is what every entry would make it (`PortRight`). The names of the options are those of the module: `GivensAssumption`
  keeps `port` out of entries. TLC checked the invariant on the instance of `inputs` before it was proved.

### Only model-checked

The liveness properties and the fairness part of the
refinements (the prover does not reason about fairness and ENABLED). The type
invariants of `VirtualClient`, `Instances`, `HttpSession` and `AudioDevice` are the other way round: proved, and checked by no run.

## 5. Plan

In this order, the most important behaviour first:

1. done: `ClientLink`, `VirtualClient` and its proofs, `ScenarioBuilder`, `ScenarioPlayer`.
2. done: `Instances` and its proofs.
3. done: `HttpExchange`, `HttpProxy`, `HttpSession` and their proofs, `JsonRpc` and its proof. Open: the
   rest of `ParseUrl`.
4. done: `GameAudio`, `AudioDevice` and its proofs, `Y4MReader`, `VideoCapturer` and its proofs.
5. done: `GameKeys` and its proofs, `WavReader`, `BinaryPool`, `DataChannels` and `Options`, with their proofs. Open:
   the statistics of an instance that has ended (main.cpp:259).
6. Proofs. Done: every invariant that a run checks, and the safety of both refinements. Open: none of those; what is
   added in 7 is to be proved with it.
7. A history variable for `VirtualClient`, to state that a close asked for during a
   reconnect is not forgotten (virtual_client.cpp:88).

Not planned: drawing (fake_video_capturer.cpp:120-306), the checks of single option values, the table of
recordings in `VoiceNumberReader`, codec preferences, build scripts, which are input and output without state of their own.
