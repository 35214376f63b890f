---------------------------- MODULE VirtualClient ----------------------------
(***************************************************************************)
(* src/src/virtual_client.{h,cpp}: the connection state of each virtual    *)
(* client of one Zakuro instance.                                          *)
(*                                                                         *)
(* An instance runs everything here as handlers of one single-threaded     *)
(* io_context (zakuro.cpp:495), so a handler is one step.  A session       *)
(* (sora::SoraSignaling, a library) is a small object: it may report       *)
(* connection.created, it reports OnDisconnect at most once, of its own    *)
(* accord or because Disconnect() was called, and always from a later      *)
(* handler.  A retry timer is "armed", and "due" from the moment its wait  *)
(* has completed until the queued completion handler runs: cancel() no     *)
(* longer stops that handler.  A wait that was cancelled in time completes *)
(* with an error, on which the handler does nothing: that is no step.      *)
(*                                                                         *)
(* Left out: tracks, encodings and the content of messages and of offers.  *)
(* NoCallback is the empty std::function that Close() takes by default;    *)
(* calling it throws std::bad_function_call out of the io_context's run()  *)
(* and so out of the instance's thread, which ends the process.            *)
(***************************************************************************)
EXTENDS Naturals, FiniteSets

CONSTANTS
  Clients,     \* the virtual clients of the instance
  Sessions,    \* pool of session objects; one is free again when it has ended
  observer,    \* the client each of them is made for and reports to
  NoSession,   \* an empty signaling_
  Callbacks,   \* the non-empty functions given to Close()
  NoCallback,  \* the empty one
  MaxRetry     \* config_.max_retry

ASSUME MaxRetryAssumption == MaxRetry \in Nat
ASSUME ObserverAssumption == observer \in [Sessions -> Clients]
ASSUME NoSessionAssumption == NoSession \notin Sessions
ASSUME NoCallbackAssumption == NoCallback \notin Callbacks

VARIABLES
  closing,        \* closing_
  needReconnect,  \* need_reconnect_
  retryCount,     \* retry_count_
  onClose,        \* on_close_
  retryTimer,     \* retry_timer_: "idle", "armed" or "due"
  signaling,      \* signaling_: the client's session, or NoSession
  session,        \* the state of every session object of the pool
  terminated      \* the process has been ended by an uncaught exception

clientVars == <<closing, needReconnect, retryCount, onClose, retryTimer, signaling>>
vars == <<clientVars, session, terminated>>

TypeOK ==
  /\ closing \in [Clients -> BOOLEAN]
  /\ needReconnect \in [Clients -> BOOLEAN]
  /\ retryCount \in [Clients -> 0 .. MaxRetry]
  /\ onClose \in [Clients -> Callbacks \cup {NoCallback}]
  /\ retryTimer \in [Clients -> {"idle", "armed", "due"}]
  /\ signaling \in [Clients -> Sessions \cup {NoSession}]
  /\ session \in [Sessions -> {"free", "connecting", "connected", "disconnecting"}]
  /\ terminated \in BOOLEAN

Init ==
  /\ closing = [c \in Clients |-> FALSE]
  /\ needReconnect = [c \in Clients |-> FALSE]
  /\ retryCount = [c \in Clients |-> 0]
  /\ onClose = [c \in Clients |-> NoCallback]
  /\ retryTimer = [c \in Clients |-> "idle"]
  /\ signaling = [c \in Clients |-> NoSession]
  /\ session = [s \in Sessions |-> "free"]
  /\ terminated = FALSE

Online(c) == signaling[c] # NoSession

-----------------------------------------------------------------------------
(* Connect(). *)

\* Mutant: the cancel() is forgotten.
CancelledNever(timer) == timer

\* steady_timer::cancel(): it cannot take back a handler that is queued.
Cancelled(timer) == IF timer = "armed" THEN "idle" ELSE timer

\* Connect() while a Disconnect() is under way: remember it.
ReconnectLater(c) ==
  /\ closing[c]
  /\ needReconnect' = [needReconnect EXCEPT ![c] = TRUE]
  /\ UNCHANGED <<closing, retryCount, onClose, signaling, session>>

\* Connect() over a session: end that one, and reconnect when it has ended.
ReplaceSession(c) ==
  /\ ~closing[c]
  /\ Online(c)
  /\ closing' = [closing EXCEPT ![c] = TRUE]
  /\ needReconnect' = [needReconnect EXCEPT ![c] = TRUE]
  /\ session' = [session EXCEPT ![signaling[c]] = "disconnecting"]
  /\ UNCHANGED <<retryCount, onClose, signaling>>

\* Mutant: the test for a session in use is dropped.
OpenSessionAnyway(c) ==
  /\ ~closing[c]
  /\ \E s \in Sessions :
       /\ session[s] = "free" /\ observer[s] = c
       /\ session' = [session EXCEPT ![s] = "connecting"]
       /\ signaling' = [signaling EXCEPT ![c] = s]
  /\ UNCHANGED <<closing, retryCount, onClose>>

\* Connect() without a session: create one and start it.
OpenSession(c) ==
  /\ ~closing[c]
  /\ ~Online(c)
  /\ \E s \in Sessions :
       /\ session[s] = "free" /\ observer[s] = c
       /\ session' = [session EXCEPT ![s] = "connecting"]
       /\ signaling' = [signaling EXCEPT ![c] = s]
  /\ UNCHANGED <<closing, retryCount, onClose>>

Connect(c) ==
  /\ ~terminated
  /\ \/ /\ ReconnectLater(c) \/ ReplaceSession(c)
        /\ UNCHANGED retryTimer
     \/ /\ OpenSession(c)
        /\ UNCHANGED needReconnect
        /\ retryTimer' = [retryTimer EXCEPT ![c] = Cancelled(@)]
  /\ UNCHANGED terminated

-----------------------------------------------------------------------------
(* Close(on_close). *)

\* Close() calls on_close itself, before it returns.
AnswersAtOnce(c) == IF closing[c] THEN onClose[c] # NoCallback ELSE ~Online(c)

\* Calling a std::function: an empty one throws.
Call(cb) == terminated' = (cb = NoCallback)

Close(c, cb) ==
  /\ ~terminated
  /\ \/ /\ AnswersAtOnce(c)
        /\ Call(cb)
        /\ UNCHANGED <<clientVars, session>>
     \/ /\ closing[c] /\ onClose[c] = NoCallback
        /\ onClose' = [onClose EXCEPT ![c] = cb]
        /\ UNCHANGED <<closing, needReconnect, retryCount, retryTimer, signaling,
                       session, terminated>>
     \/ /\ ~closing[c] /\ Online(c)
        /\ closing' = [closing EXCEPT ![c] = TRUE]
        /\ onClose' = [onClose EXCEPT ![c] = cb]
        /\ session' = [session EXCEPT ![signaling[c]] = "disconnecting"]
        /\ UNCHANGED <<needReconnect, retryCount, retryTimer, signaling,
                       terminated>>

-----------------------------------------------------------------------------
(* The retry timer. *)

RetryExpires(c) ==
  /\ ~terminated
  /\ retryTimer[c] = "armed"
  /\ retryTimer' = [retryTimer EXCEPT ![c] = "due"]
  /\ UNCHANGED <<closing, needReconnect, retryCount, onClose, signaling, session,
                 terminated>>

\* Mutant: the handler reads need_reconnect_ after it has cleared it.
RetryFiresInVain(c) ==
  /\ ~terminated
  /\ retryTimer[c] = "due"
  /\ retryTimer' = [retryTimer EXCEPT ![c] = "idle"]
  /\ needReconnect' = [needReconnect EXCEPT ![c] = FALSE]
  /\ UNCHANGED <<closing, retryCount, onClose, signaling, session, terminated>>

\* The wait's handler, which clears need_reconnect_ and then calls Connect()
\* (that sets the flag again where it has to wait).
RetryFires(c) ==
  /\ ~terminated
  /\ retryTimer[c] = "due"
  /\ retryTimer' = [retryTimer EXCEPT ![c] = "idle"]
  /\ \/ /\ onClose[c] # NoCallback
        /\ needReconnect' = [needReconnect EXCEPT ![c] = FALSE]
        /\ UNCHANGED <<closing, retryCount, onClose, signaling, session>>
     \/ /\ onClose[c] = NoCallback
        /\ \/ ReconnectLater(c)
           \/ ReplaceSession(c)
           \/ /\ OpenSession(c)
              /\ needReconnect' = [needReconnect EXCEPT ![c] = FALSE]
  /\ UNCHANGED terminated

-----------------------------------------------------------------------------
(* What a session reports to its observer. *)

\* Mutant: the retry count is not reset.
OnNotifyKeepsCount(s) ==
  /\ ~terminated
  /\ session[s] # "free"
  /\ session' = [session EXCEPT ![s] = IF @ = "connecting" THEN "connected" ELSE @]
  /\ UNCHANGED <<closing, needReconnect, retryCount, onClose, retryTimer, signaling,
                 terminated>>

\* OnNotify, of the client's own connection.created or of another client's in
\* the channel.  Only the first makes a connecting session a connected one, and
\* it comes before any other.
OnNotify(s) ==
  LET c == observer[s] IN
  /\ ~terminated
  /\ session[s] # "free"
  /\ session' = [session EXCEPT ![s] = IF @ = "connecting" THEN "connected" ELSE @]
  /\ retryCount' = [retryCount EXCEPT ![c] = 0]
  /\ UNCHANGED <<closing, needReconnect, onClose, retryTimer, signaling,
                 terminated>>

RetryAllowed(c) == retryCount[c] < MaxRetry

\* OnDisconnect with closing_ unset: retry while the budget lasts.
LostSession(c, s) ==
  /\ ~closing[c]
  /\ IF RetryAllowed(c)
       THEN /\ retryCount' = [retryCount EXCEPT ![c] = @ + 1]
            /\ retryTimer' = [retryTimer EXCEPT ![c] = "armed"]
       ELSE /\ retryTimer' = [retryTimer EXCEPT ![c] = Cancelled(@)]
            /\ UNCHANGED retryCount
  /\ signaling' = [signaling EXCEPT ![c] = NoSession]
  /\ session' = [session EXCEPT ![s] = "free"]
  /\ UNCHANGED <<closing, needReconnect>>

\* Mutant: the reconnect does not give way to the callback.
ReconnectsRegardless(c) == needReconnect[c]

\* Mutant: the pending reconnect is forgotten.
ReconnectsNever(c) == FALSE

ReconnectsNow(c) == needReconnect[c] /\ onClose[c] = NoCallback

\* OnDisconnect with closing_ set: the Disconnect() asked for is done.  A
\* reconnect that waits for it takes place in the same handler, unless somebody
\* waits to be told that the client has left.
ClosedSession(c, s) ==
  /\ closing[c]
  /\ closing' = [closing EXCEPT ![c] = FALSE]
  /\ needReconnect' = [needReconnect EXCEPT ![c] = FALSE]
  /\ retryTimer' = [retryTimer EXCEPT ![c] = Cancelled(@)]
  /\ IF ReconnectsNow(c)
       THEN \E t \in Sessions :
              /\ session[t] = "free" /\ observer[t] = c
              /\ session' = [session EXCEPT ![s] = "free", ![t] = "connecting"]
              /\ signaling' = [signaling EXCEPT ![c] = t]
       ELSE /\ signaling' = [signaling EXCEPT ![c] = NoSession]
            /\ session' = [session EXCEPT ![s] = "free"]
  /\ UNCHANGED retryCount

\* Mutant: on_close_ is called but not emptied.
AnsweredAndKept(c) == UNCHANGED onClose

\* on_close_ is called if there is one, and emptied.
Answered(c) == onClose' = [onClose EXCEPT ![c] = NoCallback]

\* The io_context runs its handlers in the order they were queued.  A session is
\* only ever opened without an armed timer, so a retry handler that is due was
\* queued before the session was opened, and runs before anything it reports.
OnDisconnect(s) ==
  LET c == observer[s] IN
  /\ ~terminated
  /\ session[s] # "free"
  /\ retryTimer[c] # "due"
  /\ LostSession(c, s) \/ ClosedSession(c, s)
  /\ Answered(c)
  /\ UNCHANGED terminated

-----------------------------------------------------------------------------
\* The scenario and the keys call Connect() and Close(); timers and sessions
\* report.  After an uncaught exception nothing runs any more.
Next ==
  \/ \E c \in Clients : Connect(c)
  \/ \E c \in Clients, cb \in Callbacks \cup {NoCallback} : Close(c, cb)
  \/ \E c \in Clients : RetryExpires(c)
  \/ \E c \in Clients : RetryFires(c)
  \/ \E s \in Sessions : OnNotify(s)
  \/ \E s \in Sessions : OnDisconnect(s)

\* A Disconnect() is answered and a timer completes; nothing forces a call, a
\* notification or the loss of a session.
Fairness ==
  /\ \A c \in Clients : WF_vars(RetryExpires(c)) /\ WF_vars(RetryFires(c))
  /\ \A s \in Sessions : WF_vars(session[s] = "disconnecting" /\ OnDisconnect(s))

Safety == Init /\ [][Next]_vars

Spec == Safety /\ Fairness
-----------------------------------------------------------------------------
(* Safety. *)

\* No session object outlives its client's interest in it: every session that has
\* not ended is the one its observer holds, and what a client holds reports to it.
\* (Connect() ends the old session before it makes a new one: 34-39, 82.)
OneSessionEach ==
  /\ \A s \in Sessions : session[s] # "free" => signaling[observer[s]] = s
  /\ \A c \in Clients : Online(c) => /\ session[signaling[c]] # "free"
                                     /\ observer[signaling[c]] = c

\* closing_ is set exactly while the client's own session has been told to
\* disconnect: set too long, every later Connect() would only be remembered; unset
\* too early, OnDisconnect would take an intended end for a lost session.
ClosingIsDisconnecting ==
  \A c \in Clients :
    closing[c] <=> Online(c) /\ session[signaling[c]] = "disconnecting"

\* A reconnect or a callback is pending only while a disconnect is under way that
\* will deal with it: none is left behind for a session it was not meant for.
PendingOnlyWhileClosing ==
  \A c \in Clients : needReconnect[c] \/ onClose[c] # NoCallback => closing[c]

\* Both: closing_ and what it guards never disagree (virtual_client.cpp:34-39, 86-102,
\* 187-200).
ClosingExact == ClosingIsDisconnecting /\ PendingOnlyWhileClosing

\* A client with a session has no retry timer running against it, whichever way
\* the session came about (Connect() cancels it: 41).
RetryArmedOnlyOffline ==
  \A c \in Clients : retryTimer[c] = "armed" => ~Online(c)

\* The comment at 205-207: a notification about someone else finds the retry count
\* of a connected client at 0, so a lost session always has the whole budget.
ConnectedHasFullBudget ==
  \A s \in Sessions : session[s] = "connected" => retryCount[observer[s]] = 0

\* Refinement: the flags, the timer and the session objects implement the promise
\* of ClientLink, with its liveness.
Link == INSTANCE ClientLink WITH
  link <- [c \in Clients |-> IF ~Online(c) THEN "offline"
                             ELSE IF closing[c] THEN "leaving" ELSE "online"],
  waiting <- onClose,
  ended <- terminated

LinkSpec == Link!Spec

-----------------------------------------------------------------------------
(* Liveness. *)

\* A lost session whose retry has been scheduled is replaced by another one,
\* whatever the scenario and the keys do in between.
LostSessionsRecover ==
  \A c \in Clients : retryTimer[c] = "armed" ~> Online(c) \/ terminated

-----------------------------------------------------------------------------
(* What the comments say and the code does not do. *)

\* The comment at 171-172: the retry is for a session that was lost. A retry
\* would never end a session that is up.
RetryReplacesNothing ==
  [][\A c \in Clients : RetryFires(c) => ~ReplaceSession(c)]_vars
=============================================================================
