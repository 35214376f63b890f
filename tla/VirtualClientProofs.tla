------------------------- MODULE VirtualClientProofs -------------------------
(***************************************************************************)
(* Proofs about VirtualClient, for any set of clients, any pool of         *)
(* sessions and any retry budget.                                          *)
(***************************************************************************)
EXTENDS VirtualClient, TLAPS

\* The inductive invariant is the conjunction of the invariants TLC checks one by
\* one, without ConnectedHasFullBudget, which nothing else needs.
IInv ==
  /\ TypeOK
  /\ OneSessionEach
  /\ ClosingIsDisconnecting
  /\ PendingOnlyWhileClosing
  /\ RetryArmedOnlyOffline

\* No client has a session, a timer or anything pending when it is created.
LEMMA InitIInv == Init => IInv
  <1> SUFFICES ASSUME Init PROVE IInv
    OBVIOUS
  <1> USE DEF Init
  <1>1. TypeOK
    <2>1. retryCount \in [Clients -> 0 .. MaxRetry]
      BY MaxRetryAssumption
    <2> QED BY <2>1 DEF TypeOK
  <1>2. OneSessionEach
    BY DEF OneSessionEach, Online
  <1>3. ClosingIsDisconnecting /\ PendingOnlyWhileClosing /\ RetryArmedOnlyOffline
    BY DEF ClosingIsDisconnecting, PendingOnlyWhileClosing, RetryArmedOnlyOffline, Online
  <1> QED BY <1>1, <1>2, <1>3 DEF IInv

-----------------------------------------------------------------------------
(* The three outcomes of Connect(), called directly or by the retry timer.  *)
(* Neither caller leaves the timer armed where it was not.                   *)

\* Connect() during a disconnect only notes that a reconnect is wanted (29-32).
LEMMA ReconnectLaterIInv ==
  ASSUME IInv, NEW c \in Clients, ReconnectLater(c), UNCHANGED terminated,
         NEW t \in {"idle", retryTimer[c]}, retryTimer' = [retryTimer EXCEPT ![c] = t]
  PROVE  IInv'
  <1> USE DEF IInv, Online, ReconnectLater
  <1>1. TypeOK'
    BY DEF TypeOK
  <1>2. OneSessionEach' /\ ClosingIsDisconnecting'
    BY DEF OneSessionEach, ClosingIsDisconnecting
  <1>3. PendingOnlyWhileClosing' /\ RetryArmedOnlyOffline'
    BY DEF TypeOK, PendingOnlyWhileClosing, RetryArmedOnlyOffline
  <1> QED BY <1>1, <1>2, <1>3

\* Connect() over a session starts to end it, and so sets closing_ (34-39).
LEMMA ReplaceSessionIInv ==
  ASSUME IInv, NEW c \in Clients, ReplaceSession(c), UNCHANGED terminated,
         NEW t \in {"idle", retryTimer[c]}, retryTimer' = [retryTimer EXCEPT ![c] = t]
  PROVE  IInv'
  <1> USE DEF IInv, Online, ReplaceSession
  <1>1. TypeOK'
    BY DEF TypeOK
  <1>2. OneSessionEach'
    BY DEF TypeOK, OneSessionEach
  <1>3. ClosingIsDisconnecting'
    BY DEF TypeOK, OneSessionEach, ClosingIsDisconnecting
  <1>4. PendingOnlyWhileClosing' /\ RetryArmedOnlyOffline'
    BY DEF TypeOK, PendingOnlyWhileClosing, RetryArmedOnlyOffline
  <1> QED BY <1>1, <1>2, <1>3, <1>4

\* Connect() without a session opens one for the client it reports to (82-83).
LEMMA OpenSessionIInv ==
  ASSUME IInv, NEW c \in Clients, OpenSession(c), UNCHANGED terminated,
         NEW t \in {"idle", "due"}, retryTimer' = [retryTimer EXCEPT ![c] = t],
         needReconnect' = [needReconnect EXCEPT ![c] = FALSE]
  PROVE  IInv'
  <1> USE DEF IInv, Online, OpenSession
  <1>1. PICK s \in Sessions :
          /\ session[s] = "free" /\ observer[s] = c
          /\ session' = [session EXCEPT ![s] = "connecting"]
          /\ signaling' = [signaling EXCEPT ![c] = s]
    OBVIOUS
  <1>2. \A d \in Clients : signaling[d] # s
    BY <1>1, NoSessionAssumption DEF OneSessionEach
  <1>3. TypeOK'
    BY <1>1 DEF TypeOK
  <1>4. OneSessionEach'
    BY <1>1, <1>2, NoSessionAssumption DEF TypeOK, OneSessionEach
  <1>5. ClosingIsDisconnecting'
    BY <1>1, <1>2 DEF TypeOK, ClosingIsDisconnecting
  <1>6. PendingOnlyWhileClosing'
    BY <1>1 DEF TypeOK, PendingOnlyWhileClosing
  <1>7. RetryArmedOnlyOffline'
    BY <1>1 DEF TypeOK, RetryArmedOnlyOffline
  <1> QED BY <1>3, <1>4, <1>5, <1>6, <1>7

\* Connect() preserves the invariant: it cancels the timer where it opens a session.
LEMMA ConnectIInv == ASSUME IInv, NEW c \in Clients, Connect(c) PROVE IInv'
  <1>1. CASE ReconnectLater(c) /\ UNCHANGED <<retryTimer, terminated>>
    <2>1. retryTimer' = [retryTimer EXCEPT ![c] = retryTimer[c]]
      BY <1>1 DEF IInv, TypeOK
    <2> QED BY <1>1, <2>1, ReconnectLaterIInv
  <1>2. CASE ReplaceSession(c) /\ UNCHANGED <<retryTimer, terminated>>
    <2>1. retryTimer' = [retryTimer EXCEPT ![c] = retryTimer[c]]
      BY <1>2 DEF IInv, TypeOK
    <2> QED BY <1>2, <2>1, ReplaceSessionIInv
  <1>3. CASE /\ OpenSession(c) /\ UNCHANGED <<needReconnect, terminated>>
             /\ retryTimer' = [retryTimer EXCEPT ![c] = Cancelled(@)]
    <2>1. needReconnect' = [needReconnect EXCEPT ![c] = FALSE]
      BY <1>3 DEF IInv, TypeOK, OpenSession, PendingOnlyWhileClosing
    <2>2. Cancelled(retryTimer[c]) \in {"idle", "due"}
      BY DEF IInv, TypeOK, Cancelled
    <2> QED BY <1>3, <2>1, <2>2, OpenSessionIInv
  <1> QED BY <1>1, <1>2, <1>3 DEF Connect

-----------------------------------------------------------------------------
(* The other actions. *)

\* Close() stores its callback only where a disconnect will call it (86-102).
LEMMA CloseIInv ==
  ASSUME IInv, NEW c \in Clients, NEW cb \in Callbacks \cup {NoCallback}, Close(c, cb)
  PROVE  IInv'
  <1> USE DEF IInv, Online
  <1>1. CASE /\ AnswersAtOnce(c) /\ Call(cb)
             /\ UNCHANGED <<clientVars, session>>
    BY <1>1 DEF Call, clientVars, TypeOK, OneSessionEach,
       ClosingIsDisconnecting, PendingOnlyWhileClosing, RetryArmedOnlyOffline
  <1>2. CASE /\ closing[c] /\ onClose[c] = NoCallback
             /\ onClose' = [onClose EXCEPT ![c] = cb]
             /\ UNCHANGED <<closing, needReconnect, retryCount, retryTimer, signaling,
                            session, terminated>>
    BY <1>2 DEF TypeOK, OneSessionEach,
       ClosingIsDisconnecting, PendingOnlyWhileClosing, RetryArmedOnlyOffline
  <1>3. CASE /\ ~closing[c] /\ Online(c)
             /\ closing' = [closing EXCEPT ![c] = TRUE]
             /\ onClose' = [onClose EXCEPT ![c] = cb]
             /\ session' = [session EXCEPT ![signaling[c]] = "disconnecting"]
             /\ UNCHANGED <<needReconnect, retryCount, retryTimer, signaling,
                            terminated>>
    <2>1. TypeOK'
      BY <1>3 DEF TypeOK
    <2>2. OneSessionEach'
      BY <1>3 DEF TypeOK, OneSessionEach
    <2>3. ClosingIsDisconnecting'
      BY <1>3 DEF TypeOK, OneSessionEach, ClosingIsDisconnecting
    <2>4. PendingOnlyWhileClosing' /\ RetryArmedOnlyOffline'
      BY <1>3 DEF TypeOK, PendingOnlyWhileClosing, RetryArmedOnlyOffline
    <2> QED BY <2>1, <2>2, <2>3, <2>4
  <1> QED BY <1>1, <1>2, <1>3 DEF Close

\* The completion of the retry wait touches nothing but the timer.
LEMMA RetryExpiresIInv == ASSUME IInv, NEW c \in Clients, RetryExpires(c) PROVE IInv'
  BY DEF RetryExpires, IInv, Online, TypeOK, OneSessionEach,
     ClosingIsDisconnecting, PendingOnlyWhileClosing, RetryArmedOnlyOffline

\* The retry handler may run when others have connected or closed in between (177-185).
LEMMA RetryFiresIInv == ASSUME IInv, NEW c \in Clients, RetryFires(c) PROVE IInv'
  <1> USE DEF RetryFires
  <1>1. CASE /\ onClose[c] # NoCallback
             /\ needReconnect' = [needReconnect EXCEPT ![c] = FALSE]
             /\ UNCHANGED <<closing, retryCount, onClose, signaling, session>>
    BY <1>1 DEF IInv, Online, TypeOK, OneSessionEach,
       ClosingIsDisconnecting, PendingOnlyWhileClosing, RetryArmedOnlyOffline
  <1>2. CASE ReconnectLater(c)
    BY <1>2, ReconnectLaterIInv
  <1>3. CASE ReplaceSession(c)
    BY <1>3, ReplaceSessionIInv
  <1>4. CASE OpenSession(c) /\ needReconnect' = [needReconnect EXCEPT ![c] = FALSE]
    BY <1>4, OpenSessionIInv
  <1> QED BY <1>1, <1>2, <1>3, <1>4

\* A notification resets the retry count of the observer (202-210).
LEMMA OnNotifyIInv == ASSUME IInv, NEW s \in Sessions, OnNotify(s) PROVE IInv'
  <1> USE DEF OnNotify, IInv, Online
  <1>1. TypeOK'
    <2>1. session' \in [Sessions -> {"free", "connecting", "connected", "disconnecting"}]
      BY DEF TypeOK
    <2>2. retryCount' = [retryCount EXCEPT ![observer[s]] = 0] /\ 0 \in 0 .. MaxRetry
      BY MaxRetryAssumption
    <2>3. retryCount' \in [Clients -> 0 .. MaxRetry]
      BY <2>2 DEF TypeOK
    <2> QED BY <2>1, <2>3 DEF TypeOK
  <1>2. OneSessionEach'
    BY DEF TypeOK, OneSessionEach
  <1>3. ClosingIsDisconnecting'
    BY DEF TypeOK, OneSessionEach, ClosingIsDisconnecting
  <1>4. PendingOnlyWhileClosing' /\ RetryArmedOnlyOffline'
    BY DEF PendingOnlyWhileClosing, RetryArmedOnlyOffline
  <1> QED BY <1>1, <1>2, <1>3, <1>4

\* OnDisconnect reports the session its observer holds, so that clearing signaling_
\* never loses another one.
LEMMA ReportedSession ==
  ASSUME IInv, NEW s \in Sessions, session[s] # "free"
  PROVE  /\ observer[s] \in Clients
         /\ signaling[observer[s]] = s
         /\ \A d \in Clients : signaling[d] = s => d = observer[s]
         /\ \A u \in Sessions : session[u] # "free" /\ observer[u] = observer[s] => u = s
  BY NoSessionAssumption, ObserverAssumption DEF IInv, TypeOK, OneSessionEach, Online

\* Losing a session that nobody ended arms a timer and leaves nothing pending (170-186).
LEMMA LostSessionIInv ==
  ASSUME IInv, NEW s \in Sessions, session[s] # "free", LostSession(observer[s], s),
         Answered(observer[s]), UNCHANGED terminated
  PROVE  IInv'
  <1> DEFINE c == observer[s]
  <1> c \in Clients
    BY ReportedSession
  <1>0. /\ signaling[c] = s
        /\ \A d \in Clients : signaling[d] = s => d = c
        /\ \A u \in Sessions : session[u] # "free" /\ observer[u] = c => u = s
    BY ReportedSession
  <1> HIDE DEF c
  <1> USE DEF LostSession, Answered, IInv, Online
  <1>a. LostSession(c, s) /\ Answered(c)
    BY DEF c
  <1>1. TypeOK'
    <2>1. CASE RetryAllowed(c)
      BY <2>1, <1>a, MaxRetryAssumption DEF TypeOK, RetryAllowed
    <2>2. CASE ~RetryAllowed(c)
      BY <2>2, <1>a DEF TypeOK, Cancelled
    <2> QED BY <2>1, <2>2
  <1>2. OneSessionEach'
    BY <1>a, <1>0, NoSessionAssumption DEF TypeOK, OneSessionEach
  <1>3. ClosingIsDisconnecting'
    BY <1>a, <1>0 DEF TypeOK, OneSessionEach, ClosingIsDisconnecting
  <1>4. PendingOnlyWhileClosing'
    BY <1>a DEF TypeOK, PendingOnlyWhileClosing
  <1>5. RetryArmedOnlyOffline'
    BY <1>a DEF TypeOK, RetryArmedOnlyOffline
  <1> QED BY <1>1, <1>2, <1>3, <1>4, <1>5

\* The answer to Disconnect() clears closing_ and all that waited for it (187-200).
LEMMA ClosedSessionIInv ==
  ASSUME IInv, NEW s \in Sessions, session[s] # "free", ClosedSession(observer[s], s),
         Answered(observer[s]), UNCHANGED terminated
  PROVE  IInv'
  <1> DEFINE c == observer[s]
  <1> c \in Clients
    BY ReportedSession
  <1>0. /\ signaling[c] = s
        /\ \A d \in Clients : signaling[d] = s => d = c
        /\ \A u \in Sessions : session[u] # "free" /\ observer[u] = c => u = s
    BY ReportedSession
  <1> HIDE DEF c
  <1> USE DEF ClosedSession, Answered, IInv, Online
  <1>a. ClosedSession(c, s) /\ Answered(c)
    BY DEF c
  <1>1. /\ closing' \in [Clients -> BOOLEAN]
        /\ needReconnect' \in [Clients -> BOOLEAN]
        /\ retryCount' \in [Clients -> 0 .. MaxRetry]
        /\ onClose' \in [Clients -> Callbacks \cup {NoCallback}]
        /\ retryTimer' \in [Clients -> {"idle", "armed", "due"}]
        /\ terminated' \in BOOLEAN
    BY <1>a DEF TypeOK, Cancelled
  <1>2. PendingOnlyWhileClosing'
    BY <1>a DEF TypeOK, PendingOnlyWhileClosing
  <1>3. retryTimer'[c] # "armed" /\ \A d \in Clients \ {c} : retryTimer'[d] = retryTimer[d]
    BY <1>a DEF TypeOK, Cancelled
  <1>4. CASE ReconnectsNow(c)
    <2>1. PICK t \in Sessions :
            /\ session[t] = "free" /\ observer[t] = c
            /\ session' = [session EXCEPT ![s] = "free", ![t] = "connecting"]
            /\ signaling' = [signaling EXCEPT ![c] = t]
      BY <1>4, <1>a
    <2>2. t # s /\ \A d \in Clients : signaling[d] # t
      BY <2>1, NoSessionAssumption DEF OneSessionEach
    <2>3. TypeOK'
      BY <2>1, <1>1 DEF TypeOK
    <2>4. OneSessionEach'
      BY <2>1, <2>2, <1>0, NoSessionAssumption DEF TypeOK, OneSessionEach
    <2>5. ClosingIsDisconnecting'
      BY <2>1, <2>2, <1>0, <1>a DEF TypeOK, OneSessionEach, ClosingIsDisconnecting
    <2>6. RetryArmedOnlyOffline'
      BY <2>1, <1>3 DEF TypeOK, RetryArmedOnlyOffline
    <2> QED BY <2>3, <2>4, <2>5, <2>6, <1>2
  <1>5. CASE ~ReconnectsNow(c)
    <2>1. /\ signaling' = [signaling EXCEPT ![c] = NoSession]
          /\ session' = [session EXCEPT ![s] = "free"]
      BY <1>5, <1>a
    <2>2. TypeOK'
      BY <2>1, <1>1 DEF TypeOK
    <2>3. OneSessionEach'
      BY <2>1, <1>0, NoSessionAssumption DEF TypeOK, OneSessionEach
    <2>4. ClosingIsDisconnecting'
      BY <2>1, <1>0, <1>a DEF TypeOK, OneSessionEach, ClosingIsDisconnecting
    <2>5. RetryArmedOnlyOffline'
      BY <2>1, <1>3 DEF TypeOK, RetryArmedOnlyOffline
    <2> QED BY <2>2, <2>3, <2>4, <2>5, <1>2
  <1> QED BY <1>4, <1>5

\* OnDisconnect preserves the invariant in both its branches.
LEMMA OnDisconnectIInv == ASSUME IInv, NEW s \in Sessions, OnDisconnect(s) PROVE IInv'
  BY LostSessionIInv, ClosedSessionIInv DEF OnDisconnect

\* Nothing outside the variables matters to the invariant.
LEMMA StutterIInv == IInv /\ UNCHANGED vars => IInv'
  BY DEF vars, clientVars, IInv, Online, TypeOK, OneSessionEach,
     ClosingIsDisconnecting, PendingOnlyWhileClosing, RetryArmedOnlyOffline

\* The invariant is inductive.
LEMMA StepIInv == IInv /\ [Next]_vars => IInv'
  BY ConnectIInv, CloseIInv, RetryExpiresIInv, RetryFiresIInv, OnNotifyIInv,
     OnDisconnectIInv, StutterIInv DEF Next

-----------------------------------------------------------------------------
(* Theorems. *)

\* Every reachable state of the clients, whatever the order of calls, timers and
\* reports, satisfies the inductive invariant.
THEOREM Invariance == Safety => []IInv
  BY InitIInv, StepIInv, PTL DEF Safety

\* The variables keep their types; in particular a client makes at most MaxRetry
\* retries between two notifications (OnDisconnect, OnNotify).
THEOREM TypeCorrectness == Spec => []TypeOK
  <1>1. IInv => TypeOK
    BY DEF IInv
  <1> QED BY <1>1, Invariance, PTL DEF Spec

\* A client never holds a dead session and never leaves a live one behind,
\* whatever order Connect(), Close(), retries and OnDisconnect come in.
THEOREM SessionsAreOwned == Spec => []OneSessionEach
  <1>1. IInv => OneSessionEach
    BY DEF IInv
  <1> QED BY <1>1, Invariance, PTL DEF Spec

\* closing_ says exactly that the client's session has been told to disconnect, and
\* nothing is pending unless it is set.
THEOREM ClosingIsExact == Spec => []ClosingExact
  <1>1. IInv => ClosingExact
    BY DEF IInv, ClosingExact
  <1> QED BY <1>1, Invariance, PTL DEF Spec

\* No retry timer runs against a session.
THEOREM NoTimerOverSession == Spec => []RetryArmedOnlyOffline
  <1>1. IInv => RetryArmedOnlyOffline
    BY DEF IInv
  <1> QED BY <1>1, Invariance, PTL DEF Spec

-----------------------------------------------------------------------------
(* The comment at virtual_client.cpp:205-207.                                *)

\* No session is connected when the clients are created.
LEMMA InitBudget == Init => ConnectedHasFullBudget
  BY DEF Init, ConnectedHasFullBudget

\* Only LostSession spends the budget, and it leaves no session connected.
LEMMA StepBudget == IInv /\ ConnectedHasFullBudget /\ [Next]_vars => ConnectedHasFullBudget'
  <1> SUFFICES ASSUME IInv, ConnectedHasFullBudget, [Next]_vars
               PROVE  ConnectedHasFullBudget'
    OBVIOUS
  <1> USE DEF ConnectedHasFullBudget
  <1>1. ASSUME NEW c \in Clients,
               ReconnectLater(c) \/ ReplaceSession(c) \/ OpenSession(c)
        PROVE  ConnectedHasFullBudget'
    BY <1>1 DEF ReconnectLater, ReplaceSession, OpenSession, IInv, TypeOK
  <1>2. ASSUME NEW c \in Clients, Connect(c) \/ RetryFires(c)
        PROVE  ConnectedHasFullBudget'
    BY <1>1, <1>2 DEF Connect, RetryFires
  <1>3. ASSUME NEW c \in Clients, NEW cb \in Callbacks \cup {NoCallback}, Close(c, cb)
        PROVE  ConnectedHasFullBudget'
    BY <1>3 DEF Close, clientVars, IInv, TypeOK
  <1>4. ASSUME NEW c \in Clients, RetryExpires(c) PROVE ConnectedHasFullBudget'
    BY <1>4 DEF RetryExpires
  <1>5. ASSUME NEW s \in Sessions, OnNotify(s) PROVE ConnectedHasFullBudget'
    \* The session that becomes connected is the one whose count is reset, and no
    \* other reports to the same client.
    <2>1. /\ retryCount' = [retryCount EXCEPT ![observer[s]] = 0]
          /\ \A t \in Sessions \ {s} : session'[t] = session[t]
      BY <1>5 DEF OnNotify, IInv, TypeOK
    <2> QED BY <2>1, ObserverAssumption DEF IInv, TypeOK
  <1>6. ASSUME NEW s \in Sessions, OnDisconnect(s) PROVE ConnectedHasFullBudget'
    <2>1. session[s] # "free" /\ session'[s] = "free"
      BY <1>6 DEF OnDisconnect, LostSession, ClosedSession, IInv, TypeOK
    <2>2. \A t \in Sessions : session'[t] = "connected" =>
            session[t] = "connected" /\ t # s
      BY <1>6, <2>1 DEF OnDisconnect, LostSession, ClosedSession, IInv, TypeOK
    <2>3. \A d \in Clients \ {observer[s]} : retryCount'[d] = retryCount[d]
      BY <1>6 DEF OnDisconnect, LostSession, ClosedSession, IInv, TypeOK
    <2> QED BY <2>1, <2>2, <2>3, ReportedSession DEF IInv, TypeOK
  <1>7. CASE UNCHANGED vars
    BY <1>7 DEF vars, clientVars
  <1> QED BY <1>2, <1>3, <1>4, <1>5, <1>6, <1>7 DEF Next

\* A connected client has its whole retry budget, so a notification about another
\* client resets nothing.
THEOREM FullBudget == Spec => []ConnectedHasFullBudget
  BY Invariance, InitBudget, StepBudget, PTL DEF Spec, Safety

-----------------------------------------------------------------------------
(* Refinement: every step is a step of ClientLink, or a stutter of it.       *)

LinkOf == [c \in Clients |-> IF ~Online(c) THEN "offline"
                             ELSE IF closing[c] THEN "leaving" ELSE "online"]

\* The initial states of the clients are those of their promise.
LEMMA LinkInit == Init => Link!Init
  BY DEF Init, Link!Init, Online

\* Opening a session is Open.
LEMMA LinkOpen ==
  ASSUME IInv, NEW c \in Clients, OpenSession(c), UNCHANGED terminated, ~terminated
  PROVE  Link!Open(c)
  <1>1. PICK s \in Sessions : signaling' = [signaling EXCEPT ![c] = s]
    BY DEF OpenSession
  <1>2. LinkOf' = [LinkOf EXCEPT ![c] = "online"]
    BY <1>1, NoSessionAssumption DEF OpenSession, LinkOf, Online, IInv, TypeOK
  <1>3. LinkOf[c] = "offline" /\ UNCHANGED onClose
    BY DEF OpenSession, LinkOf
  <1> QED BY <1>2, <1>3 DEF Link!Open, LinkOf

\* Replacing a session begins by leaving it, with nobody waiting.
LEMMA LinkReplace ==
  ASSUME IInv, NEW c \in Clients, ReplaceSession(c), UNCHANGED terminated, ~terminated
  PROVE  Link!Leave(c)
  <1>1. LinkOf' = [LinkOf EXCEPT ![c] = "leaving"] /\ LinkOf[c] = "online"
    BY DEF ReplaceSession, LinkOf, Online, IInv, TypeOK
  <1>2. onClose' = [onClose EXCEPT ![c] = NoCallback]
    BY DEF ReplaceSession, IInv, TypeOK, PendingOnlyWhileClosing
  <1> QED BY <1>1, <1>2 DEF Link!Leave, LinkOf

\* Remembering a reconnect is not visible.
LEMMA LinkLater ==
  ASSUME NEW c \in Clients, ReconnectLater(c), UNCHANGED terminated
  PROVE  UNCHANGED Link!vars
  BY DEF ReconnectLater, Link!vars, Online

\* Connect(), called directly or by the retry timer, is Open, Leave or a stutter.
LEMMA LinkConnect ==
  ASSUME IInv, NEW c \in Clients, Connect(c) \/ RetryFires(c)
  PROVE  [Link!Next]_(Link!vars)
  <1>1. CASE onClose[c] # NoCallback /\ UNCHANGED <<closing, onClose, signaling, terminated>>
    BY <1>1 DEF Link!vars, Online
  <1>2. CASE ReconnectLater(c) /\ UNCHANGED terminated
    BY <1>2, LinkLater
  <1>3. CASE ReplaceSession(c) /\ UNCHANGED terminated /\ ~terminated
    BY <1>3, LinkReplace DEF Link!Next
  <1>4. CASE OpenSession(c) /\ UNCHANGED terminated /\ ~terminated
    BY <1>4, LinkOpen DEF Link!Next
  <1> QED BY <1>1, <1>2, <1>3, <1>4 DEF Connect, RetryFires

\* Close() is Leave, Wait, End or a stutter.
LEMMA LinkClose ==
  ASSUME IInv, NEW c \in Clients, NEW cb \in Callbacks \cup {NoCallback}, Close(c, cb)
  PROVE  [Link!Next]_(Link!vars)
  <1>1. CASE Call(cb) /\ UNCHANGED <<clientVars, session>>
    <2>1. LinkOf' = LinkOf /\ onClose' = onClose /\ terminated' \in BOOLEAN /\ ~terminated
      BY <1>1 DEF Call, clientVars, LinkOf, Online, Close
    <2>2. CASE terminated'
      BY <2>1, <2>2 DEF Link!Next, Link!End, LinkOf
    <2>3. CASE ~terminated'
      BY <2>1, <2>3 DEF Link!vars, LinkOf, IInv, TypeOK
    <2> QED BY <2>1, <2>2, <2>3
  <1>2. CASE /\ closing[c] /\ onClose[c] = NoCallback
             /\ onClose' = [onClose EXCEPT ![c] = cb]
             /\ UNCHANGED <<closing, signaling, terminated>>
    <2>1. LinkOf' = LinkOf /\ LinkOf[c] = "leaving" /\ ~terminated
      BY <1>2 DEF LinkOf, Online, IInv, ClosingIsDisconnecting, Close
    <2>2. CASE cb \in Callbacks
      <3>1. Link!Wait(c)
        BY <1>2, <2>1, <2>2 DEF Link!Wait, LinkOf
      <3> QED BY <3>1 DEF Link!Next
    <2>3. CASE cb = NoCallback
      <3>1. onClose' = onClose
        BY <1>2, <2>3 DEF IInv, TypeOK
      <3> QED BY <1>2, <2>1, <3>1 DEF Link!vars, LinkOf
    <2> QED BY <2>2, <2>3
  <1>3. CASE /\ ~closing[c] /\ Online(c)
             /\ closing' = [closing EXCEPT ![c] = TRUE]
             /\ onClose' = [onClose EXCEPT ![c] = cb]
             /\ UNCHANGED <<signaling, terminated>>
    <2>1. closing \in [Clients -> BOOLEAN] /\ ~terminated
      BY DEF IInv, TypeOK, Close
    <2>2. LinkOf' = [LinkOf EXCEPT ![c] = "leaving"]
      BY <1>3, <2>1 DEF LinkOf, Online
    <2>3. LinkOf[c] = "online"
      BY <1>3 DEF LinkOf, Online
    <2>4. Link!Leave(c)
      BY <1>3, <2>1, <2>2, <2>3 DEF Link!Leave, LinkOf
    <2> QED BY <2>4 DEF Link!Next
  <1> QED BY <1>1, <1>2, <1>3 DEF Close

\* A session lost is a Drop.
LEMMA LinkLost ==
  ASSUME IInv, NEW s \in Sessions, OnDisconnect(s), LostSession(observer[s], s),
         NEW c \in Clients, c = observer[s]
  PROVE  Link!Drop(c)
  <1>0. signaling[c] = s
    BY ReportedSession DEF OnDisconnect
  <1>1. /\ ~terminated /\ UNCHANGED terminated
        /\ onClose' = [onClose EXCEPT ![c] = NoCallback]
        /\ ~closing[c] /\ UNCHANGED closing
        /\ signaling' = [signaling EXCEPT ![c] = NoSession]
    BY DEF OnDisconnect, LostSession, Answered
  <1>2. onClose' = onClose
    BY <1>0, <1>1 DEF IInv, TypeOK, PendingOnlyWhileClosing
  <1>3. LinkOf' = [LinkOf EXCEPT ![c] = "offline"] /\ LinkOf[c] = "online"
    BY <1>0, <1>1, NoSessionAssumption DEF LinkOf, Online, IInv, TypeOK
  <1> QED BY <1>1, <1>2, <1>3 DEF Link!Drop, LinkOf

\* A session that ends as asked is a Left, online again only if nobody waits.
LEMMA LinkClosed ==
  ASSUME IInv, NEW s \in Sessions, OnDisconnect(s), ClosedSession(observer[s], s),
         NEW c \in Clients, c = observer[s]
  PROVE  Link!Left(c)
  <1>0. signaling[c] = s
    BY ReportedSession DEF OnDisconnect
  <1>1. /\ ~terminated /\ UNCHANGED terminated
        /\ onClose' = [onClose EXCEPT ![c] = NoCallback]
        /\ closing[c] /\ closing' = [closing EXCEPT ![c] = FALSE]
    BY DEF OnDisconnect, ClosedSession, Answered
  <1>2. \/ signaling' = [signaling EXCEPT ![c] = NoSession]
        \/ /\ onClose[c] = NoCallback
           /\ \E t \in Sessions : signaling' = [signaling EXCEPT ![c] = t]
    BY DEF OnDisconnect, ClosedSession, ReconnectsNow
  <1>3. LinkOf[c] = "leaving"
    BY <1>0, <1>1, NoSessionAssumption DEF LinkOf, Online
  <1>4. \/ LinkOf' = [LinkOf EXCEPT ![c] = "offline"]
        \/ onClose[c] = NoCallback /\ LinkOf' = [LinkOf EXCEPT ![c] = "online"]
    <2>1. CASE signaling' = [signaling EXCEPT ![c] = NoSession]
      BY <1>1, <2>1 DEF LinkOf, Online, IInv, TypeOK
    <2>2. ASSUME onClose[c] = NoCallback,
                 NEW t \in Sessions, signaling' = [signaling EXCEPT ![c] = t]
          PROVE  LinkOf' = [LinkOf EXCEPT ![c] = "online"]
      BY <1>1, <2>2, NoSessionAssumption DEF LinkOf, Online, IInv, TypeOK
    <2> QED BY <1>2, <2>1, <2>2
  <1> QED BY <1>1, <1>3, <1>4 DEF Link!Left, LinkOf

\* Every step of the clients is a step of their promise or a stutter.
LEMMA LinkStep == IInv /\ [Next]_vars => [Link!Next]_(Link!vars)
  <1> SUFFICES ASSUME IInv, [Next]_vars PROVE [Link!Next]_(Link!vars)
    OBVIOUS
  <1>1. ASSUME NEW c \in Clients, RetryExpires(c) PROVE UNCHANGED Link!vars
    BY <1>1 DEF RetryExpires, Link!vars, Online
  <1>2. ASSUME NEW s \in Sessions, OnNotify(s) PROVE UNCHANGED Link!vars
    BY <1>2 DEF OnNotify, Link!vars, Online
  <1>3. ASSUME NEW s \in Sessions, OnDisconnect(s) PROVE Link!Next
    <2>1. PICK c \in Clients : c = observer[s]
      BY <1>3, ReportedSession DEF OnDisconnect
    <2>2. LostSession(observer[s], s) \/ ClosedSession(observer[s], s)
      BY <1>3 DEF OnDisconnect
    <2>3. Link!Drop(c) \/ Link!Left(c)
      BY <1>3, <2>1, <2>2, LinkLost, LinkClosed
    <2> QED BY <2>3 DEF Link!Next
  <1>4. CASE UNCHANGED vars
    BY <1>4 DEF vars, clientVars, Link!vars, Online
  <1> QED BY <1>1, <1>2, <1>3, <1>4, LinkConnect, LinkClose DEF Next

\* The client keeps its promise: it is never on two sessions, and whoever waits for
\* it to leave is told once, when it is offline. (Its liveness is left to TLC.)
THEOREM ImplementsClientLink == Safety => Link!Safety
  BY Invariance, LinkInit, LinkStep, PTL DEF Safety, Link!Safety
=============================================================================
