----------------------------- MODULE ClientLink -----------------------------
(***************************************************************************)
(* What a virtual client promises whoever drives it, without its flags,    *)
(* its timer or its session objects.  A client is offline, online, or      *)
(* leaving; somebody may wait to be told that it has left.                 *)
(*                                                                         *)
(*   - It never goes straight from one session to the next: it is offline  *)
(*     or leaving in between, so that two sessions are never alive.        *)
(*   - Whoever waits is told exactly when the client has left, once, and   *)
(*     then the client is offline: a reconnect asked for in the meantime   *)
(*     gives way.                                                          *)
(*   - Leaving ends.                                                       *)
(*                                                                         *)
(* VirtualClient implements this specification.                            *)
(***************************************************************************)
CONSTANTS
  Clients,      \* the virtual clients of one Zakuro instance
  Callbacks,    \* what may wait for a client to have left
  NoCallback    \* nothing waits

VARIABLES
  link,     \* [Clients -> {"offline", "online", "leaving"}]
  waiting,  \* [Clients -> Callbacks \cup {NoCallback}]
  ended     \* has the process ended?

vars == <<link, waiting, ended>>

TypeOK ==
  /\ link \in [Clients -> {"offline", "online", "leaving"}]
  /\ waiting \in [Clients -> Callbacks \cup {NoCallback}]
  /\ ended \in BOOLEAN

Init ==
  /\ link = [c \in Clients |-> "offline"]
  /\ waiting = [c \in Clients |-> NoCallback]
  /\ ended = FALSE

Open(c) ==
  /\ ~ended
  /\ link[c] = "offline"
  /\ link' = [link EXCEPT ![c] = "online"]
  /\ UNCHANGED <<waiting, ended>>

\* The session is lost, though nobody asked for it.
Drop(c) ==
  /\ ~ended
  /\ link[c] = "online"
  /\ link' = [link EXCEPT ![c] = "offline"]
  /\ UNCHANGED <<waiting, ended>>

Leave(c) ==
  /\ ~ended
  /\ link[c] = "online"
  /\ link' = [link EXCEPT ![c] = "leaving"]
  /\ \E cb \in Callbacks \cup {NoCallback} : waiting' = [waiting EXCEPT ![c] = cb]
  /\ UNCHANGED ended

\* Somebody begins to wait for a departure under way.
Wait(c) ==
  /\ ~ended
  /\ link[c] = "leaving"
  /\ waiting[c] = NoCallback
  /\ \E cb \in Callbacks : waiting' = [waiting EXCEPT ![c] = cb]
  /\ UNCHANGED <<link, ended>>

\* The client has left; who waits is told, and only without anyone waiting may
\* the client be online again at once.
Left(c) ==
  /\ ~ended
  /\ link[c] = "leaving"
  /\ \/ link' = [link EXCEPT ![c] = "offline"]
     \/ waiting[c] = NoCallback /\ link' = [link EXCEPT ![c] = "online"]
  /\ waiting' = [waiting EXCEPT ![c] = NoCallback]
  /\ UNCHANGED ended

End ==
  /\ ~ended
  /\ ended' = TRUE
  /\ UNCHANGED <<link, waiting>>

Next ==
  \/ \E c \in Clients : Open(c) \/ Drop(c) \/ Leave(c) \/ Wait(c) \/ Left(c)
  \/ End

Safety == Init /\ [][Next]_vars

Spec == Safety /\ \A c \in Clients : WF_vars(Left(c))
=============================================================================
