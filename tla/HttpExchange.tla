---------------------------- MODULE HttpExchange ----------------------------
(***************************************************************************)
(* What a session of the HTTP server promises: it has one request in hand  *)
(* at a time, answers it or gives up the connection, and goes on after an  *)
(* answer exactly if the request asked for that.                           *)
(***************************************************************************)
CONSTANTS
  Sessions,
  Requests,   \* records with a field keepAlive
  NoRequest

VARIABLES
  open,     \* of each session: is there a connection?
  request   \* the request in hand

vars == <<open, request>>

Init ==
  /\ open = [s \in Sessions |-> FALSE]
  /\ request = [s \in Sessions |-> NoRequest]

Opens(s) ==
  /\ ~open[s]
  /\ open' = [open EXCEPT ![s] = TRUE]
  /\ UNCHANGED request

Receives(s, r) ==
  /\ open[s] /\ request[s] = NoRequest
  /\ request' = [request EXCEPT ![s] = r]
  /\ UNCHANGED open

Answers(s) ==
  /\ request[s] # NoRequest
  /\ open' = [open EXCEPT ![s] = request[s].keepAlive]
  /\ request' = [request EXCEPT ![s] = NoRequest]

\* The connection is lost, closed by the other side, or too slow.
Drops(s) ==
  /\ open[s]
  /\ open' = [open EXCEPT ![s] = FALSE]
  /\ request' = [request EXCEPT ![s] = NoRequest]

Next ==
  \E s \in Sessions :
    Opens(s) \/ Answers(s) \/ Drops(s) \/ \E r \in Requests : Receives(s, r)

Ends(s) == request[s] # NoRequest /\ (Answers(s) \/ Drops(s))

Fairness == \A s \in Sessions : WF_vars(Ends(s))

Safety == Init /\ [][Next]_vars

Spec == Safety /\ Fairness
=============================================================================
