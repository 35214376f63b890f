----------------------------- MODULE HttpSession -----------------------------
(***************************************************************************)
(* src/src/http_server.{h,cpp}: the sessions of the HTTP server, with the  *)
(* proxies they hand requests to.  All of it runs as handlers of one       *)
(* io_context with one thread.                                             *)
(*                                                                         *)
(* A session lives as long as a handler holds it.  It reads a request,     *)
(* answers it itself or hands it to a proxy, writes the answer, and reads  *)
(* again or ends.  The deadline of its stream is set when it begins to     *)
(* read, and for the write that follows it is still the same one: what the *)
(* wait for the request and the proxy took is no longer there.  It matters *)
(* only while the session reads or writes.                                 *)
(*                                                                         *)
(* Left out: the wire format and what JSON-RPC answers.  That the server   *)
(* is stopped is modelled in Instances.                                    *)
(***************************************************************************)
EXTENDS HttpProxy

CONSTANTS
  Targets,     \* "health" (GET /.ok), "rpc" (POST /rpc), "ui" (all else)
  NoRequest,
  NoResponse

ASSUME TargetsAssumption == Targets \subseteq {"health", "rpc", "ui"}

Requests == [target : Targets, keepAlive : BOOLEAN]

ASSUME NoRequestAssumption == NoRequest \notin Requests

Statuses == {"ok", "no_content", "not_found", "bad_gateway", "relayed"}

Responses == [status : Statuses, keepAlive : BOOLEAN]

VARIABLES
  op,         \* of each session: what it does; "waiting" for its proxy
  inHand,     \* the request that is being answered
  res,        \* res_
  deadline    \* of its stream

sessionVars == <<op, inHand, res, deadline>>
vars == <<proxyVars, sessionVars>>

TypeOK ==
  /\ ProxyTypeOK
  /\ op \in [Sessions -> {"none", "posted", "reading", "waiting", "writing"}]
  /\ inHand \in [Sessions -> Requests \union {NoRequest}]
  /\ res \in [Sessions -> Responses \union {NoResponse}]
  /\ deadline \in [Sessions -> {"none", "set", "passed"}]

Init ==
  /\ ProxyInit
  /\ op = [s \in Sessions |-> "none"]
  /\ inHand = [s \in Sessions |-> NoRequest]
  /\ res = [s \in Sessions |-> NoResponse]
  /\ deadline = [s \in Sessions |-> "none"]

-----------------------------------------------------------------------------

\* OnAccept: a session is made, and its DoRead() posted.
OnAccept(s) ==
  /\ op[s] = "none"
  /\ op' = [op EXCEPT ![s] = "posted"]
  /\ UNCHANGED <<proxyVars, inHand, res, deadline>>

\* The last handler that held the session has returned: it is destroyed.
Ends(s) ==
  /\ op' = [op EXCEPT ![s] = "none"]
  /\ inHand' = [inHand EXCEPT ![s] = NoRequest]
  /\ res' = [res EXCEPT ![s] = NoResponse]
  /\ deadline' = [deadline EXCEPT ![s] = "none"]

\* Mutant: the deadline stays the one of the first request.
DoReadUntimed(s) ==
  /\ op' = [op EXCEPT ![s] = "reading"]
  /\ inHand' = [inHand EXCEPT ![s] = NoRequest]
  /\ res' = [res EXCEPT ![s] = NoResponse]
  /\ UNCHANGED deadline

DoRead(s) ==
  /\ op' = [op EXCEPT ![s] = "reading"]
  /\ inHand' = [inHand EXCEPT ![s] = NoRequest]
  /\ res' = [res EXCEPT ![s] = NoResponse]
  /\ deadline' = [deadline EXCEPT ![s] = "set"]

Run(s) ==
  /\ op[s] = "posted"
  /\ DoRead(s)
  /\ UNCHANGED proxyVars

SendResponse(s, status, keep) ==
  /\ op' = [op EXCEPT ![s] = "writing"]
  /\ res' = [res EXCEPT ![s] = [status |-> status, keepAlive |-> keep]]
  /\ UNCHANGED deadline

\* What the session answers itself: a JSON-RPC notification gets no content, and a
\* URL that is neither http nor https is an error of the proxy before its first step.
StatusesOf(r) ==
  CASE r.target = "health" -> {"ok"}
    [] r.target = "rpc" -> {"ok", "no_content"}
    [] r.target = "ui" /\ url = "none" -> {"not_found"}
    [] OTHER -> {"bad_gateway"}

Proxied(r) == r.target = "ui" /\ ParseUrl(url)

\* OnRead and AsyncHandleRequest: a request has come.
OnRead(s, r) ==
  /\ op[s] = "reading"
  /\ inHand' = [inHand EXCEPT ![s] = r]
  /\ \/ /\ ~Proxied(r)
        /\ \E status \in StatusesOf(r) : SendResponse(s, status, r.keepAlive)
        /\ UNCHANGED proxyVars
     \/ /\ Proxied(r)
        /\ AsyncHandleRequest(s, r.keepAlive)
        /\ op' = [op EXCEPT ![s] = "waiting"]
        /\ UNCHANGED <<res, deadline>>

\* OnRead: the client has closed the connection, it is lost, its request is no HTTP,
\* or the deadline has passed.
OnReadEnds(s) ==
  /\ op[s] = "reading"
  /\ Ends(s)
  /\ UNCHANGED proxyVars

\* A handler of the proxy that begins a step.
ProxyContinues(s) ==
  /\ Continues(s)
  /\ UNCHANGED sessionVars

\* A handler of the proxy that calls on_response_.
ProxyAnswers(s) ==
  /\ \E status \in Statuses : Answers(s, status) /\ SendResponse(s, status, keepAlive[s])
  /\ UNCHANGED inHand

\* Mutant: it reads again whatever was asked for.
OnWrittenReads(s) ==
  /\ op[s] = "writing"
  /\ DoRead(s)
  /\ UNCHANGED proxyVars

\* OnWrite: the answer is written.
OnWritten(s) ==
  /\ op[s] = "writing"
  /\ \/ res[s].keepAlive /\ DoRead(s)
     \/ ~res[s].keepAlive /\ Ends(s)
  /\ UNCHANGED proxyVars

\* OnWrite: the connection is lost, or the deadline has passed.
OnWriteFails(s) ==
  /\ op[s] = "writing"
  /\ Ends(s)
  /\ UNCHANGED proxyVars

DeadlinePasses(s) ==
  /\ deadline[s] = "set"
  /\ deadline' = [deadline EXCEPT ![s] = "passed"]
  /\ UNCHANGED <<proxyVars, op, inHand, res>>

\* Both deadlines are 30 seconds; the proxy's is set later.
ProxyIsLate(s) ==
  /\ deadline[s] = "passed"
  /\ ProxyDeadlinePasses(s)
  /\ UNCHANGED sessionVars

Next ==
  \E s \in Sessions :
    \/ OnAccept(s) \/ Run(s) \/ OnReadEnds(s) \/ \E r \in Requests : OnRead(s, r)
    \/ ProxyContinues(s) \/ ProxyAnswers(s)
    \/ OnWritten(s) \/ OnWriteFails(s)
    \/ DeadlinePasses(s) \/ ProxyIsLate(s)

\* Posted handlers run, deadlines pass, an operation whose deadline has passed ends,
\* and a name is resolved or not.  Neither clients nor the UI do anything of their own.
Fairness ==
  \A s \in Sessions :
    /\ WF_vars(Run(s))
    /\ WF_vars(DeadlinePasses(s)) /\ WF_vars(ProxyIsLate(s))
    /\ WF_vars(deadline[s] = "passed" /\ (OnReadEnds(s) \/ OnWriteFails(s)))
    /\ WF_vars(proxyDeadline[s] = "passed" /\ ProxyAnswers(s))
    /\ WF_vars(step[s] = "resolve" /\ (ProxyContinues(s) \/ ProxyAnswers(s)))

Safety == Init /\ [][Next]_vars

Spec == Safety /\ Fairness

-----------------------------------------------------------------------------
(* Properties. *)

\* One handler holds a session at a time: while it waits there is a proxy with a step
\* under way that will call back, and there is none when it reads or writes, which
\* the stream allows only once at a time (http_proxy.cpp:201-220, 268-284).
OneHandler ==
  \A s \in Sessions :
    /\ op[s] = "waiting" <=> step[s] # "none"
    /\ op[s] = "waiting" <=> onResponse[s]

\* An answer is one to the request that is in hand, and keeps the connection as that
\* asked for, through the copies that handlers and proxy hold (http_server.cpp:235-269,
\* http_proxy.cpp:35).
AnswersTheRequest ==
  \A s \in Sessions :
    op[s] = "writing" =>
      /\ res[s].keepAlive = inHand[s].keepAlive
      /\ IF Proxied(inHand[s]) THEN res[s].status \in {"relayed", "bad_gateway"}
                               ELSE res[s].status \in StatusesOf(inHand[s])

\* A step of a proxy that waits for somebody else has a deadline, also the shutdown,
\* which sets none (http_proxy.cpp:201-206, 331-338).
StepsHaveDeadlines ==
  \A s \in Sessions : step[s] \notin {"none", "resolve"} => proxyDeadline[s] # "none"

\* A session that nobody sends a request ends, or it gets one; no session reads for
\* ever (http_server.cpp:222-243).
NobodyReadsForEver == \A s \in Sessions : []<>(op[s] # "reading")

\* The session's promise, with a request that has been read in hand until its answer
\* is written.
Exchange == INSTANCE HttpExchange WITH
  open <- [s \in Sessions |-> op[s] # "none"],
  request <- inHand

ExchangeSpec == Exchange!Spec
=============================================================================
