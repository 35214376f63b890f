------------------------------ MODULE HttpProxy ------------------------------
(***************************************************************************)
(* src/src/http_proxy.{h,cpp}: the chain of asynchronous steps that passes *)
(* a request on to the Zakuro UI.  A session has at most one HttpProxy; it *)
(* lives from AsyncHandleRequest until no handler of it is pending, and    *)
(* every handler either begins the next step or calls on_response_.        *)
(*                                                                         *)
(* A handler is called because its step is done or because it has failed:  *)
(* these are two actions.  The deadline of its stream is the one of the    *)
(* last SetTimeout(), also for a step that does not call it; a step whose  *)
(* deadline has passed fails, if it is not done just then.  Resolving a    *)
(* name has no stream and no deadline.                                     *)
(*                                                                         *)
(* Left out: what is sent and received.  The limit of FinishResponse (10   *)
(* MB) never applies: the parser http::async_read uses has a limit of its  *)
(* own, 8 MB, and fails beyond it.                                         *)
(***************************************************************************)
CONSTANTS
  Sessions,  \* of the HTTP server; each has a proxy of its own
  Urls       \* what ui_remote_url may be: "http", "https", "other" (neither of both),
             \* "none" (no --ui)

ASSUME UrlsAssumption == Urls \subseteq {"http", "https", "other", "none"}

VARIABLES
  url,            \* ui_remote_url, the same for all sessions
  step,           \* of each proxy: the operation that is pending
  onResponse,     \* is on_response_ set?
  keepAlive,      \* keep_alive_ of the request
  proxyDeadline   \* of the stream: none, set, or passed

proxyVars == <<url, step, onResponse, keepAlive, proxyDeadline>>

Steps == {"resolve", "connect", "handshake", "write", "read", "shutdown"}

ProxyTypeOK ==
  /\ url \in Urls
  /\ step \in [Sessions -> Steps \union {"none"}]
  /\ onResponse \in [Sessions -> BOOLEAN]
  /\ keepAlive \in [Sessions -> BOOLEAN]
  /\ proxyDeadline \in [Sessions -> {"none", "set", "passed"}]

ProxyInit ==
  /\ url \in Urls
  /\ step = [s \in Sessions |-> "none"]
  /\ onResponse = [s \in Sessions |-> FALSE]
  /\ keepAlive = [s \in Sessions |-> FALSE]
  /\ proxyDeadline = [s \in Sessions |-> "none"]

ParseUrl(u) == u \in {"http", "https"}

use_ssl == url = "https"

\* Mutant: keep_alive_ keeps its default.
AsyncHandleRequestForgets(s, k) ==
  /\ ParseUrl(url)
  /\ step' = [step EXCEPT ![s] = "resolve"]
  /\ onResponse' = [onResponse EXCEPT ![s] = TRUE]
  /\ UNCHANGED <<url, keepAlive, proxyDeadline>>

\* A new HttpProxy handles a request with keep_alive k.
AsyncHandleRequest(s, k) ==
  /\ ParseUrl(url)
  /\ step' = [step EXCEPT ![s] = "resolve"]
  /\ onResponse' = [onResponse EXCEPT ![s] = TRUE]
  /\ keepAlive' = [keepAlive EXCEPT ![s] = k]
  /\ UNCHANGED <<url, proxyDeadline>>

-----------------------------------------------------------------------------
(* Handlers that begin the next step. *)

Begins(s, from, to) ==
  /\ step[s] = from
  /\ step' = [step EXCEPT ![s] = to]
  /\ UNCHANGED <<url, onResponse, keepAlive>>

SetTimeout(s) == proxyDeadline' = [proxyDeadline EXCEPT ![s] = "set"]

\* Mutant: connecting has no deadline.
OnResolveUntimed(s) == Begins(s, "resolve", "connect") /\ UNCHANGED proxyDeadline

OnResolve(s) == Begins(s, "resolve", "connect") /\ SetTimeout(s)

OnConnect(s) ==
  /\ Begins(s, "connect", IF use_ssl THEN "handshake" ELSE "write")
  /\ SetTimeout(s)

OnSslHandshake(s) == Begins(s, "handshake", "write") /\ SetTimeout(s)

OnWrite(s) == Begins(s, "write", "read") /\ SetTimeout(s)

\* The connection is shut down before the answer is passed on.
OnReadSsl(s) ==
  /\ use_ssl
  /\ Begins(s, "read", "shutdown")
  /\ UNCHANGED proxyDeadline

Continues(s) ==
  OnResolve(s) \/ OnConnect(s) \/ OnSslHandshake(s) \/ OnWrite(s) \/ OnReadSsl(s)

-----------------------------------------------------------------------------
(* Handlers that call on_response_. *)

\* on_response_ is called and cleared, and no step is begun: the object goes away.
Responds(s) ==
  /\ onResponse[s]
  /\ onResponse' = [onResponse EXCEPT ![s] = FALSE]
  /\ step' = [step EXCEPT ![s] = "none"]
  /\ keepAlive' = [keepAlive EXCEPT ![s] = FALSE]
  /\ proxyDeadline' = [proxyDeadline EXCEPT ![s] = "none"]
  /\ UNCHANGED url

\* Mutant: the connection is shut down after that as it is with TLS.
OnReadPlainGoesOn(s) ==
  /\ ~use_ssl /\ step[s] = "read"
  /\ onResponse[s]
  /\ onResponse' = [onResponse EXCEPT ![s] = FALSE]
  /\ step' = [step EXCEPT ![s] = "shutdown"]
  /\ UNCHANGED <<url, keepAlive, proxyDeadline>>

\* FinishResponse() at once.
OnReadPlain(s) ==
  /\ ~use_ssl /\ step[s] = "read"
  /\ Responds(s)

\* FinishResponse(), whether it was shut down or that has failed.
OnShutdown(s) ==
  /\ step[s] = "shutdown"
  /\ Responds(s)

\* A step fails.
SendErrorResponse(s) ==
  /\ step[s] \in Steps \ {"shutdown"}
  /\ Responds(s)

\* The status on_response_ is called with.
Answers(s, status) ==
  \/ (OnReadPlain(s) \/ OnShutdown(s)) /\ status = "relayed"
  \/ SendErrorResponse(s) /\ status = "bad_gateway"

-----------------------------------------------------------------------------

\* The stream's deadline passes.
ProxyDeadlinePasses(s) ==
  /\ proxyDeadline[s] = "set"
  /\ proxyDeadline' = [proxyDeadline EXCEPT ![s] = "passed"]
  /\ UNCHANGED <<url, step, onResponse, keepAlive>>
=============================================================================
