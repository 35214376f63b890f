-------------------------- MODULE HttpSessionProofs --------------------------
(***************************************************************************)
(* Proofs about HttpSession, for any number of sessions.                   *)
(***************************************************************************)
EXTENDS HttpSession, TLAPS

\* The request is in hand from when it is read until its answer is written.
InHand == \A s \in Sessions : inHand[s] # NoRequest <=> op[s] \in {"waiting", "writing"}

\* What waits for the proxy is a request for it, of which the proxy keeps keep_alive_.
ProxyRemembers ==
  \A s \in Sessions :
    op[s] = "waiting" => Proxied(inHand[s]) /\ keepAlive[s] = inHand[s].keepAlive

IInv ==
  /\ TypeOK
  /\ OneHandler
  /\ InHand
  /\ ProxyRemembers
  /\ AnswersTheRequest
  /\ StepsHaveDeadlines

\* No session exists when the server begins to accept.
LEMMA InitIInv == Init => IInv
  BY DEF Init, ProxyInit, IInv, TypeOK, ProxyTypeOK, OneHandler, InHand, ProxyRemembers,
         AnswersTheRequest, StepsHaveDeadlines

\* The parts of IInv only look at the variables.
LEMMA Stutter == IInv /\ UNCHANGED vars => IInv'
  BY DEF vars, proxyVars, sessionVars, IInv, TypeOK, ProxyTypeOK, OneHandler, InHand,
         ProxyRemembers, AnswersTheRequest, StepsHaveDeadlines, Proxied, StatusesOf, ParseUrl

-----------------------------------------------------------------------------
(* Steps of a session by itself. *)

\* A session that reads, or is gone, has nothing in hand.
LEMMA IdleIInv ==
  ASSUME IInv, NEW s \in Sessions, op[s] # "waiting", DoRead(s) \/ Ends(s),
         UNCHANGED proxyVars
  PROVE  IInv'
  <1> USE DEF IInv, DoRead, Ends, proxyVars
  <1>1. TypeOK'
    BY DEF TypeOK, ProxyTypeOK
  <1>2. OneHandler' /\ StepsHaveDeadlines'
    BY DEF TypeOK, OneHandler, StepsHaveDeadlines
  <1>3. InHand'
    BY DEF TypeOK, InHand
  <1>4. ProxyRemembers' /\ AnswersTheRequest'
    BY DEF TypeOK, ProxyRemembers, AnswersTheRequest, Proxied, StatusesOf, ParseUrl
  <1> QED BY <1>1, <1>2, <1>3, <1>4

\* A request that has been read is in hand, and answered with its own keepAlive or
\* given to the proxy together with it (http_server.cpp:235-255).
LEMMA OnReadIInv ==
  ASSUME IInv, NEW s \in Sessions, NEW r \in Requests, OnRead(s, r)
  PROVE  IInv'
  <1> USE DEF IInv
  <1>1. r.keepAlive \in BOOLEAN /\ r # NoRequest
    BY NoRequestAssumption DEF Requests
  <1>2. CASE ~Proxied(r)
    <2>1. PICK status \in StatusesOf(r) : SendResponse(s, status, r.keepAlive)
      BY <1>2 DEF OnRead
    <2>2. UNCHANGED proxyVars /\ inHand' = [inHand EXCEPT ![s] = r] /\ op[s] = "reading"
      BY <1>2 DEF OnRead
    <2> USE <2>1, <2>2 DEF SendResponse, proxyVars
    <2>3. status \in Statuses
      BY DEF StatusesOf, Statuses
    <2>4. TypeOK'
      BY <1>1, <2>3 DEF TypeOK, ProxyTypeOK, Responses
    <2>5. OneHandler' /\ StepsHaveDeadlines'
      BY DEF TypeOK, OneHandler, StepsHaveDeadlines
    <2>6. InHand' /\ ProxyRemembers'
      BY <1>1 DEF TypeOK, InHand, ProxyRemembers, Proxied, ParseUrl
    <2>7. AnswersTheRequest'
      BY <1>2 DEF TypeOK, AnswersTheRequest, Proxied, StatusesOf, ParseUrl
    <2> QED BY <2>4, <2>5, <2>6, <2>7
  <1>3. CASE Proxied(r)
    <2> USE <1>3 DEF OnRead, AsyncHandleRequest
    <2>1. TypeOK'
      BY <1>1 DEF TypeOK, ProxyTypeOK, Steps
    <2>2. OneHandler' /\ StepsHaveDeadlines'
      BY DEF TypeOK, ProxyTypeOK, OneHandler, StepsHaveDeadlines
    <2>3. InHand' /\ ProxyRemembers'
      BY <1>1 DEF TypeOK, ProxyTypeOK, InHand, ProxyRemembers, Proxied, ParseUrl
    <2>4. AnswersTheRequest'
      BY DEF TypeOK, AnswersTheRequest, Proxied, StatusesOf, ParseUrl
    <2> QED BY <2>1, <2>2, <2>3, <2>4
  <1> QED BY <1>2, <1>3

-----------------------------------------------------------------------------
(* Steps of a proxy. *)

\* A step is followed by another, with a deadline (http_proxy.cpp:71-206).
LEMMA ProxyContinuesIInv ==
  ASSUME IInv, NEW s \in Sessions, ProxyContinues(s)
  PROVE  IInv'
  <1> USE DEF IInv, ProxyContinues, sessionVars
  <1>1. PICK from \in Steps, to \in Steps : Begins(s, from, to)
    BY DEF Continues, OnResolve, OnConnect, OnSslHandshake, OnWrite, OnReadSsl, Steps
  <1>2. \/ SetTimeout(s)
        \/ UNCHANGED proxyDeadline /\ step[s] = "read"
    BY DEF Continues, OnResolve, OnConnect, OnSslHandshake, OnWrite, OnReadSsl, Begins
  <1> USE DEF Begins
  <1>3. TypeOK'
    BY <1>1, <1>2 DEF TypeOK, ProxyTypeOK, SetTimeout
  <1>4. OneHandler'
    BY <1>1 DEF TypeOK, ProxyTypeOK, OneHandler, Steps
  <1>5. StepsHaveDeadlines'
    BY <1>1, <1>2 DEF TypeOK, ProxyTypeOK, StepsHaveDeadlines, SetTimeout
  <1>6. InHand' /\ ProxyRemembers' /\ AnswersTheRequest'
    BY <1>1 DEF InHand, ProxyRemembers, AnswersTheRequest, Proxied, StatusesOf, ParseUrl
  <1> QED BY <1>3, <1>4, <1>5, <1>6

\* The callback is called once, by a proxy that ends, and writes the answer to the
\* request for which the session waits (http_proxy.cpp:207-284).
LEMMA ProxyAnswersIInv ==
  ASSUME IInv, NEW s \in Sessions, ProxyAnswers(s)
  PROVE  IInv'
  <1> USE DEF IInv, ProxyAnswers
  <1>1. PICK status \in Statuses : Answers(s, status) /\ SendResponse(s, status, keepAlive[s])
    OBVIOUS
  <1>2. Responds(s) /\ status \in {"relayed", "bad_gateway"}
    BY <1>1 DEF Answers, OnReadPlain, OnShutdown, SendErrorResponse
  <1> USE <1>1, <1>2 DEF Responds, SendResponse
  <1>3. op[s] = "waiting" /\ Proxied(inHand[s]) /\ keepAlive[s] = inHand[s].keepAlive
    BY DEF OneHandler, ProxyRemembers
  <1>4. TypeOK'
    BY DEF TypeOK, ProxyTypeOK, Responses
  <1>5. OneHandler' /\ StepsHaveDeadlines'
    BY DEF TypeOK, ProxyTypeOK, OneHandler, StepsHaveDeadlines
  <1>6. InHand'
    BY <1>3 DEF TypeOK, ProxyTypeOK, InHand
  <1>7. ProxyRemembers'
    <2>1. \A t \in Sessions : op'[t] = "waiting" =>
            op[t] = "waiting" /\ inHand'[t] = inHand[t] /\ keepAlive'[t] = keepAlive[t]
      BY DEF TypeOK, ProxyTypeOK
    <2>2. \A t \in Sessions : op[t] = "waiting" =>
            Proxied(inHand[t]) /\ keepAlive[t] = inHand[t].keepAlive
      BY DEF ProxyRemembers
    <2> QED BY <2>1, <2>2 DEF ProxyRemembers, Proxied
  <1>8. AnswersTheRequest'
    BY <1>3 DEF TypeOK, ProxyTypeOK, AnswersTheRequest, Proxied, StatusesOf, ParseUrl
  <1> QED BY <1>4, <1>5, <1>6, <1>7, <1>8

-----------------------------------------------------------------------------

\* Every step keeps the inductive invariant.
LEMMA NextIInv == IInv /\ [Next]_vars => IInv'
  <1> SUFFICES ASSUME IInv, NEW s \in Sessions,
                      \/ OnAccept(s) \/ Run(s) \/ OnReadEnds(s) \/ \E r \in Requests : OnRead(s, r)
                      \/ ProxyContinues(s) \/ ProxyAnswers(s)
                      \/ OnWritten(s) \/ OnWriteFails(s)
                      \/ DeadlinePasses(s) \/ ProxyIsLate(s)
               PROVE  IInv'
    BY Stutter DEF Next
  <1>1. CASE OnAccept(s)
    BY <1>1 DEF OnAccept, proxyVars, IInv, TypeOK, ProxyTypeOK, OneHandler, InHand,
                ProxyRemembers, AnswersTheRequest, StepsHaveDeadlines, Proxied, StatusesOf, ParseUrl
  <1>2. CASE Run(s) \/ OnReadEnds(s) \/ OnWritten(s) \/ OnWriteFails(s)
    BY <1>2, IdleIInv DEF Run, OnReadEnds, OnWritten, OnWriteFails
  <1>3. CASE \E r \in Requests : OnRead(s, r)
    BY <1>3, OnReadIInv
  <1>4. CASE ProxyContinues(s)
    BY <1>4, ProxyContinuesIInv
  <1>5. CASE ProxyAnswers(s)
    BY <1>5, ProxyAnswersIInv
  <1>6. CASE DeadlinePasses(s)
    BY <1>6 DEF DeadlinePasses, proxyVars, IInv, TypeOK, ProxyTypeOK, OneHandler, InHand,
                ProxyRemembers, AnswersTheRequest, StepsHaveDeadlines, Proxied, StatusesOf, ParseUrl
  <1>7. CASE ProxyIsLate(s)
    BY <1>7 DEF ProxyIsLate, ProxyDeadlinePasses, sessionVars, IInv, TypeOK, ProxyTypeOK,
                OneHandler, InHand, ProxyRemembers, AnswersTheRequest, StepsHaveDeadlines,
                Proxied, StatusesOf, ParseUrl
  <1> QED BY <1>1, <1>2, <1>3, <1>4, <1>5, <1>6, <1>7

\* The inductive invariant holds in every reachable state.
THEOREM Inductive == Spec => []IInv
  BY InitIInv, NextIInv, PTL DEF Spec, Safety

-----------------------------------------------------------------------------

\* Every variable has its type.
THEOREM TypeCorrectness == Spec => []TypeOK
  <1>1. IInv => TypeOK
    BY DEF IInv
  <1> QED BY <1>1, Inductive, PTL

\* A session has one handler under way, its own or its proxy's, and the proxy calls
\* back once (http_proxy.cpp:201-220, 268-284).
THEOREM OneHandlerEach == Spec => []OneHandler
  <1>1. IInv => OneHandler
    BY DEF IInv
  <1> QED BY <1>1, Inductive, PTL

\* The answer that is written belongs to the request in hand (http_server.cpp:235-269).
THEOREM AnswersBelong == Spec => []AnswersTheRequest
  <1>1. IInv => AnswersTheRequest
    BY DEF IInv
  <1> QED BY <1>1, Inductive, PTL

\* No step of a proxy waits for the UI without a deadline (http_proxy.cpp:331-338).
THEOREM DeadlinesSet == Spec => []StepsHaveDeadlines
  <1>1. IInv => StepsHaveDeadlines
    BY DEF IInv
  <1> QED BY <1>1, Inductive, PTL

-----------------------------------------------------------------------------
(* Refinement. *)

\* No connection is open when the server begins to accept.
LEMMA InitExchange == Init => Exchange!Init
  BY DEF Init, Exchange!Init

\* Every step is one of the exchange or changes nothing of it.
LEMMA NextExchange == IInv /\ [Next]_vars => [Exchange!Next]_Exchange!vars
  <1> SUFFICES ASSUME IInv, [Next]_vars PROVE [Exchange!Next]_Exchange!vars
    OBVIOUS
  <1> USE DEF IInv, Exchange!vars
  <1>1. ASSUME NEW s \in Sessions, OnAccept(s) PROVE Exchange!Opens(s)
    BY <1>1 DEF OnAccept, Exchange!Opens, TypeOK
  <1>2. ASSUME NEW s \in Sessions, Run(s) PROVE UNCHANGED Exchange!vars
    BY <1>2 DEF Run, DoRead, TypeOK, InHand
  <1>3. ASSUME NEW s \in Sessions, NEW r \in Requests, OnRead(s, r) PROVE Exchange!Receives(s, r)
    BY <1>3 DEF OnRead, SendResponse, Exchange!Receives, TypeOK, InHand
  <1>4. ASSUME NEW s \in Sessions, OnReadEnds(s) \/ OnWriteFails(s) PROVE Exchange!Drops(s)
    BY <1>4 DEF OnReadEnds, OnWriteFails, Ends, Exchange!Drops, TypeOK
  <1>5. ASSUME NEW s \in Sessions, OnWritten(s) PROVE Exchange!Answers(s)
    <2>1. op[s] = "writing" /\ inHand[s] # NoRequest /\ inHand[s].keepAlive = res[s].keepAlive
      BY <1>5 DEF OnWritten, InHand, AnswersTheRequest
    <2>2. inHand[s].keepAlive \in BOOLEAN
      BY <2>1 DEF TypeOK, Requests
    <2>3. CASE res[s].keepAlive /\ DoRead(s)
      BY <2>1, <2>2, <2>3 DEF DoRead, Exchange!Answers, TypeOK
    <2>4. CASE ~res[s].keepAlive /\ Ends(s)
      BY <2>1, <2>2, <2>4 DEF Ends, Exchange!Answers, TypeOK
    <2> QED BY <1>5, <2>3, <2>4 DEF OnWritten
  <1>6. ASSUME NEW s \in Sessions, ProxyContinues(s) \/ DeadlinePasses(s) \/ ProxyIsLate(s)
        PROVE  UNCHANGED Exchange!vars
    BY <1>6 DEF ProxyContinues, DeadlinePasses, ProxyIsLate, sessionVars
  <1>7. ASSUME NEW s \in Sessions, ProxyAnswers(s) PROVE UNCHANGED Exchange!vars
    <2>1. onResponse[s]
      BY <1>7 DEF ProxyAnswers, Answers, OnReadPlain, OnShutdown, SendErrorResponse, Responds
    <2>2. op[s] = "waiting"
      BY <2>1 DEF OneHandler
    <2> QED BY <1>7, <2>2 DEF ProxyAnswers, SendResponse, TypeOK
  <1>8. ASSUME UNCHANGED vars PROVE UNCHANGED Exchange!vars
    BY <1>8 DEF vars, sessionVars
  <1> QED BY <1>1, <1>2, <1>3, <1>4, <1>5, <1>6, <1>7, <1>8 DEF Next, Exchange!Next

\* A session answers each request once, in order, or gives up its connection, and
\* keeps it otherwise exactly if it was asked to.
THEOREM ImplementsExchange == Safety => Exchange!Safety
  <1>1. Safety => []IInv
    BY InitIInv, NextIInv, PTL DEF Safety
  <1> QED BY <1>1, InitExchange, NextExchange, PTL DEF Safety, Exchange!Safety
=============================================================================
