------------------------------ MODULE JsonRpc ------------------------------
(***************************************************************************)
(* src/src/json_rpc.cpp and HandleJsonRpcRequest of src/src/http_server.cpp*)
(* (159-208): what a POST to /rpc is answered.                             *)
(*                                                                         *)
(* A body is not JSON, is JSON but no object, or is an object with three   *)
(* members, each of them absent, wrong or right.  HttpSession has the      *)
(* session around it and calls its two outcomes "rpc".                     *)
(***************************************************************************)
CONSTANT Ids  \* numbers and strings that identify a request

Null == "null"
Absent == "absent"
NotAnId == "not an id"

ASSUME IdsAssumption == Null \notin Ids /\ Absent \notin Ids /\ NotAnId \notin Ids

Objects == [kind : {"object"}, id : Ids \union {Null, Absent, NotAnId},
            jsonrpc : {Absent, "wrong", "2.0"}, method : {Absent, "wrong", "GetVersion", "other"}]

Bodies == {[kind |-> "not JSON"], [kind |-> "no object"]} \union Objects

VARIABLES
  body,    \* of the request
  answer   \* the response, once there is one

rpcVars == <<body, answer>>

Pending == [status |-> "none"]

RpcStart(b) == body = b /\ answer = Pending

RpcInit == \E b \in Bodies : RpcStart(b)

-----------------------------------------------------------------------------
\* The codes -32700, -32600 and -32601.
ParseError == "Parse error"
InvalidRequest == "Invalid Request"
MethodNotFound == "Method not found"

\* CreateErrorResponse and CreateSuccessResponse.
Error(id, code) == [id |-> id, code |-> code]
Success(id) == [id |-> id, result |-> "versions"]

Nullopt == [none |-> TRUE]

\* Every way out of Process that comes after the id.
Unless(notification, response) == IF notification THEN Nullopt ELSE response

\* Mutant: the member jsonrpc is looked at before the id is.
ProcessVersionFirst(r) ==
  CASE r.kind # "object" -> Error(Null, InvalidRequest)
    [] r.jsonrpc # "2.0" -> Error(Null, InvalidRequest)
    [] r.id = NotAnId -> Error(Null, InvalidRequest)
    [] r.method \in {Absent, "wrong"} -> Unless(r.id = Absent, Error(r.id, InvalidRequest))
    [] r.method = "GetVersion" -> Unless(r.id = Absent, Success(r.id))
    [] OTHER -> Unless(r.id = Absent, Error(r.id, MethodNotFound))

\* Process(): nothing that it calls throws.
Process(r) ==
  LET Answer(response) == Unless(r.id = Absent, response) IN
    CASE r.kind # "object" -> Error(Null, InvalidRequest)
      [] r.kind = "object" /\ r.id = NotAnId -> Error(Null, InvalidRequest)
      [] OTHER ->
           IF r.jsonrpc # "2.0" \/ r.method \in {Absent, "wrong"} 
           THEN Answer(Error(r.id, InvalidRequest))
           ELSE IF r.method = "GetVersion" THEN Answer(Success(r.id))
           ELSE Answer(Error(r.id, MethodNotFound))

\* The response with its status: no_content, without a body, for a notification.
Respond(b) ==
  IF b.kind = "not JSON" THEN [status |-> "ok", body |-> Error(Null, ParseError)]
  ELSE IF Process(b) = Nullopt THEN [status |-> "no_content"]
  ELSE [status |-> "ok", body |-> Process(b)]

HandleJsonRpcRequest ==
  /\ answer = Pending
  /\ answer' = Respond(body)
  /\ UNCHANGED body

RpcNext == HandleJsonRpcRequest

RpcSpec == RpcInit /\ [][RpcNext]_rpcVars

-----------------------------------------------------------------------------
(* Properties. *)

Has(r, f) == f \in DOMAIN r

\* Can the id of the request be told?
IdIsKnown == body.kind = "object" /\ body.id \notin {Absent, NotAnId}

\* A notification gets no body, however wrong the rest of it is; every other request gets
\* exactly one of a result and an error, with the id of that request whenever it has one,
\* and a result exactly if it is a right call of GetVersion; without an id to tell, the
\* error has null and says whether the text or the request is at fault (json_rpc.cpp:24-40,
\* RPC.md:41-67).
RpcAnswers ==
  answer # Pending =>
    LET notification == body.kind = "object" /\ body.id = Absent
        r == answer.body
    IN  /\ answer.status = "no_content" <=> notification
        /\ Has(answer, "body") <=> ~notification
        /\ ~notification =>
             /\ Has(r, "result") <=> ~Has(r, "code")
             /\ r.id = IF IdIsKnown THEN body.id ELSE Null
             /\ Has(r, "result") <=>
                  IdIsKnown /\ body.jsonrpc = "2.0" /\ body.method = "GetVersion"
             /\ Has(r, "code") =>
                  /\ r.code = ParseError <=> body.kind = "not JSON"
                  /\ r.code = MethodNotFound <=>
                       IdIsKnown /\ body.jsonrpc = "2.0" /\ body.method = "other"
=============================================================================
