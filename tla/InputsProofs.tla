----------------------------- MODULE InputsProofs -----------------------------
(***************************************************************************)
(* What the readers of JsonRpc, BinaryPool, DataChannels, WavReader and    *)
(* Options promise for every input.                                        *)
(***************************************************************************)
EXTENDS Options, JsonRpc, DataChannels, WavReader, WellFoundedInduction, SequenceTheorems, TLAPS

-----------------------------------------------------------------------------
(* JSON-RPC. *)

\* What the answer is, by the first thing that Process finds.
Good(b) == b.jsonrpc = "2.0" /\ b.method \notin {Absent, "wrong"}

WithBody(response) == [status |-> "ok", body |-> response]

-----------------------------------------------------------------------------
\* No response is mistaken for the lack of one.
LEMMA ResponsesAreNotNullopt ==
  ASSUME NEW id, NEW code
  PROVE  Error(id, code) # Nullopt /\ Success(id) # Nullopt
<1>1. DOMAIN Error(id, code) = {"id", "code"} /\ DOMAIN Success(id) = {"id", "result"}
  BY DEF Error, Success
<1>2. DOMAIN Nullopt = {"none"}
  BY DEF Nullopt
<1> QED BY <1>1, <1>2

\* Before the id is known, the error has null.
LEMMA RespondsWithoutId ==
  ASSUME NEW b \in Bodies
  PROVE  /\ b.kind = "not JSON" => Respond(b) = WithBody(Error(Null, ParseError))
         /\ b.kind = "no object" => Respond(b) = WithBody(Error(Null, InvalidRequest))
         /\ b.kind = "object" /\ b.id = NotAnId => Respond(b) = WithBody(Error(Null, InvalidRequest))
<1>1. ASSUME b.kind = "not JSON" PROVE Respond(b) = WithBody(Error(Null, ParseError))
  BY <1>1, Zenon DEF Respond, WithBody
<1>2. ASSUME \/ b.kind = "no object"
             \/ b.kind = "object" /\ b.id = NotAnId
      PROVE  Respond(b) = WithBody(Error(Null, InvalidRequest))
  <2>1. Process(b) = Error(Null, InvalidRequest)
    BY <1>2, Zenon DEF Process
  <2> QED BY <1>2, <2>1, ResponsesAreNotNullopt, Zenon DEF Respond, WithBody
<1> QED BY <1>1, <1>2

\* Everything after it depends on whether the request has one.
LEMMA RespondsWithId ==
  ASSUME NEW b \in Bodies, b.kind = "object", b.id # NotAnId
  PROVE  /\ b.id = Absent => Respond(b) = [status |-> "no_content"]
         /\ b.id # Absent =>
              Respond(b) = WithBody(IF ~Good(b) THEN Error(b.id, InvalidRequest)
                                    ELSE IF b.method = "GetVersion" THEN Success(b.id)
                                    ELSE Error(b.id, MethodNotFound))
<1>1. CASE b.id = Absent
  <2>1. Process(b) = Nullopt
    BY <1>1 DEF Process, Unless
  <2> QED BY <1>1, <2>1 DEF Respond
<1>2. CASE b.id # Absent
  <2>1. Process(b) = IF ~Good(b) THEN Error(b.id, InvalidRequest)
                     ELSE IF b.method = "GetVersion" THEN Success(b.id)
                     ELSE Error(b.id, MethodNotFound)
    BY <1>2 DEF Process, Unless, Good
  <2>2. Process(b) # Nullopt
    BY <2>1, ResponsesAreNotNullopt
  <2> QED BY <1>2, <2>1, <2>2 DEF Respond, WithBody
<1> QED BY <1>1, <1>2

LEMMA BodyKinds ==
  ASSUME NEW b \in Bodies
  PROVE  \/ b.kind = "not JSON" \/ b.kind = "no object"
         \/ /\ b.kind = "object"
            /\ b.jsonrpc \in {Absent, "wrong", "2.0"}
            /\ b.method \in {Absent, "wrong", "GetVersion", "other"}
<1>1. CASE b = [kind |-> "not JSON"]
  BY <1>1
<1>2. CASE b = [kind |-> "no object"]
  BY <1>2
<1>3. CASE b \in Objects
  BY <1>3 DEF Objects
<1> QED BY <1>1, <1>2, <1>3 DEF Bodies

-----------------------------------------------------------------------------
\* The request stays what it was, and what answers it is the response to it.
RpcIInv == body \in Bodies /\ (answer # Pending => answer = Respond(body))

LEMMA RpcInductive == RpcIInv /\ [RpcNext]_rpcVars => RpcIInv'
  BY DEF RpcIInv, RpcNext, HandleJsonRpcRequest, rpcVars

\* Is the answer this error, or the versions?
IsError(id, code) ==
  /\ answer.status = "ok" /\ Has(answer, "body")
  /\ ~Has(answer.body, "result") /\ Has(answer.body, "code")
  /\ answer.body.id = id /\ answer.body.code = code

IsSuccess(id) ==
  /\ answer.status = "ok" /\ Has(answer, "body")
  /\ Has(answer.body, "result") /\ ~Has(answer.body, "code")
  /\ answer.body.id = id

LEMMA ErrorParts ==
  ASSUME NEW id, NEW code, answer = WithBody(Error(id, code)) PROVE IsError(id, code)
  BY DEF WithBody, Error, Has, IsError

LEMMA SuccessParts == ASSUME NEW id, answer = WithBody(Success(id)) PROVE IsSuccess(id)
  BY DEF WithBody, Success, Has, IsSuccess

LEMMA AnswersFollow == RpcIInv => RpcAnswers
<1> SUFFICES ASSUME RpcIInv, answer # Pending PROVE RpcAnswers
  BY DEF RpcAnswers
<1>1. body \in Bodies /\ answer = Respond(body)
  BY DEF RpcIInv
<1>2. CASE body.kind = "not JSON"
  <2>1. answer = WithBody(Error(Null, ParseError))
    BY <1>1, <1>2, RespondsWithoutId
  <2>2. IsError(Null, ParseError)
    BY <2>1, ErrorParts
  <2> QED BY <1>2, <2>2 DEF RpcAnswers, IdIsKnown, IsError, ParseError, MethodNotFound
<1>3. CASE body.kind = "no object" \/ (body.kind = "object" /\ body.id = NotAnId)
  <2>1. answer = WithBody(Error(Null, InvalidRequest))
    BY <1>1, <1>3, RespondsWithoutId
  <2>2. IsError(Null, InvalidRequest)
    BY <2>1, ErrorParts
  <2> QED BY <1>3, <2>2 DEF RpcAnswers, IdIsKnown, IsError, ParseError, InvalidRequest,
                            MethodNotFound, Absent, NotAnId
<1>4. CASE body.kind = "object" /\ body.id = Absent
  <2>1. answer = [status |-> "no_content"]
    BY <1>1, <1>4, RespondsWithId DEF Absent, NotAnId
  <2>2. answer.status = "no_content" /\ ~Has(answer, "body")
    BY <2>1 DEF Has
  <2> QED BY <1>4, <2>2 DEF RpcAnswers
<1>5. CASE body.kind = "object" /\ body.id \notin {NotAnId, Absent}
  <2>1. answer = WithBody(IF ~Good(body) THEN Error(body.id, InvalidRequest)
                          ELSE IF body.method = "GetVersion" THEN Success(body.id)
                          ELSE Error(body.id, MethodNotFound))
    BY <1>1, <1>5, RespondsWithId
  <2>2. IdIsKnown
    BY <1>5 DEF IdIsKnown
  <2>3. CASE ~Good(body)
    <3>1. answer = WithBody(Error(body.id, InvalidRequest))
      BY <2>1, <2>3
    <3>2. IsError(body.id, InvalidRequest)
      BY <3>1, ErrorParts
    <3> QED BY <1>5, <2>2, <2>3, <3>2 DEF RpcAnswers, IsError, Good, ParseError,
                                          InvalidRequest, MethodNotFound, Absent
  <2>4. CASE Good(body) /\ body.method = "GetVersion"
    <3>1. answer = WithBody(Success(body.id))
      BY <2>1, <2>4
    <3>2. IsSuccess(body.id)
      BY <3>1, SuccessParts
    <3> QED BY <1>5, <2>2, <2>4, <3>2 DEF RpcAnswers, IsSuccess, Good, Absent
  <2>5. CASE Good(body) /\ body.method # "GetVersion"
    <3>1. answer = WithBody(Error(body.id, MethodNotFound))
      BY <2>1, <2>5
    <3>2. IsError(body.id, MethodNotFound)
      BY <3>1, ErrorParts
    <3>3. body.method = "other"
      BY <1>1, <1>5, <2>5, BodyKinds DEF Good
    <3> QED BY <1>5, <2>2, <2>5, <3>2, <3>3 DEF RpcAnswers, IsError, Good, ParseError,
                                                MethodNotFound, Absent
  <2> QED BY <2>3, <2>4, <2>5
<1> QED BY <1>1, <1>2, <1>3, <1>4, <1>5, BodyKinds

\* Every request but a notification is answered with its id and a result or an error, and
\* a notification with nothing, whatever identifies the requests (json_rpc.cpp:11-86).
THEOREM AnswersAreRight == RpcSpec => []RpcAnswers
<1>1. RpcInit => RpcIInv
  BY DEF RpcInit, RpcStart, RpcIInv
<1> QED BY <1>1, RpcInductive, AnswersFollow, PTL DEF RpcSpec

-----------------------------------------------------------------------------
(* The pool. *)

Indices == 0 .. PoolSize - 1

\* The variables keep their types.
PoolTypeOK ==
  /\ getting \in BOOLEAN
  /\ size \in Nat /\ pos \in Nat /\ asked \in Nat /\ from \in Nat
  /\ r \in Seq(Indices)

\* What has been copied and what is still to be copied add up to what was drawn.
Progress == asked = size + Len(r) /\ pos = from + Len(r)

\* What has been copied is right so far.
CopiedRight == \A k \in 1 .. Len(r) : r[k] = (from + k - 1) % PoolSize

PoolIInv == PoolTypeOK /\ (getting => Progress /\ CopiedRight)

-----------------------------------------------------------------------------
(* Division. *)

LEMMA Euclid ==
  ASSUME NEW x \in Nat
  PROVE  /\ x = PoolSize * (x \div PoolSize) + (x % PoolSize)
         /\ x % PoolSize \in Indices /\ x \div PoolSize \in Int
  BY PoolAssumption, Z3 DEF Indices

LEMMA Multiples ==
  ASSUME NEW a \in Int, NEW b \in Int, a < b
  PROVE  PoolSize * a + PoolSize <= PoolSize * b
  <1>1. b - a - 1 \in Nat
    OBVIOUS
  <1>2. \A d \in Nat : PoolSize * d >= 0
    BY PoolAssumption, Z3
  <1>3. PoolSize * (b - a - 1) >= 0
    BY <1>1, <1>2
  <1>4. PoolSize * (b - a - 1) = PoolSize * b - PoolSize * a - PoolSize
    BY PoolAssumption, Z3
  <1> QED BY <1>3, <1>4, PoolAssumption, Z3

\* A number has one remainder only.
LEMMA OneRemainder ==
  ASSUME NEW a \in Int, NEW b \in Int, NEW m \in Indices, NEW n \in Indices,
         PoolSize * a + m = PoolSize * b + n
  PROVE  m = n
  <1>1. PoolSize * a \in Int /\ PoolSize * b \in Int /\ m \in Nat /\ n \in Nat
    BY PoolAssumption, Z3 DEF Indices
  <1>2. CASE a < b
    <2>1. PoolSize * a + PoolSize <= PoolSize * b
      BY <1>2, Multiples
    <2> QED BY <1>1, <2>1, PoolAssumption DEF Indices
  <1>3. CASE b < a
    <2>1. PoolSize * b + PoolSize <= PoolSize * a
      BY <1>3, Multiples
    <2> QED BY <1>1, <2>1, PoolAssumption DEF Indices
  <1>4. CASE a = b
    BY <1>1, <1>4
  <1> QED BY <1>2, <1>3, <1>4

\* Up to the end of the pool, to go on from a position is to go on from where it starts
\* (binary_pool.h:34-36).
LEMMA WithinThePool ==
  ASSUME NEW p \in Nat, NEW j \in Nat, (p % PoolSize) + j < PoolSize
  PROVE  (p + j) % PoolSize = (p % PoolSize) + j
  <1>1. /\ p = PoolSize * (p \div PoolSize) + (p % PoolSize)
        /\ p % PoolSize \in Indices /\ p \div PoolSize \in Int
    BY Euclid
  <1>2. p + j \in Nat
    OBVIOUS
  <1>3. /\ p + j = PoolSize * ((p + j) \div PoolSize) + ((p + j) % PoolSize)
        /\ (p + j) % PoolSize \in Indices /\ (p + j) \div PoolSize \in Int
    BY <1>2, Euclid
  <1>4. (p % PoolSize) + j \in Indices
    BY <1>1, PoolAssumption DEF Indices
  <1>5. PoolSize * (p \div PoolSize) \in Int
    BY <1>1, PoolAssumption, Z3
  <1>6. p + j = PoolSize * (p \div PoolSize) + ((p % PoolSize) + j)
    BY <1>1, <1>5 DEF Indices
  <1> HIDE DEF Indices
  <1> QED BY <1>1, <1>3, <1>4, <1>6, OneRemainder

-----------------------------------------------------------------------------
(* The steps. *)

LEMMA Appended ==
  ASSUME NEW S, NEW s \in Seq(S), NEW t \in Seq(S)
  PROVE  s \o t \in Seq(S) /\ Len(s \o t) = Len(s) + Len(t)
  OBVIOUS

LEMMA InitPoolIInv == PoolInit => PoolIInv
  <1> SUFFICES ASSUME PoolInit PROVE PoolIInv
    OBVIOUS
  <1>1. r \in Seq(Indices)
    BY DEF PoolInit
  <1> QED BY <1>1 DEF PoolInit, PoolIInv, PoolTypeOK

LEMMA GetIInv ==
  ASSUME PoolIInv, NEW min \in Nat, NEW max \in Nat, Get(min, max)
  PROVE  PoolIInv'
  <1>1. PICK s \in min .. max, p \in Indices :
          size' = s /\ asked' = s /\ pos' = p /\ from' = p
    BY DEF Get, Indices
  <1>2. getting' = TRUE /\ r' = << >>
    BY DEF Get
  <1>3. PoolTypeOK'
    BY <1>1, <1>2 DEF PoolTypeOK, Indices
  <1> QED BY <1>1, <1>2, <1>3 DEF PoolIInv, Progress, CopiedRight, Indices

LEMMA CopiesIInv == PoolIInv /\ Copies => PoolIInv'
  <1> SUFFICES ASSUME PoolIInv, Copies PROVE PoolIInv'
    OBVIOUS
  <1> DEFINE start == pos % PoolSize
             n == PieceFrom(start)
             piece == [k \in 1 .. n |-> start + k - 1]
  <1>1. PoolTypeOK /\ Progress /\ CopiedRight
    BY DEF PoolIInv, Copies
  <1>2. start \in Indices
    BY <1>1, Euclid DEF PoolTypeOK
  <1>3. n \in Nat /\ n <= size /\ start + n <= PoolSize
    BY <1>1, <1>2, PoolAssumption DEF PoolTypeOK, PieceFrom, Indices, Copies
  <1>4. piece \in Seq(Indices) /\ Len(piece) = n
    <2>1. \A k \in 1 .. n : start + k - 1 \in Indices
      BY <1>2, <1>3, PoolAssumption DEF Indices
    <2> HIDE DEF n, start
    <2> QED BY <1>3, <2>1
  <1>5. r' = r \o piece /\ pos' = pos + n /\ size' = size - n
        /\ UNCHANGED <<getting, asked, from>>
    BY DEF Copies
  <1> HIDE DEF n, piece
  <1>6. r' \in Seq(Indices) /\ Len(r') = Len(r) + n
    BY <1>1, <1>4, <1>5, Appended DEF PoolTypeOK
  <1>7. PoolTypeOK' /\ Progress'
    BY <1>1, <1>3, <1>5, <1>6 DEF PoolTypeOK, Progress
  <1>8. CopiedRight'
    <2> SUFFICES ASSUME NEW k \in 1 .. Len(r') PROVE r'[k] = (from + k - 1) % PoolSize
      BY <1>5 DEF CopiedRight
    <2>1. CASE k <= Len(r)
      BY <1>1, <1>4, <1>5, <2>1 DEF PoolTypeOK, CopiedRight
    <2>2. CASE k > Len(r)
      <3> DEFINE j == k - Len(r) - 1
      <3>1. j \in Nat /\ j + 1 \in 1 .. n /\ from + k - 1 = pos + j
        BY <1>1, <1>3, <1>6, <2>2 DEF PoolTypeOK, Progress
      <3>2. r'[k] = piece[j + 1]
        BY <1>1, <1>4, <1>5, <1>6, <2>2 DEF PoolTypeOK
      <3>3. piece[j + 1] = start + j
        BY <1>2, <3>1 DEF piece, Indices
      <3>4. start + j < PoolSize
        BY <1>2, <1>3, <3>1, PoolAssumption DEF Indices
      <3>5. (pos + j) % PoolSize = start + j
        BY <1>1, <3>1, <3>4, WithinThePool DEF PoolTypeOK
      <3> QED BY <3>1, <3>2, <3>3, <3>5
    <2> QED BY <1>1, <1>6, <2>1, <2>2 DEF PoolTypeOK
  <1> QED BY <1>7, <1>8 DEF PoolIInv

LEMMA ReturnsIInv == PoolIInv /\ Returns => PoolIInv'
  BY DEF PoolIInv, Returns, PoolTypeOK

LEMMA IdlePoolIInv == PoolIInv /\ UNCHANGED poolVars => PoolIInv'
  BY DEF PoolIInv, poolVars, PoolTypeOK, Progress, CopiedRight

\* The loop of Get() keeps the invariant, whatever is drawn.
THEOREM LoopInvariant == PoolSpec => []PoolIInv
  <1>1. PoolIInv /\ [PoolNext]_poolVars => PoolIInv'
    BY GetIInv, CopiesIInv, ReturnsIInv, IdlePoolIInv, SizesAssumption DEF PoolNext
  <1> QED BY InitPoolIInv, <1>1, PTL DEF PoolSpec

LEMMA CopiedIsCut == PoolIInv => GetReturnsCut
  <1> SUFFICES ASSUME PoolIInv, getting, size = 0
               PROVE  r = [k \in 1 .. asked |-> (from + k - 1) % PoolSize]
    BY DEF GetReturnsCut
  <1>1. r \in Seq(Indices) /\ Len(r) = asked
    BY DEF PoolIInv, PoolTypeOK, Progress
  <1>2. \A k \in 1 .. asked : r[k] = (from + k - 1) % PoolSize
    BY <1>1 DEF PoolIInv, CopiedRight
  <1> QED BY <1>1, <1>2

\* Get() returns the bytes from the position on, from 0 again past the end, for every size
\* of the pool and every range of sizes: no piece is empty or reaches past the end of the
\* pool (binary_pool.h:24-42).
THEOREM GetIsACut == PoolSpec => []GetReturnsCut
  BY CopiedIsCut, LoopInvariant, PTL

-----------------------------------------------------------------------------
(* Data channels. *)

\* The descriptions that have been parsed, of those that send.
Sending == {n \in 1 .. parsed : described[n].sends}

\* A channel is what its description says.
ChannelOf(d) == d \in Description /\ InRange(d.min) /\ InRange(d.max)

ChannelsRight ==
  /\ described \in Seq(Description) /\ parsed \in 0 .. Len(described)
  /\ \A n \in 1 .. parsed : described[n].form = "good"
  /\ channels \in Seq({Channel(d) : d \in {e \in Description : ChannelOf(e)}})
  /\ InOrder(Sending)
  /\ parsing = "ready" => parsed = Len(described)

\* What is asked of the pool for a channel, and the header, are within its sizes.
SendingRight ==
  /\ getting <=> sending # 0
  /\ sending # 0 => /\ sending \in DOMAIN channels
                    /\ asked \in channels[sending].min - MessageSizeMin
                                   .. channels[sending].max - MessageSizeMin
                    /\ parsing = "ready"

DcIInv == PoolIInv /\ ChannelsRight /\ SendingRight

LEMMA ChannelSizes ==
  ASSUME NEW d, ChannelOf(d)
  PROVE  /\ Channel(d).of = d
         /\ Channel(d).min \in Nat /\ Channel(d).max \in Nat
         /\ MessageSizeMin <= Channel(d).min /\ Channel(d).min <= Channel(d).max
         /\ Channel(d).min = Least(d) /\ Channel(d).max = Most(d)
<1>1. /\ d.min = NotGiven \/ d.min \in MessageSizeMin .. MessageSizeMax
      /\ d.max = NotGiven \/ d.max \in MessageSizeMin .. MessageSizeMax
  BY DEF ChannelOf, InRange
<1>2. Channel(d).min = OrDefault(d.min) /\ Channel(d).of = d
      /\ Channel(d).max = Raised(OrDefault(d.min), OrDefault(d.max))
  BY DEF Channel
<1>3. OrDefault(d.min) = Least(d) /\ Least(d) \in Nat /\ MessageSizeMin <= Least(d)
  BY <1>1, MessageAssumption DEF OrDefault, Least
<1>4. Raised(Least(d), OrDefault(d.max)) = Most(d)
  <2> DEFINE l == Least(d)
  <2>1. l \in Nat /\ MessageSizeMin <= l
    BY <1>3
  <2> HIDE DEF l
  <2>2. CASE d.max = NotGiven
    <3>1. d.max \notin l .. MessageSizeMax /\ OrDefault(d.max) = MessageSizeMin
      BY <2>1, <2>2, MessageAssumption DEF NotGiven, OrDefault
    <3> QED BY <2>1, <3>1, MessageAssumption DEF Raised, Most, l
  <2>3. CASE d.max # NotGiven
    <3>1. d.max \in MessageSizeMin .. MessageSizeMax /\ OrDefault(d.max) = d.max
      BY <1>1, <2>3 DEF OrDefault
    <3> QED BY <2>1, <3>1, MessageAssumption DEF Raised, Most, l
  <2> QED BY <2>2, <2>3
<1>5. Most(d) \in Nat /\ Least(d) <= Most(d)
  BY <1>3, MessageAssumption DEF Most
<1> QED BY <1>2, <1>3, <1>4, <1>5

LEMMA InitDcIInv == DcInit => DcIInv
<1> SUFFICES ASSUME DcInit PROVE DcIInv
  OBVIOUS
<1>0. PICK n \in 0 .. MaxChannels : \E ds \in [1 .. n -> Description] : DcStart(ds)
  BY DEF DcInit
<1>1. PICK ds \in [1 .. n -> Description] : DcStart(ds)
  BY <1>0
<1>2. described \in Seq(Description) /\ Len(described) = n /\ n \in Nat
  BY <1>1, ChannelsAssumption DEF DcStart
<1>3. PoolIInv /\ ~getting
  BY <1>1, InitPoolIInv DEF DcStart, PoolInit
<1>4. parsed = 0 /\ channels = << >> /\ parsing = "parsing" /\ sending = 0
  BY <1>1 DEF DcStart
<1>5. channels \in Seq({Channel(d) : d \in {e \in Description : ChannelOf(e)}})
  BY <1>4
<1>6. InOrder(Sending)
  <2> DEFINE g == [a \in DOMAIN channels |-> a]
  <2>1. DOMAIN channels = {} /\ Sending = {}
    BY <1>4 DEF Sending
  <2>2. g \in [DOMAIN channels -> DOMAIN described]
    BY <2>1
  <2>3. {g[a] : a \in DOMAIN channels} = Sending
    BY <2>1
  <2> HIDE DEF g
  <2> QED BY <2>1, <2>2, <2>3 DEF InOrder
<1>7. ChannelsRight
  BY <1>2, <1>4, <1>5, <1>6 DEF ChannelsRight
<1> QED BY <1>3, <1>4, <1>7 DEF DcIInv, SendingRight

\* The next description that sends is the next channel.
LEMMA ParsesHolds == ASSUME DcIInv, ParsesChannel PROVE DcIInv'
<1> DEFINE C == {Channel(d) : d \in {e \in Description : ChannelOf(e)}}
           n == parsed + 1
           d == described[n]
           c == Channel(d)
<1>1. /\ PoolIInv /\ ChannelsRight /\ SendingRight /\ parsed < Len(described)
      /\ parsing = "parsing" /\ d.form = "good" /\ InRange(d.min) /\ InRange(d.max)
      /\ channels' = IF d.sends THEN Append(channels, c) ELSE channels
      /\ parsed' = n
      /\ UNCHANGED <<described, parsing, sending>> /\ UNCHANGED poolVars
  BY DEF DcIInv, ParsesChannel
<1>2. /\ described \in Seq(Description) /\ parsed \in Nat /\ channels \in Seq(C)
      /\ n \in 1 .. Len(described) /\ n \in 0 .. Len(described) /\ d \in Description
  BY <1>1 DEF ChannelsRight
<1>3. c \in C /\ ChannelOf(d) /\ c.of = d
  BY <1>1, <1>2, ChannelSizes DEF ChannelOf
<1>4. PoolIInv' /\ getting' = getting
  BY <1>1, IdlePoolIInv DEF poolVars
<1>5. sending = 0
  BY <1>1 DEF SendingRight
<1>6. PICK f \in [DOMAIN channels -> DOMAIN described] :
        /\ \A a, b \in DOMAIN channels : a < b => f[a] < f[b]
        /\ {f[a] : a \in DOMAIN channels} = Sending
        /\ \A a \in DOMAIN channels : channels[a].of = described[f[a]]
  BY <1>1 DEF ChannelsRight, InOrder
<1> HIDE DEF C, c, d
<1>7. InOrder(Sending)' /\ channels' \in Seq(C)
  <2>1. CASE ~d.sends
    <3>1. Sending' = Sending
      BY <1>1, <1>2, <2>1 DEF Sending, d
    <3> QED BY <1>1, <1>2, <1>6, <2>1, <3>1 DEF InOrder
  <2>2. CASE d.sends
    <3> DEFINE m == Len(channels)
    <3>1. /\ m \in Nat /\ DOMAIN channels = 1 .. m /\ DOMAIN channels' = 1 .. m + 1
          /\ channels' \in Seq(C) /\ channels'[m + 1] = c
          /\ \A a \in 1 .. m : channels'[a] = channels[a]
      BY <1>1, <1>2, <1>3, <2>2
    <3>2. Sending' = Sending \union {n} /\ \A k \in Sending : k < n /\ k \in Nat
      BY <1>1, <1>2, <2>2 DEF Sending, d
    <3> HIDE DEF m
    <3> DEFINE g == [a \in 1 .. m + 1 |-> IF a = m + 1 THEN n ELSE f[a]]
    <3>3. /\ g[m + 1] = n
          /\ \A a \in 1 .. m : g[a] = f[a] /\ f[a] \in Sending /\ f[a] \in DOMAIN described
      BY <3>1, <1>6
    <3>4. g \in [1 .. m + 1 -> DOMAIN described]
      BY <1>2, <3>1, <3>3
    <3>5. \A a \in 1 .. m + 1 : a \in 1 .. m \/ a = m + 1
      BY <3>1
    <3> HIDE DEF g
    <3>6. ASSUME NEW a \in 1 .. m + 1, NEW b \in 1 .. m + 1, a < b PROVE g[a] < g[b]
      <4>1. a \in 1 .. m
        BY <3>1, <3>6
      <4>2. CASE b = m + 1
        BY <3>2, <3>3, <4>1, <4>2
      <4>3. CASE b \in 1 .. m
        BY <1>6, <3>1, <3>3, <3>6, <4>1, <4>3
      <4> QED BY <3>5, <4>2, <4>3
    <3>7. {g[a] : a \in 1 .. m + 1} = Sending \union {n}
      <4>1. ASSUME NEW a \in 1 .. m + 1 PROVE g[a] \in Sending \union {n}
        BY <3>3, <3>5
      <4>2. ASSUME NEW k \in Sending PROVE \E a \in 1 .. m + 1 : g[a] = k
        <5>1. PICK a \in 1 .. m : f[a] = k
          BY <1>6, <3>1
        <5> QED BY <3>1, <3>3, <5>1
      <4>3. m + 1 \in 1 .. m + 1
        BY <3>1
      <4> QED BY <3>3, <4>1, <4>2, <4>3
    <3>8. ASSUME NEW a \in 1 .. m + 1 PROVE channels'[a].of = described[g[a]]
      <4>1. CASE a = m + 1
        BY <1>3, <3>1, <3>3, <4>1 DEF d
      <4>2. CASE a \in 1 .. m
        BY <1>6, <3>1, <3>3, <4>2
      <4> QED BY <3>5, <4>1, <4>2
    <3>9. /\ g \in [DOMAIN channels' -> DOMAIN described']
          /\ \A a, b \in DOMAIN channels' : a < b => g[a] < g[b]
          /\ {g[a] : a \in DOMAIN channels'} = Sending'
          /\ \A a \in DOMAIN channels' : channels'[a].of = described'[g[a]]
      <4>1. g \in [DOMAIN channels' -> DOMAIN described']
        BY <1>1, <3>1, <3>4
      <4>2. {g[a] : a \in DOMAIN channels'} = Sending'
        BY <3>1, <3>2, <3>7
      <4>3. \A a \in DOMAIN channels' : channels'[a].of = described'[g[a]]
        BY <1>1, <3>1, <3>8
      <4> QED BY <3>1, <3>6, <4>1, <4>2, <4>3
    <3>10. InOrder(Sending)'
      BY <3>9, Zenon DEF InOrder
    <3> QED BY <3>1, <3>10
  <2> QED BY <2>1, <2>2
<1>8. \A k \in 1 .. parsed' : described'[k].form = "good"
  <2>1. \A k \in 1 .. n : k \in 1 .. parsed \/ k = n
    BY <1>2
  <2> QED BY <1>1, <2>1 DEF ChannelsRight, d
<1>9. ChannelsRight'
  BY <1>1, <1>2, <1>7, <1>8 DEF ChannelsRight, C
<1>10. SendingRight'
  BY <1>1, <1>4, <1>5 DEF SendingRight
<1> QED BY <1>4, <1>9, <1>10 DEF DcIInv

\* What is left alone is right as before.
LEMMA ChannelsKept ==
  ASSUME ChannelsRight, UNCHANGED <<described, parsed, channels>>,
         parsing' = "ready" => parsed = Len(described)
  PROVE  ChannelsRight'
  BY DEF ChannelsRight, InOrder, Sending

\* The pool is asked for what the header leaves.
LEMMA GetsHolds == ASSUME DcIInv, NEW c \in DOMAIN channels, GetsPayload(c) PROVE DcIInv'
<1> DEFINE min == channels[c].min - MessageSizeMin
           max == channels[c].max - MessageSizeMin
<1>1. /\ PoolIInv /\ ChannelsRight /\ parsing = "ready" /\ sending' = c /\ Get(min, max)
      /\ UNCHANGED <<described, parsed, channels, parsing>>
  BY DEF DcIInv, GetsPayload
<1>2. PICK d : channels[c] = Channel(d) /\ ChannelOf(d)
  BY <1>1 DEF ChannelsRight
<1>3. min \in Nat /\ max \in Nat
  BY <1>2, ChannelSizes, MessageAssumption
<1> HIDE DEF min, max
<1>4. PoolIInv'
  BY <1>1, <1>3, GetIInv
<1>5. ChannelsRight'
  BY <1>1, ChannelsKept DEF ChannelsRight
<1>6. getting' = TRUE /\ asked' \in min .. max
  BY <1>1 DEF Get
<1>7. c # 0 /\ c \in DOMAIN channels'
  BY <1>1 DEF ChannelsRight
<1>8. SendingRight'
  BY <1>1, <1>6, <1>7 DEF SendingRight, min, max
<1> QED BY <1>4, <1>5, <1>8 DEF DcIInv

LEMMA OtherChannelSteps ==
  ASSUME DcIInv, Refuses \/ Throws \/ HasParsed \/ CopiesPayload \/ Sends \/ UNCHANGED dcVars
  PROVE  DcIInv'
<1>1. PoolIInv /\ ChannelsRight /\ SendingRight
  BY DEF DcIInv
<1>2. CASE Refuses \/ Throws \/ HasParsed
  <2>1. /\ UNCHANGED <<described, parsed, channels, sending>> /\ UNCHANGED poolVars
        /\ parsing = "parsing" /\ (parsing' = "ready" => parsed = Len(described))
    BY <1>2 DEF Refuses, Throws, HasParsed
  <2>2. PoolIInv' /\ getting' = getting
    BY <1>1, <2>1, IdlePoolIInv DEF poolVars
  <2>3. ChannelsRight'
    BY <1>1, <2>1, ChannelsKept
  <2>4. SendingRight'
    BY <1>1, <2>1, <2>2 DEF SendingRight
  <2> QED BY <2>2, <2>3, <2>4 DEF DcIInv
<1>3. CASE CopiesPayload
  <2>1. UNCHANGED <<described, parsed, channels, parsing, sending>> /\ UNCHANGED <<getting, asked>>
    BY <1>3 DEF CopiesPayload, channelVars, Copies
  <2>2. PoolIInv'
    BY <1>1, <1>3, CopiesIInv DEF CopiesPayload
  <2>3. ChannelsRight'
    BY <1>1, <2>1, ChannelsKept DEF ChannelsRight
  <2>4. SendingRight'
    BY <1>1, <2>1 DEF SendingRight
  <2> QED BY <2>2, <2>3, <2>4 DEF DcIInv
<1>4. CASE Sends
  <2>1. UNCHANGED <<described, parsed, channels, parsing>> /\ sending' = 0 /\ getting' = FALSE
    BY <1>4 DEF Sends, Returns
  <2>2. PoolIInv'
    BY <1>1, <1>4, ReturnsIInv DEF Sends
  <2>3. ChannelsRight'
    BY <1>1, <2>1, ChannelsKept DEF ChannelsRight
  <2>4. SendingRight'
    BY <2>1 DEF SendingRight
  <2> QED BY <2>2, <2>3, <2>4 DEF DcIInv
<1>5. CASE UNCHANGED dcVars
  <2>1. UNCHANGED <<described, parsed, channels, parsing, sending>> /\ UNCHANGED poolVars
    BY <1>5 DEF dcVars, channelVars
  <2>2. PoolIInv' /\ UNCHANGED <<getting, asked>>
    BY <1>1, <2>1, IdlePoolIInv DEF poolVars
  <2>3. ChannelsRight'
    BY <1>1, <2>1, ChannelsKept DEF ChannelsRight
  <2>4. SendingRight'
    BY <1>1, <2>1, <2>2 DEF SendingRight
  <2> QED BY <2>2, <2>3, <2>4 DEF DcIInv
<1> QED BY <1>2, <1>3, <1>4, <1>5

\* Every message on a channel is a header and a cut of the pool, together within the sizes
\* described for that channel, for every list of descriptions and every size of the pool;
\* the range given to the pool is never empty, and the channels are the descriptions that
\* send, in their order (zakuro.cpp:53-206, scenario_player.h:174-176).
THEOREM MessagesAreCuts == DcSpec => []MessageIsCut
<1>1. DcIInv /\ [DcNext]_dcVars => DcIInv'
  BY ParsesHolds, GetsHolds, OtherChannelSteps DEF DcNext
<1>2. DcIInv => MessageIsCut
  <2> SUFFICES ASSUME DcIInv PROVE MessageIsCut
    OBVIOUS
  <2>1. PoolIInv /\ ChannelsRight /\ SendingRight
    BY DEF DcIInv
  <2>2. \A c \in DOMAIN channels : \E d : channels[c] = Channel(d) /\ ChannelOf(d)
    BY <2>1 DEF ChannelsRight
  <2>3. GetReturnsCut
    BY <2>1, CopiedIsCut
  <2>4. ASSUME NEW c \in DOMAIN channels PROVE channels[c].min <= channels[c].max
    <3>1. PICK d : channels[c] = Channel(d) /\ ChannelOf(d)
      BY <2>2
    <3> QED BY <3>1, ChannelSizes
  <2>5. ASSUME sending # 0, size = 0
        PROVE  MessageSizeMin + Len(r) \in Least(channels[sending].of) .. Most(channels[sending].of)
    <3>1. PICK d : channels[sending] = Channel(d) /\ ChannelOf(d)
      BY <2>1, <2>2, <2>5 DEF SendingRight
    <3>2. asked \in Channel(d).min - MessageSizeMin .. Channel(d).max - MessageSizeMin /\ getting
      BY <2>1, <2>5, <3>1 DEF SendingRight
    <3>3. Len(r) = asked
      BY <2>1, <2>5, <3>2 DEF PoolIInv, PoolTypeOK, Progress
    <3>4. /\ Channel(d).of = d /\ Channel(d).min \in Nat /\ Channel(d).max \in Nat
          /\ Channel(d).min = Least(d) /\ Channel(d).max = Most(d)
      BY <3>1, ChannelSizes
    <3> QED BY <3>1, <3>2, <3>3, <3>4, MessageAssumption
  <2>6. ASSUME parsing = "ready"
        PROVE  /\ \A n \in 1 .. Len(described) : described[n].form = "good"
               /\ InOrder({n \in DOMAIN described : described[n].sends})
    <3>1. parsed = Len(described) /\ described \in Seq(Description)
      BY <2>1, <2>6 DEF ChannelsRight
    <3>2. Sending = {n \in DOMAIN described : described[n].sends}
      BY <3>1 DEF Sending
    <3> QED BY <2>1, <3>1, <3>2 DEF ChannelsRight
  <2> QED BY <2>3, <2>4, <2>5, <2>6 DEF MessageIsCut
<1> QED BY InitDcIInv, <1>1, <1>2, PTL DEF DcSpec

-----------------------------------------------------------------------------
(* WAV files. *)

LEMMA SetInduction ==
  ASSUME NEW S \in SUBSET Nat, 0 \in S, \A n \in S : n + 1 \in S
  PROVE  S = Nat
<1>1. IsWellFoundedOn(OpToRel(<, Nat), Nat)
  BY NatLessThanWellFounded
<1> DEFINE R == {ss \in Nat \X Nat : ss[1] < ss[2]}
           T == Nat \ S
<1>2. IsWellFoundedOn(R, Nat)
  BY <1>1, Zenon DEF OpToRel
<1> SUFFICES ASSUME T # {} PROVE FALSE
  OBVIOUS
<1>3. \E x \in T : \A y \in T : <<y, x>> \notin R
  <2> HIDE DEF R, T
  <2>1. T \subseteq Nat
    BY DEF T
  <2> QED BY <1>2, <2>1, WFMin
<1>4. PICK x \in T : \A y \in T : ~(y < x)
  BY <1>3
<1>5. x - 1 \in S
  BY <1>4
<1> QED BY <1>5

\* The recursive function in EndOf exists.
LEMMA EndsExist ==
  ASSUME NEW cs, NEW m \in Nat
  PROVE  \E g : g = [n \in 0 .. m |-> IF n = 0 THEN RiffHeader
                                      ELSE g[n - 1] + ChunkHeader + cs[n].size]
<1> DEFINE Rec(g, k) == g = [n \in 0 .. k |-> IF n = 0 THEN RiffHeader
                                              ELSE g[n - 1] + ChunkHeader + cs[n].size]
           S == {k \in Nat : \E g : Rec(g, k)}
<1>1. 0 \in S
  <2> DEFINE e == [n \in 0 .. 0 |-> RiffHeader]
  <2>1. \A n \in 0 .. 0 : n = 0
    OBVIOUS
  <2>2. Rec(e, 0)
    BY <2>1
  <2> HIDE DEF Rec
  <2> QED BY <2>2
<1>2. ASSUME NEW k \in S PROVE k + 1 \in S
  <2>1. k \in Nat
    OBVIOUS
  <2>2. PICK g : Rec(g, k)
    OBVIOUS
  <2> DEFINE f == [n \in 0 .. k + 1 |-> IF n = k + 1 THEN g[k] + ChunkHeader + cs[k + 1].size ELSE g[n]]
  <2>3. ASSUME NEW n \in 0 .. k + 1
        PROVE  f[n] = IF n = 0 THEN RiffHeader ELSE f[n - 1] + ChunkHeader + cs[n].size
    <3>1. f[k + 1] = g[k] + ChunkHeader + cs[k + 1].size
      BY <2>1
    <3>2. \A j \in 0 .. k : f[j] = g[j]
      BY <2>1
    <3>3. \A j \in 0 .. k : g[j] = IF j = 0 THEN RiffHeader ELSE g[j - 1] + ChunkHeader + cs[j].size
      BY <2>2
    <3> HIDE DEF f, S, Rec
    <3>4. CASE n = k + 1
      <4>1. n # 0 /\ n - 1 = k /\ k \in 0 .. k
        BY <2>1, <3>4
      <4>2. f[n - 1] = g[k]
        BY <3>2, <4>1
      <4> QED BY <3>1, <3>4, <4>1, <4>2
    <3>5. CASE n # k + 1
      <4>1. n \in 0 .. k /\ (n # 0 => n - 1 \in 0 .. k)
        BY <2>1, <3>5
      <4>2. f[n] = g[n] /\ (n # 0 => f[n - 1] = g[n - 1])
        BY <3>2, <4>1
      <4>3. g[n] = IF n = 0 THEN RiffHeader ELSE g[n - 1] + ChunkHeader + cs[n].size
        BY <3>3, <4>1
      <4> QED BY <4>2, <4>3
    <3> QED BY <3>4, <3>5
  <2>4. f = [n \in 0 .. k + 1 |-> f[n]]
    OBVIOUS
  <2>5. Rec(f, k + 1)
    <3> HIDE DEF f
    <3> QED BY <2>3, <2>4, Zenon
  <2> HIDE DEF Rec
  <2> QED BY <2>1, <2>5
<1>3. S \in SUBSET Nat
  OBVIOUS
<1>4. m \in S
  <2> HIDE DEF S
  <2> QED BY <1>1, <1>2, <1>3, SetInduction
<1> QED BY <1>4

\* A chunk ends its header and its size behind the one before it.
LEMMA EndStep ==
  ASSUME NEW cs, Len(cs) \in Nat
  PROVE  /\ EndOf(cs, 0) = RiffHeader
         /\ \A n \in 1 .. Len(cs) : EndOf(cs, n) = EndOf(cs, n - 1) + ChunkHeader + cs[n].size
<1> DEFINE Def(g) == g = [n \in 0 .. Len(cs) |-> IF n = 0 THEN RiffHeader
                                                 ELSE g[n - 1] + ChunkHeader + cs[n].size]
           e == CHOOSE g : Def(g)
<1>1. \E g : Def(g)
  BY EndsExist, Zenon
<1>2. Def(e)
  <2> HIDE DEF Def
  <2> QED BY <1>1
<1>3. \A i : EndOf(cs, i) = e[i]
  BY Zenon DEF EndOf
<1> HIDE DEF e
<1>4. \A n \in 0 .. Len(cs) : e[n] = IF n = 0 THEN RiffHeader ELSE e[n - 1] + ChunkHeader + cs[n].size
  BY <1>2, Zenon
<1> HIDE DEF Def
<1>5. EndOf(cs, 0) = RiffHeader
  <2>1. 0 \in 0 .. Len(cs)
    OBVIOUS
  <2> QED BY <1>3, <1>4, <2>1, Zenon
<1>6. ASSUME NEW n \in 1 .. Len(cs)
      PROVE  EndOf(cs, n) = EndOf(cs, n - 1) + ChunkHeader + cs[n].size
  <2>1. n \in 0 .. Len(cs) /\ n # 0
    OBVIOUS
  <2>2. e[n] = e[n - 1] + ChunkHeader + cs[n].size
    BY <1>4, <2>1
  <2> QED BY <1>3, <2>2, Zenon
<1> QED BY <1>5, <1>6

LEMMA ChunkSizesTyped == ASSUME NEW cs \in Seq(Chunk) PROVE \A n \in 1 .. Len(cs) : cs[n].size \in Nat
<1> SUFFICES ASSUME NEW n \in 1 .. Len(cs) PROVE cs[n].size \in Nat
  OBVIOUS
<1>1. cs[n] \in Chunk
  OBVIOUS
<1>2. \A c \in Chunk : c.size \in ChunkSizes \union {FormatSize}
  BY DEF Chunk
<1> QED BY <1>1, <1>2, ChunkAssumption DEF FormatSize

LEMMA EndTyped ==
  ASSUME NEW cs \in Seq(Chunk)
  PROVE  \A n \in 0 .. Len(cs) : EndOf(cs, n) \in Nat /\ EndOf(cs, n) >= RiffHeader + n * ChunkHeader
<1> DEFINE S == {n \in Nat : n <= Len(cs) =>
                   EndOf(cs, n) \in Nat /\ EndOf(cs, n) >= RiffHeader + n * ChunkHeader}
<1>1. 0 \in S
  BY EndStep DEF RiffHeader, ChunkHeader
<1>2. ASSUME NEW n \in S PROVE n + 1 \in S
  <2> SUFFICES ASSUME n + 1 <= Len(cs)
               PROVE  /\ EndOf(cs, n + 1) \in Nat
                      /\ EndOf(cs, n + 1) >= RiffHeader + (n + 1) * ChunkHeader
    OBVIOUS
  <2> DEFINE l == n + 1
  <2>1. n \in Nat /\ EndOf(cs, n) \in Nat /\ EndOf(cs, n) >= RiffHeader + n * ChunkHeader
    OBVIOUS
  <2>2. l \in 1 .. Len(cs) /\ l - 1 = n
    BY <2>1
  <2> HIDE DEF l, S
  <2>3. EndOf(cs, l) = EndOf(cs, n) + ChunkHeader + cs[l].size
    BY <2>2, EndStep
  <2>4. cs[l].size \in Nat
    BY <2>2, ChunkSizesTyped
  <2>5. EndOf(cs, l) \in Nat /\ EndOf(cs, l) >= RiffHeader + (n + 1) * ChunkHeader
    BY <2>1, <2>3, <2>4 DEF RiffHeader, ChunkHeader
  <2> QED BY <2>5 DEF l
<1>3. S \in SUBSET Nat
  OBVIOUS
<1>4. S = Nat
  <2> HIDE DEF S
  <2> QED BY <1>1, <1>2, <1>3, SetInduction
<1> QED BY <1>4

\* Later chunks end later.
LEMMA EndMonotone ==
  ASSUME NEW cs \in Seq(Chunk), NEW i \in 0 .. Len(cs), NEW j \in i .. Len(cs)
  PROVE  EndOf(cs, i) <= EndOf(cs, j)
<1> DEFINE S == {k \in Nat : i + k <= Len(cs) => EndOf(cs, i) <= EndOf(cs, i + k)}
<1>1. 0 \in S
  BY EndTyped
<1>2. ASSUME NEW k \in S PROVE k + 1 \in S
  <2> SUFFICES ASSUME i + (k + 1) <= Len(cs) PROVE EndOf(cs, i) <= EndOf(cs, i + (k + 1))
    OBVIOUS
  <2> DEFINE l == i + (k + 1)
             h == i + k
  <2>1. l \in 1 .. Len(cs) /\ l - 1 = h /\ h \in 0 .. Len(cs) /\ EndOf(cs, i) <= EndOf(cs, h)
    OBVIOUS
  <2> HIDE DEF l, h, S
  <2>2. EndOf(cs, l) = EndOf(cs, h) + ChunkHeader + cs[l].size
    BY <2>1, EndStep
  <2>3. EndOf(cs, i) \in Nat /\ EndOf(cs, h) \in Nat /\ cs[l].size \in Nat
    BY <2>1, EndTyped, ChunkSizesTyped
  <2>4. EndOf(cs, i) <= EndOf(cs, l)
    BY <2>1, <2>2, <2>3 DEF ChunkHeader
  <2> QED BY <2>4 DEF l
<1>3. S \in SUBSET Nat
  OBVIOUS
<1>4. S = Nat
  <2> HIDE DEF S
  <2> QED BY <1>1, <1>2, <1>3, SetInduction
<1>5. j - i \in Nat /\ i + (j - i) = j
  OBVIOUS
<1>6. j - i \in S
  BY <1>4, <1>5
<1> QED BY <1>5, <1>6

\* While it walks, the reader stands at the header of a chunk, behind chunks that are there
\* as a whole and of which none is one of data.
AtChunk ==
  /\ next \in 0 .. Len(chunks) + 1
  /\ next = 0 => rest = present
  /\ next > 0 => rest = present - EndOf(chunks, next - 1)

IsPCM == chunks[1].name = "fmt " /\ chunks[1].format = "PCM"

NoDataYet == \A m \in 2 .. next - 1 : chunks[m].name # "data"

IsRiff == magic = "RIFF WAVE"

Walk == AtChunk /\ (next > 0 => IsRiff) /\ (next > 1 => IsPCM) /\ NoDataYet

WavIInv ==
  /\ magic \in Magics
  /\ chunks \in Seq(Chunk) /\ Len(chunks) >= 1 /\ present \in Nat
  /\ result = Loading => Walk
  /\ WavIsRead

LEMMA InitWav == WavInit => WavIInv
<1> SUFFICES ASSUME WavInit PROVE WavIInv
  OBVIOUS
<1>1. PICK n \in 1 .. MaxChunks :
        \E cs \in [1 .. n -> Chunk] : \E l \in Lengths(cs), mg \in Magics : WavStart(mg, cs, l)
  BY DEF WavInit
<1>2. PICK cs \in [1 .. n -> Chunk] : \E l \in Lengths(cs), mg \in Magics : WavStart(mg, cs, l)
  BY <1>1
<1>3. PICK l \in Lengths(cs), mg \in Magics : WavStart(mg, cs, l)
  BY <1>2
<1>4. n \in Nat /\ n >= 1
  BY ChunkAssumption
<1>5. cs \in Seq(Chunk) /\ Len(cs) = n
  BY <1>4
<1>6. l \in Nat
  <2>1. EndOf(cs, Len(cs)) \in Nat
    BY <1>4, <1>5, EndTyped
  <2> QED BY <2>1 DEF Lengths
<1>7. /\ magic \in Magics /\ chunks = cs /\ present = l /\ rest = l /\ next = 0
      /\ samples = << >> /\ result = Loading
  BY <1>3 DEF WavStart
<1>8. Walk
  <2>1. AtChunk
    BY <1>4, <1>5, <1>7 DEF AtChunk
  <2>2. NoDataYet
    BY <1>7 DEF NoDataYet
  <2> QED BY <1>7, <2>1, <2>2 DEF Walk
<1>9. WavIsRead
  BY <1>6, <1>7 DEF WavIsRead, Loading
<1> QED BY <1>4, <1>5, <1>6, <1>7, <1>8, <1>9 DEF WavIInv

\* No chunk behind one that is not there as a whole is.
LEMMA NoneBehind ==
  ASSUME chunks \in Seq(Chunk), present \in Nat,
         NEW n \in Nat \ {0}, n <= Len(chunks) => EndOf(chunks, n) > present,
         \A m \in 2 .. n - 1 : chunks[m].name # "data"
  PROVE  FirstData = {}
<1> SUFFICES ASSUME NEW k \in FirstData PROVE FALSE
  OBVIOUS
<1>1. k \in 2 .. Len(chunks) /\ chunks[k].name = "data" /\ EndOf(chunks, k) <= present
  BY DEF FirstData
<1>2. Len(chunks) \in Nat
  OBVIOUS
<1>3. k >= n
  BY <1>1, <1>2
<1>4. n \in 0 .. Len(chunks) /\ k \in n .. Len(chunks) /\ k \in 0 .. Len(chunks)
  BY <1>1, <1>2, <1>3
<1>5. EndOf(chunks, n) <= EndOf(chunks, k)
  BY <1>4, EndMonotone
<1>6. EndOf(chunks, n) \in Nat /\ EndOf(chunks, k) \in Nat
  BY <1>4, EndTyped
<1> QED BY <1>1, <1>4, <1>5, <1>6

\* Whether a chunk is there as a whole.
LEMMA FitsMeans ==
  ASSUME chunks \in Seq(Chunk), present \in Nat, AtChunk, next > 0
  PROVE  /\ next \in Nat \ {0}
         /\ Fits(next) => /\ next \in 1 .. Len(chunks)
                          /\ rest - (ChunkHeader + chunks[next].size) = present - EndOf(chunks, next)
                          /\ rest - (ChunkHeader + chunks[next].size) \in Nat
                          /\ EndOf(chunks, next) <= present
                          /\ EndOf(chunks, next) \in Nat
         /\ ~Fits(next) => (next <= Len(chunks) => EndOf(chunks, next) > present)
<1>1. next \in Nat \ {0} /\ Len(chunks) \in Nat /\ next - 1 \in 0 .. Len(chunks)
      /\ rest = present - EndOf(chunks, next - 1)
  BY DEF AtChunk
<1>2. EndOf(chunks, next - 1) \in Nat
  BY <1>1, EndTyped
<1>3. ASSUME next <= Len(chunks)
      PROVE  /\ next \in 1 .. Len(chunks) /\ EndOf(chunks, next) \in Nat
             /\ chunks[next].size \in Nat
             /\ EndOf(chunks, next) = EndOf(chunks, next - 1) + ChunkHeader + chunks[next].size
  <2>1. next \in 1 .. Len(chunks) /\ next \in 0 .. Len(chunks)
    BY <1>1, <1>3
  <2> QED BY <2>1, EndStep, EndTyped, ChunkSizesTyped
<1>4. CASE Fits(next)
  <2>1. next <= Len(chunks) /\ rest >= ChunkHeader + chunks[next].size
    BY <1>4 DEF Fits
  <2>2. /\ next \in 1 .. Len(chunks) /\ EndOf(chunks, next) \in Nat /\ chunks[next].size \in Nat
        /\ EndOf(chunks, next) = EndOf(chunks, next - 1) + ChunkHeader + chunks[next].size
    BY <1>3, <2>1
  <2>3. /\ rest - (ChunkHeader + chunks[next].size) = present - EndOf(chunks, next)
        /\ rest - (ChunkHeader + chunks[next].size) \in Nat
        /\ EndOf(chunks, next) <= present
    <3> DEFINE e == EndOf(chunks, next)
               f == EndOf(chunks, next - 1)
               z == chunks[next].size
    <3>1. /\ e = f + ChunkHeader + z /\ rest = present - f /\ rest >= ChunkHeader + z
          /\ f \in Nat /\ z \in Nat /\ present \in Nat
      BY <1>1, <1>2, <2>1, <2>2
    <3> HIDE DEF e, f, z
    <3>2. /\ rest - (ChunkHeader + z) = present - e
          /\ rest - (ChunkHeader + z) \in Nat /\ e <= present
      BY <3>1 DEF ChunkHeader
    <3> QED BY <3>2 DEF e, f, z
  <2> QED BY <1>1, <1>4, <2>2, <2>3
<1>5. CASE ~Fits(next)
  <2>1. ASSUME next <= Len(chunks) PROVE EndOf(chunks, next) > present
    <3> DEFINE e == EndOf(chunks, next)
               f == EndOf(chunks, next - 1)
               z == chunks[next].size
    <3>1. ~(rest >= ChunkHeader + z)
      BY <1>5, <2>1 DEF Fits
    <3>2. e \in Nat /\ e = f + ChunkHeader + z /\ z \in Nat
      BY <1>3, <2>1
    <3>3. rest = present - f /\ f \in Nat
      BY <1>1, <1>2
    <3> HIDE DEF e, f, z
    <3>4. e > present
      BY <3>1, <3>2, <3>3 DEF ChunkHeader
    <3> QED BY <3>4 DEF e
  <2> QED BY <1>1, <1>5, <2>1
<1> QED BY <1>1, <1>4, <1>5

\* An error is right where the file cannot be read.
LEMMA FailsRightly ==
  ASSUME WavIInv, result = Loading, NEW code, code \notin {0, Loading}, Fails(code), ~Readable
  PROVE  WavIInv'
<1>1. result' = code /\ UNCHANGED <<magic, chunks, present, rest, next, samples>>
  BY DEF Fails
<1>2. ~Readable'
  BY <1>1 DEF Readable, FirstData
<1>3. rest \in 0 .. present /\ samples = << >>
  BY DEF WavIInv, WavIsRead, Loading
<1>4. WavIsRead'
  BY <1>1, <1>2, <1>3 DEF WavIsRead
<1> QED BY <1>1, <1>4 DEF WavIInv

LEMMA ReadsRiffHolds == ASSUME WavIInv, ReadsRiff PROVE WavIInv'
<1>1. /\ chunks \in Seq(Chunk) /\ Len(chunks) \in Nat /\ Len(chunks) >= 1 /\ present \in Nat
      /\ AtChunk /\ result = Loading /\ next = 0 /\ rest = present /\ magic \in Magics
      /\ rest \in 0 .. present /\ samples = << >>
  <2>1. result = Loading /\ next = 0
    BY Zenon DEF ReadsRiff
  <2> QED BY <2>1 DEF WavIInv, Walk, AtChunk, WavIsRead, Loading
<1>2. CASE rest < 20
  <2>1. FirstData = {}
    <3>1. EndOf(chunks, 1) \in Nat /\ EndOf(chunks, 1) >= RiffHeader + 1 * ChunkHeader
      BY <1>1, EndTyped
    <3>2. EndOf(chunks, 1) > present
      BY <1>1, <1>2, <3>1 DEF RiffHeader, ChunkHeader
    <3>3. \A m \in 2 .. 1 - 1 : chunks[m].name # "data"
      OBVIOUS
    <3> QED BY <1>1, <3>2, <3>3, NoneBehind
  <2>2. ~Readable
    BY <2>1 DEF Readable
  <2>3. Fails(-1)
    BY <1>2 DEF ReadsRiff
  <2> QED BY <1>1, <2>2, <2>3, FailsRightly DEF Loading
<1>3. CASE ~(rest < 20) /\ magic = "no RIFF"
  <2>1. Fails(-5)
    BY <1>3 DEF ReadsRiff
  <2>2. ~Readable
    BY <1>3 DEF Readable
  <2> QED BY <1>1, <2>1, <2>2, FailsRightly DEF Loading
<1>4. CASE ~(rest < 20) /\ magic = "no WAVE"
  <2>1. Fails(-6)
    BY <1>4 DEF ReadsRiff
  <2>2. ~Readable
    BY <1>4 DEF Readable
  <2> QED BY <1>1, <2>1, <2>2, FailsRightly DEF Loading
<1>5. CASE ~(rest < 20) /\ magic = "RIFF WAVE"
  <2>1. /\ rest' = rest - RiffHeader /\ next' = 1
        /\ UNCHANGED <<magic, chunks, present, samples, result>>
    <3>1. /\ magic # "no RIFF" /\ magic # "no WAVE" /\ ~(rest < 20)
      BY <1>5
    <3>2. IF rest < 20 THEN Fails(-1)
          ELSE IF magic = "no RIFF" THEN Fails(-5)
          ELSE IF magic = "no WAVE" THEN Fails(-6)
          ELSE /\ rest' = rest - RiffHeader
               /\ next' = 1
               /\ UNCHANGED <<magic, chunks, present, samples, result>>
      BY Zenon DEF ReadsRiff
    <3> QED BY <3>1, <3>2, Zenon
  <2>2. rest' \in 0 .. present'
    <3>1. present \in Nat /\ rest \in 0 .. present
      BY <1>1
    <3>2. ~(rest < 20)
      BY <1>5
    <3>3. present' = present /\ rest' = rest - RiffHeader
      BY <2>1
    <3> QED BY <3>1, <3>2, <3>3 DEF RiffHeader
  <2>3. EndOf(chunks, 0) = RiffHeader
    BY <1>1, EndStep
  <2>4. Walk'
    <3>1. next' - 1 = 0 /\ EndOf(chunks', next' - 1) = RiffHeader
      BY <2>1, <2>3
    <3>2. AtChunk'
      BY <1>1, <2>1, <3>1 DEF AtChunk
    <3>3. NoDataYet'
      BY <2>1 DEF NoDataYet
    <3>4. IsRiff'
      BY <1>5, <2>1 DEF IsRiff
    <3> QED BY <2>1, <3>2, <3>3, <3>4 DEF Walk
  <2>5. WavIsRead'
    BY <1>1, <2>1, <2>2 DEF WavIsRead, Loading
  <2> QED BY <1>1, <2>1, <2>4, <2>5 DEF WavIInv
<1> QED BY <1>1, <1>2, <1>3, <1>4, <1>5 DEF Magics

LEMMA ReadsFormatHolds == ASSUME WavIInv, ReadsFormat PROVE WavIInv'
<1>1. /\ chunks \in Seq(Chunk) /\ Len(chunks) \in Nat /\ Len(chunks) >= 1 /\ present \in Nat
      /\ AtChunk /\ IsRiff /\ result = Loading /\ next = 1 /\ magic \in Magics
      /\ rest \in 0 .. present /\ samples = << >>
  <2>1. result = Loading /\ next = 1
    BY Zenon DEF ReadsFormat
  <2> QED BY <2>1 DEF WavIInv, Walk, WavIsRead, Loading
<1>2. CASE ~Fits(1)
  <2>1. FirstData = {}
    <3>1. 1 <= Len(chunks) => EndOf(chunks, 1) > present
      BY <1>1, <1>2, FitsMeans
    <3>2. \A m \in 2 .. 1 - 1 : chunks[m].name # "data"
      OBVIOUS
    <3> QED BY <1>1, <3>1, <3>2, NoneBehind
  <2>2. ~Readable
    BY <2>1 DEF Readable
  <2>3. Fails(-7)
    BY <1>2 DEF ReadsFormat
  <2> QED BY <1>1, <2>2, <2>3, FailsRightly DEF Loading
<1>3. CASE Fits(1) /\ chunks[1].name # "fmt "
  <2>1. ~Readable
    BY <1>3 DEF Readable
  <2>2. Fails(-8)
    BY <1>3 DEF ReadsFormat
  <2> QED BY <1>1, <2>1, <2>2, FailsRightly DEF Loading
<1>4. CASE Fits(1) /\ chunks[1].name = "fmt " /\ chunks[1].format # "PCM"
  <2>1. ~Readable
    BY <1>4 DEF Readable
  <2>2. chunks[1].format \in Formats
    <3>1. chunks[1] \in Chunk
      BY <1>1
    <3>2. \A c \in Chunk : c.name = "fmt " => c.format \in Formats
      BY DEF Chunk
    <3> QED BY <1>4, <3>1, <3>2
  <2>3. Fails(-9) \/ Fails(1) \/ Fails(-4)
    BY <1>4, <2>2 DEF ReadsFormat, Formats
  <2> QED BY <1>1, <2>1, <2>3, FailsRightly DEF Loading
<1>5. CASE Fits(1) /\ chunks[1].name = "fmt " /\ chunks[1].format = "PCM"
  <2>1. /\ rest' = rest - (ChunkHeader + chunks[1].size) /\ next' = 2
        /\ UNCHANGED <<magic, chunks, present, samples, result>>
    <3>1. Skips(1) /\ UNCHANGED <<magic, chunks, present, samples, result>>
      BY <1>5, Zenon DEF ReadsFormat
    <3> QED BY <3>1 DEF Skips
  <2>2. rest' = present - EndOf(chunks, 1) /\ rest' \in Nat /\ EndOf(chunks, 1) \in Nat
    <3>1. next > 0 /\ Fits(next)
      <4>1. next > 0
        BY <1>1
      <4>2. Fits(next)
        BY <1>1, <1>5, Zenon
      <4> QED BY <4>1, <4>2
    <3>2. /\ rest - (ChunkHeader + chunks[next].size) = present - EndOf(chunks, next)
          /\ rest - (ChunkHeader + chunks[next].size) \in Nat
          /\ EndOf(chunks, next) \in Nat
      BY <1>1, <3>1, FitsMeans
    <3> QED BY <1>1, <2>1, <3>2
  <2>3. Walk'
    <3>1. next' - 1 = 1 /\ EndOf(chunks', next' - 1) = EndOf(chunks, 1)
      BY <2>1
    <3>2. AtChunk'
      BY <1>1, <2>1, <2>2, <3>1 DEF AtChunk
    <3>3. NoDataYet'
      BY <2>1 DEF NoDataYet
    <3>4. IsPCM' /\ IsRiff'
      BY <1>1, <1>5, <2>1 DEF IsPCM, IsRiff
    <3> QED BY <3>2, <3>3, <3>4 DEF Walk
  <2>4. WavIsRead'
    BY <1>1, <2>1, <2>2 DEF WavIsRead, Loading
  <2> QED BY <1>1, <2>1, <2>3, <2>4 DEF WavIInv
<1> QED BY <1>2, <1>3, <1>4, <1>5

LEMMA ReadsChunkHolds == ASSUME WavIInv, ReadsChunk PROVE WavIInv'
<1>1. /\ chunks \in Seq(Chunk) /\ Len(chunks) \in Nat /\ Len(chunks) >= 1 /\ present \in Nat
      /\ AtChunk /\ NoDataYet /\ IsRiff /\ IsPCM /\ result = Loading /\ next > 1
      /\ magic \in Magics
      /\ rest \in 0 .. present /\ samples = << >>
  <2>1. result = Loading /\ next > 1
    BY Zenon DEF ReadsChunk
  <2>2. AtChunk
    BY <2>1 DEF WavIInv, Walk
  <2>3. next \in Nat
    BY <2>2 DEF WavIInv, AtChunk
  <2>4. next > 0
    BY <2>1, <2>3
  <2> QED BY <2>1, <2>4 DEF WavIInv, WavIsRead, Loading, Walk
<1>2. CASE ~Fits(next)
  <2>1. FirstData = {}
    <3>1. next > 0
      BY <1>1 DEF AtChunk
    <3>2. next \in Nat \ {0} /\ (next <= Len(chunks) => EndOf(chunks, next) > present)
      BY <1>1, <1>2, <3>1, FitsMeans
    <3>3. \A m \in 2 .. next - 1 : chunks[m].name # "data"
      BY <1>1 DEF NoDataYet
    <3> QED BY <1>1, <3>2, <3>3, NoneBehind
  <2>2. ~Readable
    BY <2>1 DEF Readable
  <2>3. Fails(-10)
    BY <1>2 DEF ReadsChunk
  <2> QED BY <1>1, <2>2, <2>3, FailsRightly DEF Loading
<1>3. CASE Fits(next)
  <2>1. /\ rest' = rest - (ChunkHeader + chunks[next].size) /\ next' = next + 1
        /\ UNCHANGED <<magic, chunks, present>>
    BY <1>3 DEF ReadsChunk, Skips
  <2>2. /\ next \in 1 .. Len(chunks) /\ rest' = present - EndOf(chunks, next)
        /\ rest' \in Nat /\ EndOf(chunks, next) \in Nat /\ EndOf(chunks, next) <= present
    <3>1. next > 0
      BY <1>1 DEF AtChunk
    <3> QED BY <1>1, <1>3, <2>1, <3>1, FitsMeans
  <2>3. CASE chunks[next].name = "data"
    <3>1. /\ samples' = [k \in 1 .. chunks[next].size \div 2 |-> <<next, k>>] /\ result' = 0
      BY <1>3, <2>3 DEF ReadsChunk
    <3>2. next \in FirstData
      <4>1. \A m \in 2 .. next - 1 : chunks[m].name # "data"
        BY <1>1 DEF NoDataYet
      <4>2. next \in 2 .. Len(chunks)
        BY <1>1, <2>2
      <4> QED BY <2>2, <2>3, <4>1, <4>2 DEF FirstData
    <3>3. FirstData' = FirstData /\ Readable'
      BY <1>1, <2>1, <3>2 DEF FirstData, Readable, IsPCM, IsRiff
    <3>4. WavIsRead'
      <4>1. rest' \in 0 .. present'
        BY <1>1, <2>1, <2>2
      <4>2. \E n \in FirstData' : samples' = [k \in 1 .. chunks'[n].size \div 2 |-> <<n, k>>]
        BY <2>1, <3>1, <3>2, <3>3
      <4> QED BY <3>1, <3>3, <4>1, <4>2 DEF WavIsRead
    <3> QED BY <1>1, <2>1, <3>1, <3>4 DEF WavIInv, Loading
  <2>4. CASE chunks[next].name # "data"
    <3>1. UNCHANGED <<samples, result>>
      BY <1>3, <2>4 DEF ReadsChunk
    <3>2. Walk'
      <4>1. next' - 1 = next /\ EndOf(chunks', next' - 1) = EndOf(chunks, next)
        BY <2>1, <2>2
      <4>2. AtChunk'
        BY <2>1, <2>2, <4>1 DEF AtChunk
      <4>3. NoDataYet'
        <5>1. ASSUME NEW m \in 2 .. next' - 1 PROVE chunks'[m].name # "data"
          <6>1. m \in 2 .. next - 1 \/ m = next
            BY <2>1, <2>2
          <6>2. \A k \in 2 .. next - 1 : chunks[k].name # "data"
            BY <1>1 DEF NoDataYet
          <6> QED BY <2>1, <2>4, <6>1, <6>2
        <5> QED BY <5>1 DEF NoDataYet
      <4>4. IsPCM' /\ IsRiff'
        BY <1>1, <2>1 DEF IsPCM, IsRiff
      <4> QED BY <4>2, <4>3, <4>4 DEF Walk
    <3>3. WavIsRead'
      BY <1>1, <2>1, <2>2, <3>1 DEF WavIsRead, Loading
    <3> QED BY <1>1, <2>1, <3>1, <3>2, <3>3 DEF WavIInv
  <2> QED BY <2>3, <2>4
<1> QED BY <1>2, <1>3

LEMMA IdleWav == ASSUME WavIInv, UNCHANGED wavVars PROVE WavIInv'
<1>1. UNCHANGED <<magic, chunks, present, rest, next, samples, result>>
  BY DEF wavVars
<1>2. Walk => Walk'
  BY <1>1 DEF Walk, AtChunk, NoDataYet, IsPCM, IsRiff
<1>3. WavIsRead'
  BY <1>1 DEF WavIInv, WavIsRead, Readable, FirstData
<1> QED BY <1>1, <1>2, <1>3 DEF WavIInv

\* A file of any number of chunks of any sizes, cut off anywhere, is read exactly if it is a
\* RIFF file of waves, its first chunk is a format that can be read and its first chunk of
\* data is there as a whole, and gives all the samples of that chunk; the position never leaves the file
\* (wav_reader.cpp:37-108).
THEOREM FilesAreRead == WavSpec => []WavIsRead
<1>1. WavIInv /\ [WavNext]_wavVars => WavIInv'
  BY ReadsRiffHolds, ReadsFormatHolds, ReadsChunkHolds, IdleWav DEF WavNext
<1>2. WavIInv => WavIsRead
  BY DEF WavIInv
<1> QED BY InitWav, <1>1, <1>2, PTL DEF WavSpec

-----------------------------------------------------------------------------
(* Options. *)

Value == Nat \X Nat

\* What the command line says of an option.
FromLine(k) == IF k \in line THEN <<Line>> ELSE << >>

Made == [url : Seq(Value), channel : Value, name : Value, metadata : Value, id : Nat]

OptTypes ==
  /\ file \in [entries : Seq(Entry), port : BOOLEAN]
  /\ line \in SUBSET (InstanceKeys \union {"port", "config"})
  /\ configs \in Seq(Made)
  /\ outcome \in {"parsing", "failed", "parsed", "exited", "ready"}

\* An entry says at most one thing of an option, and so does the command line.
LEMMA SaidOnce ==
  ASSUME NEW n \in Nat, NEW c \in Nat, NEW k
  PROVE  /\ Own(n, c, k) = << >> \/ \E v \in Value : Own(n, c, k) = <<v>> /\ (k # "metadata" => v = <<n, c>>) /\ n > 0
         /\ (FromLine(k) = << >> /\ k \notin line) \/ (FromLine(k) = <<Line>> /\ k \in line)
<1>1. <<n, c>> \in Value /\ <<n, Raw>> \in Value
  BY DEF Value, Raw
<1>2. Own(n, c, k) = << >> \/ \E v \in Value : Own(n, c, k) = <<v>> /\ (k # "metadata" => v = <<n, c>>) /\ n > 0
  BY <1>1 DEF Own
<1>3. (FromLine(k) = << >> /\ k \notin line) \/ (FromLine(k) = <<Line>> /\ k \in line)
  <2>1. CASE k \in line
    BY <2>1 DEF FromLine
  <2>2. CASE k \notin line
    BY <2>2 DEF FromLine
  <2> QED BY <2>1, <2>2
<1> QED BY <1>2, <1>3

\* What ParseArgs makes of arguments into an empty configuration.
LEMMA ParsedFields ==
  ASSUME NEW args
  PROVE  /\ ParsedConfig(args, NoConfig).url = args["url"]
         /\ \A k \in Plain : ParsedConfig(args, NoConfig)[k]
                               = IF args[k] = << >> THEN None ELSE Last(args[k])
         /\ ParsedConfig(args, NoConfig) =
              [url |-> ParsedConfig(args, NoConfig).url,
               channel |-> ParsedConfig(args, NoConfig).channel,
               name |-> ParsedConfig(args, NoConfig).name,
               metadata |-> ParsedConfig(args, NoConfig).metadata, id |-> 0]
<1>1. ParsedConfig(args, NoConfig) =
        [url |-> Parsed(args, << >>, "url"), channel |-> Parsed(args, None, "channel"),
         name |-> Parsed(args, None, "name"), metadata |-> Parsed(args, None, "metadata"), id |-> 0]
  BY DEF ParsedConfig, NoConfig
<1>2. Parsed(args, << >>, "url") = args["url"]
  BY DEF Parsed
<1>3. \A k \in Plain : Parsed(args, None, k) = IF args[k] = << >> THEN None ELSE Last(args[k])
  BY DEF Parsed, Plain
<1> QED BY <1>1, <1>2, <1>3 DEF Plain

LEMMA TwoInARow ==
  ASSUME NEW a, NEW b
  PROVE  <<a>> \o <<b>> = <<a, b>> /\ <<a, b>> # << >> /\ Last(<<a, b>>) = b
<1>1. <<a>> \o <<b>> = <<a, b>>
  <2> DEFINE s == <<a>>
             t == <<b>>
             ab == <<a, b>>
  <2>1. s \in Seq({a, b}) /\ t \in Seq({a, b}) /\ ab \in Seq({a, b})
        /\ Len(s) = 1 /\ Len(t) = 1 /\ Len(ab) = 2 /\ s[1] = a /\ t[1] = b /\ ab[1] = a /\ ab[2] = b
    OBVIOUS
  <2> HIDE DEF s, t, ab
  <2>2. s \o t \in Seq({a, b}) /\ Len(s \o t) = 2
        /\ \A i \in 1 .. 2 : (s \o t)[i] = IF i <= 1 THEN s[i] ELSE t[i - 1]
    BY <2>1, ConcatProperties
  <2>3. \A i \in 1 .. Len(s \o t) : (s \o t)[i] = ab[i]
    BY <2>1, <2>2
  <2>4. s \o t = ab
    BY <2>1, <2>2, <2>3, SeqEqual
  <2> QED BY <2>4 DEF s, t, ab
<1> QED BY <1>1 DEF Last

\* Of an option that is given, the command line is what counts.
LEMMA LastIsDue ==
  ASSUME NEW n \in Nat, NEW c \in Nat, NEW k \in Plain
  PROVE  LET given == Own(n, c, k) \o FromLine(k)
         IN  /\ given = << >> <=> Due(n, c, k) = << >>
             /\ given # << >> => /\ Due(n, c, k) = <<Last(given)>> /\ Last(given) \in Value
                                 /\ k \in Required => Last(given) # None
<1> DEFINE own == Own(n, c, k)
           said == FromLine(k)
<1>1. Line \in Value /\ Line # None
  BY DEF Line, None, Value
<1>2. ASSUME n > 0 PROVE <<n, c>> # None
  BY <1>2 DEF None
<1>3. k \in Required => k # "metadata"
  BY DEF Required
<1>4. own = << >> \/ \E v \in Value : own = <<v>> /\ (k # "metadata" => v = <<n, c>>) /\ n > 0
  BY SaidOnce
<1>5. (said = << >> /\ k \notin line) \/ (said = <<Line>> /\ k \in line)
  BY SaidOnce
<1>6. Due(n, c, k) = IF k \in line THEN <<Line>> ELSE own
  BY DEF Due
<1> HIDE DEF own, said
<1>7. ASSUME own = << >>
      PROVE  /\ own \o said = << >> <=> Due(n, c, k) = << >>
             /\ own \o said # << >> => /\ Due(n, c, k) = <<Last(own \o said)>> /\ Last(own \o said) \in Value
                                       /\ k \in Required => Last(own \o said) # None
  <2>1. << >> \o << >> = << >> /\ << >> \o <<Line>> = <<Line>> /\ <<Line>> # << >>
    OBVIOUS
  <2>2. Last(<<Line>>) = Line
    BY DEF Last
  <2>3. CASE said = << >> /\ k \notin line
    BY <1>6, <1>7, <2>1, <2>3
  <2>4. CASE said = <<Line>> /\ k \in line
    BY <1>1, <1>6, <1>7, <2>1, <2>2, <2>4
  <2> QED BY <1>5, <2>3, <2>4
<1>8. ASSUME NEW v \in Value, own = <<v>>, k # "metadata" => v = <<n, c>>, n > 0
      PROVE  /\ own \o said = << >> <=> Due(n, c, k) = << >>
             /\ own \o said # << >> => /\ Due(n, c, k) = <<Last(own \o said)>> /\ Last(own \o said) \in Value
                                       /\ k \in Required => Last(own \o said) # None
  <2>1. CASE said = << >> /\ k \notin line
    <3>1. own \o said = <<v>> /\ <<v>> # << >> /\ Last(<<v>>) = v
      BY <1>8, <2>1 DEF Last
    <3> QED BY <1>2, <1>3, <1>6, <1>8, <2>1, <3>1
  <2>2. CASE said = <<Line>> /\ k \in line
    <3>1. own \o said = <<v, Line>> /\ <<v, Line>> # << >> /\ Last(<<v, Line>>) = Line
      BY <1>8, <2>2, TwoInARow
    <3>2. Due(n, c, k) = <<Line>>
      BY <1>6, <2>2
    <3>3. Last(own \o said) = Line /\ own \o said # << >> /\ <<Line>> # << >>
      BY <3>1
    <3> QED BY <1>1, <3>2, <3>3
  <2> QED BY <1>5, <2>1, <2>2
<1> QED BY <1>4, <1>7, <1>8 DEF own, said

\* A configuration made from arguments that are those of an instance is its own, or lacks what
\* the instance does not say.
LEMMA ParsedIsOwn ==
  ASSUME NEW n \in Nat, NEW c \in Nat, NEW args,
         \A k \in InstanceKeys : args[k] = Own(n, c, k) \o FromLine(k)
  PROVE  /\ ParsedConfig(args, NoConfig) \in Made
         /\ ~LacksRequired(ParsedConfig(args, NoConfig)) => IsOwn(ParsedConfig(args, NoConfig), n, c)
         /\ LacksRequired(ParsedConfig(args, NoConfig)) =>
              \E k \in Required \union {"url"} : Due(n, c, k) = << >>
<1> DEFINE p == ParsedConfig(args, NoConfig)
<1>1. /\ p.url = args["url"]
      /\ \A k \in Plain : p[k] = IF args[k] = << >> THEN None ELSE Last(args[k])
      /\ p = [url |-> p.url, channel |-> p.channel, name |-> p.name,
              metadata |-> p.metadata, id |-> 0]
  BY ParsedFields
<1>2. /\ GivenTwice(n, "url") \/ args["url"] = Due(n, c, "url")
      /\ args["url"] = << >> <=> Due(n, c, "url") = << >>
      /\ args["url"] \in Seq(Value)
  <2>1. Own(n, c, "url") \in Seq(Value) /\ FromLine("url") \in Seq(Value)
    <3>1. Line \in Value
      BY DEF Line, Value
    <3>2. << >> \in Seq(Value) /\ \A v \in Value : <<v>> \in Seq(Value)
      OBVIOUS
    <3>3. Own(n, c, "url") = << >> \/ \E v \in Value : Own(n, c, "url") = <<v>>
      BY SaidOnce
    <3>4. FromLine("url") = << >> \/ FromLine("url") = <<Line>>
      BY SaidOnce
    <3> QED BY <3>1, <3>2, <3>3, <3>4
  <2>2. args["url"] = Own(n, c, "url") \o FromLine("url")
    BY DEF InstanceKeys
  <2>3. Own(n, c, "url") \o FromLine("url") \in Seq(Value)
    BY <2>1, ConcatProperties
  <2>4. \A s \in Seq(Value) : << >> \o s = s /\ s \o << >> = s
    OBVIOUS
  <2>5. CASE "url" \notin line
    <3>1. FromLine("url") = << >> /\ Due(n, c, "url") = Own(n, c, "url")
      BY <2>5 DEF FromLine, Due
    <3>2. args["url"] = Due(n, c, "url")
      BY <2>1, <2>2, <2>4, <3>1
    <3> QED BY <2>2, <2>3, <3>2
  <2>6. CASE "url" \in line
    <3>1. FromLine("url") = <<Line>> /\ Due(n, c, "url") = <<Line>> /\ <<Line>> # << >>
      BY <2>6 DEF FromLine, Due
    <3>2. CASE Own(n, c, "url") = << >>
      <4>1. args["url"] = Due(n, c, "url")
        BY <2>1, <2>2, <2>4, <3>1, <3>2
      <4> QED BY <2>2, <2>3, <4>1
    <3>3. ASSUME NEW v \in Value, Own(n, c, "url") = <<v>>
          PROVE  GivenTwice(n, "url") /\ args["url"] # << >>
      <4>1. n > 0 /\ "url" \in file.entries[n].keys
        BY <3>3 DEF Own
      <4>2. args["url"] = <<v, Line>> /\ <<v, Line>> # << >>
        BY <2>2, <3>1, <3>3, TwoInARow
      <4> QED BY <2>6, <4>1, <4>2 DEF GivenTwice
    <3>4. Own(n, c, "url") = << >> \/ \E v \in Value : Own(n, c, "url") = <<v>>
      BY SaidOnce
    <3> QED BY <2>2, <2>3, <3>1, <3>2, <3>3, <3>4
  <2> QED BY <2>5, <2>6
<1>3. ASSUME NEW k \in Plain
      PROVE  /\ <<p[k]>> = IF Due(n, c, k) = << >> THEN <<None>> ELSE Due(n, c, k)
             /\ p[k] \in Value
             /\ k \in Required => (p[k] = None <=> Due(n, c, k) = << >>)
  <2>1. args[k] = Own(n, c, k) \o FromLine(k)
    BY DEF InstanceKeys
  <2>2. /\ args[k] = << >> <=> Due(n, c, k) = << >>
        /\ args[k] # << >> => /\ Due(n, c, k) = <<Last(args[k])>> /\ Last(args[k]) \in Value
                              /\ k \in Required => Last(args[k]) # None
    BY <2>1, LastIsDue
  <2>3. None \in Value
    BY DEF None, Value
  <2>4. p[k] = IF args[k] = << >> THEN None ELSE Last(args[k])
    BY <1>1
  <2> QED BY <2>2, <2>3, <2>4
<1> HIDE DEF p
<1>4. p \in Made
  BY <1>1, <1>2, <1>3 DEF Made, Plain
<1>5. Required \subseteq Plain
  BY DEF Required, Plain
<1>6. ~LacksRequired(p) => IsOwn(p, n, c)
  BY <1>1, <1>2, <1>3 DEF LacksRequired, IsOwn
<1>7. LacksRequired(p) => \E k \in Required \union {"url"} : Due(n, c, k) = << >>
  BY <1>1, <1>2, <1>3, <1>5 DEF LacksRequired
<1> QED BY <1>4, <1>6, <1>7 DEF p

\* The arguments of the command line, and of a copy of an entry.
LEMMA LineArgs ==
  /\ \A k \in InstanceKeys : PostArgs[k] = Own(0, 0, k) \o FromLine(k)
  /\ PostArgs["port"] = FromLine("port")
<1>1. ASSUME NEW k \in InstanceKeys \union {"port"} PROVE PostArgs[k] = FromLine(k)
  BY DEF PostArgs, ArgsOf, FromLine, InstanceKeys, Plain
<1>2. ASSUME NEW k \in InstanceKeys PROVE PostArgs[k] = Own(0, 0, k) \o FromLine(k)
  <2>1. Own(0, 0, k) = << >>
    BY DEF Own
  <2>2. FromLine(k) \in Seq({Line})
    <3>1. FromLine(k) = << >> \/ FromLine(k) = <<Line>>
      BY SaidOnce
    <3>2. << >> \in Seq({Line}) /\ <<Line>> \in Seq({Line})
      OBVIOUS
    <3> QED BY <3>1, <3>2
  <2>3. << >> \o FromLine(k) = FromLine(k)
    BY <2>2
  <2> QED BY <1>1, <2>1, <2>3
<1> QED BY <1>1, <1>2

LEMMA EntryArgs ==
  ASSUME OptTypes, NEW n \in DOMAIN file.entries, NEW c \in Nat
  PROVE  /\ \A k \in InstanceKeys : AllArgs(n, c)[k] = Own(n, c, k) \o FromLine(k)
         /\ AllArgs(n, c)["port"] = (IF file.port THEN <<Common>> ELSE << >>) \o FromLine("port")
<1>1. /\ n \in Nat /\ n > 0 /\ file.entries[n].keys \subseteq InstanceKeys
  <2>1. file.entries \in Seq(Entry)
    BY DEF OptTypes
  <2>2. file.entries[n] \in Entry
    BY <2>1
  <2>3. \A e \in Entry : e.keys \in Givens
    BY DEF Entry
  <2>4. InstanceKeys = {"url", "channel", "name", "metadata"}
    BY DEF InstanceKeys, Plain
  <2>5. file.entries[n].keys \in SUBSET InstanceKeys
    BY <2>2, <2>3, <2>4, GivensAssumption, Zenon
  <2> QED BY <2>1, <2>5
<1>2. DOMAIN PostArgs = InstanceKeys \union {"port"}
  BY DEF PostArgs, ArgsOf
<1>3. ASSUME NEW k \in InstanceKeys \union {"port"}
      PROVE  /\ PostArgs[k] = FromLine(k)
             /\ CommonArgs[k] = IF file.port /\ k = "port" THEN <<Common>> ELSE << >>
             /\ InstanceArgs(n, c)[k] = Own(n, c, k)
             /\ AllArgs(n, c)[k] = CommonArgs[k] \o InstanceArgs(n, c)[k] \o PostArgs[k]
  <2>1. PostArgs[k] = FromLine(k)
    BY DEF PostArgs, ArgsOf, FromLine, InstanceKeys, Plain
  <2>2. CommonArgs[k] = IF file.port /\ k = "port" THEN <<Common>> ELSE << >>
    BY DEF CommonArgs, ArgsOf
  <2>3. InstanceArgs(n, c)[k] = Own(n, c, k)
    BY <1>1 DEF InstanceArgs, ArgsOf, Own, Converted
  <2>4. AllArgs(n, c)[k] = CommonArgs[k] \o InstanceArgs(n, c)[k] \o PostArgs[k]
    BY <1>2 DEF AllArgs
  <2> QED BY <2>1, <2>2, <2>3, <2>4
<1>4. ASSUME NEW k PROVE Own(n, c, k) \in Seq(Value) /\ FromLine(k) \in Seq(Value)
  <2>1. Line \in Value
    BY DEF Line, Value
  <2>2. << >> \in Seq(Value) /\ \A v \in Value : <<v>> \in Seq(Value)
    OBVIOUS
  <2>3. Own(n, c, k) = << >> \/ \E v \in Value : Own(n, c, k) = <<v>>
    BY <1>1, SaidOnce
  <2>4. FromLine(k) = << >> \/ FromLine(k) = <<Line>>
    BY <1>1, SaidOnce
  <2> QED BY <2>1, <2>2, <2>3, <2>4
<1>5. \A s \in Seq(Value) : << >> \o s = s /\ s \o << >> = s
  OBVIOUS
<1>6. ASSUME NEW k \in InstanceKeys PROVE AllArgs(n, c)[k] = Own(n, c, k) \o FromLine(k)
  <2>1. CommonArgs[k] = << >>
    BY <1>3 DEF InstanceKeys, Plain
  <2> QED BY <1>3, <1>4, <1>5, <2>1
<1>7. AllArgs(n, c)["port"] = (IF file.port THEN <<Common>> ELSE << >>) \o FromLine("port")
  <2>1. Own(n, c, "port") = << >>
    BY <1>1 DEF Own, InstanceKeys, Plain
  <2>2. CommonArgs["port"] = IF file.port THEN <<Common>> ELSE << >>
    BY <1>3
  <2>3. CommonArgs["port"] \in Seq(Value)
    BY <2>2 DEF Common, Value
  <2>4. CommonArgs["port"] \o << >> = CommonArgs["port"]
    BY <1>5, <2>3
  <2> QED BY <1>3, <2>1, <2>2, <2>4
<1> QED BY <1>6, <1>7

-----------------------------------------------------------------------------
\* The instances that have their configuration.
Done ==
  IF "config" \in line
  THEN {a \in Asked : a[1] < entry \/ (a[1] = entry /\ a[2] <= copy)}
  ELSE IF outcome = "parsing" THEN {} ELSE {Line}

\* What the process gets: of the command line, and of the file once an entry has been read.
PortRight ==
  port = IF "port" \in line THEN Line
         ELSE IF "config" \in line /\ file.port /\ configs # << >> THEN Common ELSE None

OptIInv ==
  /\ OptTypes
  /\ entry \in Nat /\ copy \in Nat
  /\ outcome = "parsing" /\ entry = 0 =>
       config = NoConfig /\ port = None /\ configs = << >> /\ copy = 0
  /\ entry > 0 => "config" \in line
  /\ outcome \in {"parsing", "parsed"} => AreThoseOf(configs, Done)
  /\ outcome = "parsed" => Done = Asked
  /\ outcome \in {"parsed", "ready"} \/ (outcome = "parsing" /\ entry > 0) => PortRight
  /\ EachInstanceItsOwn

\* The copies that a file asks for.
LEMMA AskedOfFile ==
  ASSUME OptTypes, "config" \in line
  PROVE  /\ \A a \in Asked : /\ a = <<a[1], a[2]>> /\ a[1] \in DOMAIN file.entries
                             /\ a[1] \in Nat /\ a[1] > 0 /\ a[2] \in Nat /\ a[2] > 0
                             /\ a[2] <= file.entries[a[1]].num
         /\ \A n \in DOMAIN file.entries : \A c \in 1 .. file.entries[n].num : <<n, c>> \in Asked
         /\ \A n \in DOMAIN file.entries : n \in Nat /\ n > 0 /\ file.entries[n].num \in Nat
<1>1. file.entries \in Seq(Entry)
  BY DEF OptTypes
<1>2. \A n \in DOMAIN file.entries : n \in Nat /\ n > 0 /\ file.entries[n].num \in Nat
  <2>1. \A e \in Entry : e.num \in 0 .. MaxNum
    BY DEF Entry
  <2>2. \A n \in DOMAIN file.entries : n \in Nat /\ n > 0 /\ file.entries[n] \in Entry
    BY <1>1
  <2>3. 0 .. MaxNum \subseteq Nat
    BY EntriesAssumption
  <2> QED BY <2>1, <2>2, <2>3
<1>3. Asked = UNION {{<<n, c>> : c \in 1 .. file.entries[n].num} : n \in DOMAIN file.entries}
  BY DEF Asked
<1>4. ASSUME NEW a \in Asked
      PROVE  \E n \in DOMAIN file.entries : \E c \in 1 .. file.entries[n].num : a = <<n, c>>
  BY <1>3
<1>5. ASSUME NEW n \in DOMAIN file.entries, NEW c \in 1 .. file.entries[n].num
      PROVE  <<n, c>> \in Asked
  BY <1>3
<1> QED BY <1>2, <1>4, <1>5

\* One more configuration, of an instance behind those before it.
LEMMA AppendThose ==
  ASSUME NEW cs \in Seq(Made), NEW S, AreThoseOf(cs, S), NEW n, NEW c, NEW p \in Made, IsOwn(p, n, c),
         \A b \in S : Before(b, <<n, c>>)
  PROVE  AreThoseOf(Append(cs, p), S \union {<<n, c>>})
<1> DEFINE m == Len(cs)
           z == <<n, c>>
           ds == Append(cs, p)
<1>1. PICK f \in [DOMAIN cs -> S] :
        /\ \A i, j \in DOMAIN cs : i < j => Before(f[i], f[j])
        /\ {f[i] : i \in DOMAIN cs} = S
        /\ \A i \in DOMAIN cs : IsOwn(cs[i], f[i][1], f[i][2])
  BY DEF AreThoseOf
<1>2. /\ m \in Nat /\ DOMAIN cs = 1 .. m /\ DOMAIN ds = 1 .. m + 1
      /\ ds[m + 1] = p /\ \A i \in 1 .. m : ds[i] = cs[i]
  OBVIOUS
<1>3. z[1] = n /\ z[2] = c
  OBVIOUS
<1> HIDE DEF m, z, ds
<1> DEFINE g == [i \in 1 .. m + 1 |-> IF i = m + 1 THEN z ELSE f[i]]
<1>4. g[m + 1] = z /\ \A i \in 1 .. m : g[i] = f[i] /\ f[i] \in S
  BY <1>1, <1>2
<1>5. \A i \in 1 .. m + 1 : i \in 1 .. m \/ i = m + 1
  BY <1>2
<1>6. g \in [1 .. m + 1 -> S \union {z}]
  BY <1>4, <1>5
<1> HIDE DEF g
<1>7. ASSUME NEW i \in 1 .. m + 1, NEW j \in 1 .. m + 1, i < j PROVE Before(g[i], g[j])
  <2>1. i \in 1 .. m
    BY <1>2, <1>7
  <2>2. CASE j = m + 1
    BY <1>4, <2>1, <2>2 DEF z
  <2>3. CASE j \in 1 .. m
    <3>1. Before(f[i], f[j])
      BY <1>1, <1>2, <1>7, <2>1, <2>3
    <3> QED BY <1>4, <2>1, <2>3, <3>1
  <2> QED BY <1>5, <2>2, <2>3
<1>8. {g[i] : i \in 1 .. m + 1} = S \union {z}
  <2>1. ASSUME NEW i \in 1 .. m + 1 PROVE g[i] \in S \union {z}
    BY <1>4, <1>5
  <2>2. ASSUME NEW b \in S PROVE \E i \in 1 .. m + 1 : g[i] = b
    <3>1. PICK i \in 1 .. m : f[i] = b
      BY <1>1, <1>2
    <3> QED BY <1>2, <1>4, <3>1
  <2>3. m + 1 \in 1 .. m + 1
    BY <1>2
  <2> QED BY <1>4, <2>1, <2>2, <2>3
<1>9. ASSUME NEW i \in 1 .. m + 1 PROVE IsOwn(ds[i], g[i][1], g[i][2])
  <2>1. CASE i = m + 1
    BY <1>2, <1>3, <1>4, <2>1
  <2>2. CASE i \in 1 .. m
    BY <1>1, <1>2, <1>4, <2>2
  <2> QED BY <1>5, <2>1, <2>2
<1>10. /\ g \in [DOMAIN ds -> S \union {z}]
       /\ \A i, j \in DOMAIN ds : i < j => Before(g[i], g[j])
       /\ {g[i] : i \in DOMAIN ds} = S \union {z}
       /\ \A i \in DOMAIN ds : IsOwn(ds[i], g[i][1], g[i][2])
  BY <1>2, <1>6, <1>7, <1>8, <1>9
<1> QED BY <1>10, Zenon DEF AreThoseOf, z, ds

LEMMA ThoseKept ==
  ASSUME UNCHANGED <<file, line>>, NEW cs, NEW S
  PROVE  AreThoseOf(cs, S)' <=> AreThoseOf(cs, S)
<1>1. \A a, b, k : Due(a, b, k)' = Due(a, b, k)
  BY DEF Due, Own
<1>2. ASSUME NEW p, NEW a, NEW b PROVE IsOwn(p, a, b)' <=> IsOwn(p, a, b)
  <2>1. Due(a, b, "url")' = Due(a, b, "url") /\ \A k \in Plain : Due(a, b, k)' = Due(a, b, k)
    BY <1>1
  <2>2. GivenTwice(a, "url")' <=> GivenTwice(a, "url")
    BY DEF GivenTwice
  <2> QED BY <2>1, <2>2 DEF IsOwn
<1> QED BY <1>2, Zenon DEF AreThoseOf

\* Numbers change nothing else.
LEMMA NumberedThose ==
  ASSUME NEW cs \in Seq(Made), NEW S, AreThoseOf(cs, S), NEW ds,
         ds = [i \in DOMAIN cs |-> [cs[i] EXCEPT !.id = i - 1]]
  PROVE  /\ ds \in Seq(Made) /\ AreThoseOf(ds, S)
         /\ \A i \in DOMAIN ds : ds[i].id = i - 1
<1>1. Len(cs) \in Nat /\ DOMAIN cs = 1 .. Len(cs) /\ DOMAIN ds = DOMAIN cs
  OBVIOUS
<1>2. ASSUME NEW i \in DOMAIN cs
      PROVE  /\ ds[i] \in Made /\ ds[i].id = i - 1 /\ ds[i].url = cs[i].url
             /\ \A k \in Plain : ds[i][k] = cs[i][k]
  <2>1. cs[i] \in Made /\ i - 1 \in Nat /\ ds[i] = [cs[i] EXCEPT !.id = i - 1]
    BY <1>1
  <2>2. ASSUME NEW e \in Made, NEW n \in Nat, NEW q, q = [e EXCEPT !.id = n]
        PROVE  /\ q \in Made /\ q.id = n /\ q.url = e.url
               /\ \A k \in Plain : q[k] = e[k]
    BY <2>2 DEF Made, Plain
  <2> QED BY <2>1, <2>2
<1>3. ds \in Seq(Made)
  <2>1. \A i \in 1 .. Len(cs) : ds[i] \in Made
    BY <1>1, <1>2
  <2>2. ds = [i \in 1 .. Len(cs) |-> ds[i]]
    BY <1>1
  <2> QED BY <1>1, <2>1, <2>2
<1>4. ASSUME NEW i \in DOMAIN cs, NEW n, NEW c, IsOwn(cs[i], n, c) PROVE IsOwn(ds[i], n, c)
  <2>1. Required \subseteq Plain
    BY DEF Required, Plain
  <2> QED BY <1>2, <1>4, <2>1 DEF IsOwn
<1>5. AreThoseOf(ds, S)
  BY <1>1, <1>4 DEF AreThoseOf
<1> QED BY <1>1, <1>2, <1>3, <1>5

LEMMA NoneYet == AreThoseOf(<< >>, {})
<1> DEFINE f == [i \in {} |-> i]
<1>1. DOMAIN << >> = {} /\ f \in [{} -> {}] /\ {f[i] : i \in {}} = {}
  OBVIOUS
<1> HIDE DEF f
<1> QED BY <1>1 DEF AreThoseOf

LEMMA InitOpt == OptInit => OptIInv
<1> SUFFICES ASSUME OptInit PROVE OptIInv
  OBVIOUS
<1>1. PICK n \in 0 .. MaxEntries, g \in BOOLEAN :
        \E es \in [1 .. n -> Entry] :
          \E l \in SUBSET (InstanceKeys \union {"port", "config"}) :
            OptStart([entries |-> es, port |-> g], l)
  BY DEF OptInit
<1>2. PICK es \in [1 .. n -> Entry] :
        \E l \in SUBSET (InstanceKeys \union {"port", "config"}) :
          OptStart([entries |-> es, port |-> g], l)
  BY <1>1
<1>3. PICK l \in SUBSET (InstanceKeys \union {"port", "config"}) :
        OptStart([entries |-> es, port |-> g], l)
  BY <1>2
<1>4. /\ file = [entries |-> es, port |-> g] /\ line = l /\ entry = 0 /\ copy = 0
      /\ config = NoConfig /\ port = None /\ configs = << >> /\ outcome = "parsing"
  BY <1>3 DEF OptStart
<1>5. es \in Seq(Entry)
  <2>1. n \in Nat
    BY EntriesAssumption
  <2> QED BY <2>1
<1>6. OptTypes
  BY <1>4, <1>5 DEF OptTypes
<1>7. Done = {}
  <2>1. CASE "config" \in line
    <3>1. \A a \in Asked : a[1] \in Nat /\ a[1] > 0
      BY <1>6, <2>1, AskedOfFile
    <3>2. \A a \in Asked : ~(a[1] < entry \/ (a[1] = entry /\ a[2] <= copy))
      BY <1>4, <3>1
    <3> QED BY <2>1, <3>2 DEF Done
  <2>2. CASE "config" \notin line
    BY <1>4, <2>2 DEF Done
  <2> QED BY <2>1, <2>2
<1>8. AreThoseOf(configs, Done)
  BY <1>4, <1>7, NoneYet
<1> QED BY <1>4, <1>6, <1>8 DEF OptIInv, EachInstanceItsOwn

\* What the command line gives the process.
LEMMA PortOfLine ==
  ASSUME NEW old
  PROVE  Parsed(PostArgs, old, "port") = IF "port" \in line THEN Line ELSE old
<1>1. PostArgs["port"] = FromLine("port")
  BY LineArgs
<1>2. Last(<<Line>>) = Line /\ <<Line>> # << >>
  BY DEF Last
<1>3. (FromLine("port") = << >> /\ "port" \notin line) \/ (FromLine("port") = <<Line>> /\ "port" \in line)
  BY SaidOnce
<1> QED BY <1>1, <1>2, <1>3 DEF Parsed

LEMMA PortOfEntry ==
  ASSUME OptTypes, NEW n \in DOMAIN file.entries, NEW c \in Nat, NEW old
  PROVE  Parsed(AllArgs(n, c), old, "port")
           = IF "port" \in line THEN Line ELSE IF file.port THEN Common ELSE old
<1> DEFINE common == IF file.port THEN <<Common>> ELSE << >>
           said == FromLine("port")
<1>1. AllArgs(n, c)["port"] = common \o said
  BY EntryArgs
<1>2. (said = << >> /\ "port" \notin line) \/ (said = <<Line>> /\ "port" \in line)
  BY SaidOnce
<1>3. (common = << >> /\ ~file.port) \/ (common = <<Common>> /\ file.port)
  OBVIOUS
<1>4. /\ << >> \o << >> = << >> /\ << >> \o <<Line>> = <<Line>> /\ <<Common>> \o << >> = <<Common>>
      /\ <<Line>> # << >> /\ <<Common>> # << >>
  OBVIOUS
<1>5. Last(<<Line>>) = Line /\ Last(<<Common>>) = Common
  BY DEF Last
<1>6. /\ <<Common>> \o <<Line>> = <<Common, Line>> /\ <<Common, Line>> # << >>
      /\ Last(<<Common, Line>>) = Line
  BY TwoInARow
<1> HIDE DEF common, said
<1>7. CASE said = << >> /\ "port" \notin line
  BY <1>1, <1>3, <1>4, <1>5, <1>7 DEF Parsed
<1>8. CASE said = <<Line>> /\ "port" \in line
  BY <1>1, <1>3, <1>4, <1>5, <1>6, <1>8 DEF Parsed
<1> QED BY <1>2, <1>7, <1>8

\* The first ParseArgs.
LEMMA CommandLineHolds == ASSUME OptIInv, ParsesCommandLine PROVE OptIInv'
<1> DEFINE p == ParsedConfig(PostArgs, NoConfig)
<1>1. /\ OptTypes /\ outcome = "parsing" /\ entry = 0 /\ copy = 0
      /\ config = NoConfig /\ port = None /\ configs = << >>
      /\ UNCHANGED <<file, line, copy>>
      /\ port' = Parsed(PostArgs, port, "port")
  BY DEF OptIInv, ParsesCommandLine
<1>2. IF "config" \in line
      THEN /\ outcome' = IF file.entries = << >> THEN "failed" ELSE "parsing"
           /\ entry' = 1
           /\ UNCHANGED configs
      ELSE /\ outcome' = IF LacksRequired(p) THEN "exited" ELSE "parsed"
           /\ configs' = IF LacksRequired(p) THEN configs ELSE Append(configs, p)
           /\ UNCHANGED entry
  BY <1>1, Zenon DEF ParsesCommandLine
<1>3. /\ p \in Made /\ (~LacksRequired(p) => IsOwn(p, 0, 0))
      /\ LacksRequired(p) => \E k \in Required \union {"url"} : Due(0, 0, k) = << >>
  BY LineArgs, ParsedIsOwn
<1>4. port' = IF "port" \in line THEN Line ELSE None
  BY <1>1, PortOfLine
<1> HIDE DEF p
<1>5. CASE "config" \in line
  <2>1. OptTypes' /\ configs' = << >> /\ entry' = 1 /\ copy' = 0 /\ outcome' \in {"parsing", "failed"}
    BY <1>1, <1>2, <1>5 DEF OptTypes
  <2>2. PortRight'
    BY <1>1, <1>4, <2>1 DEF PortRight
  <2>3. Done' = {}
    <3>1. \A a \in Asked : a[1] \in Nat /\ a[1] > 0 /\ a[2] \in Nat /\ a[2] > 0
      BY <1>1, <1>5, AskedOfFile
    <3>2. Asked' = Asked
      BY <1>1 DEF Asked
    <3>3. \A a \in Asked : ~(a[1] < 1 \/ (a[1] = 1 /\ a[2] <= 0))
      BY <3>1
    <3>4. Done' = {a \in Asked : a[1] < 1 \/ (a[1] = 1 /\ a[2] <= 0)}
      BY <1>1, <1>5, <2>1, <3>2 DEF Done
    <3> QED BY <3>3, <3>4
  <2>4. AreThoseOf(configs, Done)'
    <3>1. AreThoseOf(<< >>, {})'
      BY <1>1, NoneYet, ThoseKept
    <3> QED BY <2>1, <2>3, <3>1, Zenon
  <2>5. EachInstanceItsOwn'
    BY <2>1 DEF EachInstanceItsOwn
  <2> QED BY <1>1, <1>5, <2>1, <2>2, <2>4, <2>5 DEF OptIInv
<1>6. CASE "config" \notin line /\ LacksRequired(p)
  <2>1. OptTypes' /\ outcome' = "exited" /\ entry' = 0 /\ copy' = 0
    BY <1>1, <1>2, <1>6 DEF OptTypes
  <2>2. \E k \in Required \union {"url"} : Due(0, 0, k)' = << >>
    <3>1. \A a, b, k : Due(a, b, k)' = Due(a, b, k)
      BY <1>1 DEF Due, Own
    <3> QED BY <1>3, <1>6, <3>1
  <2>3. Line \in Asked' /\ Line[1] = 0 /\ Line[2] = 0
    BY <1>1, <1>6 DEF Asked, Line
  <2>4. \E a \in Asked' : \E k \in Required \union {"url"} : Due(a[1], a[2], k)' = << >>
    BY <2>2, <2>3
  <2>5. EachInstanceItsOwn'
    BY <2>1, <2>4 DEF EachInstanceItsOwn
  <2> QED BY <2>1, <2>5 DEF OptIInv
<1>7. CASE "config" \notin line /\ ~LacksRequired(p)
  <2>1. outcome' = "parsed" /\ entry' = 0 /\ copy' = 0 /\ configs' = Append(configs, p)
    BY <1>1, <1>2, <1>7
  <2>2. OptTypes'
    BY <1>1, <1>3, <2>1 DEF OptTypes
  <2>3. PortRight'
    BY <1>1, <1>4, <1>7 DEF PortRight
  <2>4. Done' = {Line} /\ Asked' = {Line}
    BY <1>1, <1>7, <2>1 DEF Done, Asked
  <2>5. AreThoseOf(configs, Done)'
    <3>1. << >> \in Seq(Made)
      OBVIOUS
    <3>2. AreThoseOf(Append(<< >>, p), {} \union {<<0, 0>>})
      BY <1>3, <1>7, <3>1, NoneYet, AppendThose
    <3>3. AreThoseOf(configs', {Line})
      BY <1>1, <2>1, <3>2 DEF Line
    <3>4. PICK cs : cs = configs'
      OBVIOUS
    <3>5. AreThoseOf(cs, {<<0, 0>>})
      BY <3>3, <3>4 DEF Line
    <3>6. AreThoseOf(cs, {<<0, 0>>})'
      BY <1>1, <3>5, ThoseKept
    <3> QED BY <2>4, <3>4, <3>6, Zenon DEF Line
  <2>6. EachInstanceItsOwn'
    BY <2>1 DEF EachInstanceItsOwn
  <2> QED BY <2>1, <2>2, <2>3, <2>4, <2>5, <2>6 DEF OptIInv
<1> QED BY <1>5, <1>6, <1>7

\* A copy of an entry.
LEMMA InstanceHolds == ASSUME OptIInv, ParsesInstance PROVE OptIInv'
<1> DEFINE args == AllArgs(entry, copy + 1)
           p == ParsedConfig(args, NoConfig)
<1>1. /\ OptTypes /\ outcome = "parsing" /\ entry \in DOMAIN file.entries /\ entry \in Nat /\ entry > 0
      /\ copy \in Nat /\ copy + 1 \in 1 .. file.entries[entry].num
      /\ "config" \in line /\ AreThoseOf(configs, Done) /\ PortRight
      /\ UNCHANGED <<file, line, entry>> /\ copy' = copy + 1
  <2>1. OptTypes /\ copy \in Nat /\ outcome = "parsing" /\ entry \in 1 .. Len(file.entries)
    BY DEF OptIInv, ParsesInstance
  <2>2. entry \in DOMAIN file.entries /\ entry \in Nat /\ entry > 0
    BY <2>1 DEF OptTypes
  <2>3. "config" \in line /\ AreThoseOf(configs, Done) /\ PortRight
    BY <2>1, <2>2 DEF OptIInv
  <2>4. copy < file.entries[entry].num /\ UNCHANGED <<file, line, entry>> /\ copy' = copy + 1
    BY DEF ParsesInstance
  <2>5. file.entries[entry].num \in Nat
    BY <2>1, <2>2, <2>3, AskedOfFile
  <2> QED BY <2>1, <2>2, <2>3, <2>4, <2>5
<1>2. /\ port' = Parsed(args, port, "port")
      /\ IF LacksRequired(p)
         THEN outcome' = "exited" /\ UNCHANGED configs
         ELSE configs' = Append(configs, p) /\ UNCHANGED outcome
  BY Zenon DEF ParsesInstance, Fresh
<1>3. /\ p \in Made /\ (~LacksRequired(p) => IsOwn(p, entry, copy + 1))
      /\ LacksRequired(p) => \E k \in Required \union {"url"} : Due(entry, copy + 1, k) = << >>
  <2>1. copy + 1 \in Nat
    BY <1>1
  <2>2. \A k \in InstanceKeys : args[k] = Own(entry, copy + 1, k) \o FromLine(k)
    BY <1>1, <2>1, EntryArgs
  <2> HIDE DEF args
  <2> QED BY <1>1, <2>1, <2>2, ParsedIsOwn
<1>4. port' = IF "port" \in line THEN Line ELSE IF file.port THEN Common ELSE None
  <2>1. copy + 1 \in Nat
    BY <1>1
  <2>2. port' = IF "port" \in line THEN Line ELSE IF file.port THEN Common ELSE port
    BY <1>1, <1>2, <2>1, PortOfEntry
  <2>3. "port" \notin line /\ ~file.port => port = None
    BY <1>1 DEF PortRight
  <2> QED BY <2>2, <2>3
<1> HIDE DEF args, p
<1>5. PICK n, c : n = entry /\ c = copy + 1
  OBVIOUS
<1>6. <<n, c>> \in Asked /\ n \in Nat /\ c \in Nat /\ c > 0
  BY <1>1, <1>5, AskedOfFile
<1>7. Asked' = Asked
  BY <1>1 DEF Asked
<1>8. CASE LacksRequired(p)
  <2>1. OptTypes' /\ outcome' = "exited" /\ entry' \in Nat /\ copy' \in Nat /\ "config" \in line'
    BY <1>1, <1>2, <1>8 DEF OptTypes
  <2>2. \A a, b, k : Due(a, b, k)' = Due(a, b, k)
    BY <1>1 DEF Due, Own
  <2>3. \E k \in Required \union {"url"} : Due(n, c, k)' = << >>
    BY <1>3, <1>5, <1>8, <2>2
  <2>4. <<n, c>>[1] = n /\ <<n, c>>[2] = c
    OBVIOUS
  <2>5. \E a \in Asked' : \E k \in Required \union {"url"} : Due(a[1], a[2], k)' = << >>
    BY <1>6, <1>7, <2>3, <2>4
  <2>6. EachInstanceItsOwn'
    BY <2>1, <2>5 DEF EachInstanceItsOwn
  <2> QED BY <2>1, <2>6 DEF OptIInv
<1>9. CASE ~LacksRequired(p)
  <2>1. outcome' = "parsing" /\ configs' = Append(configs, p)
    BY <1>1, <1>2, <1>9
  <2>2. OptTypes' /\ configs' # << >>
    BY <1>1, <1>3, <2>1 DEF OptTypes
  <2>3. PortRight'
    BY <1>1, <1>4, <2>2 DEF PortRight
  <2>4. PICK S, T, cs, q : S = Done /\ T = Done' /\ cs = configs /\ q = p
    OBVIOUS
  <2>5. /\ S = {a \in Asked : a[1] < n \/ (a[1] = n /\ a[2] <= c - 1)}
        /\ T = {a \in Asked : a[1] < n \/ (a[1] = n /\ a[2] <= c)}
    <3>1. Done = {a \in Asked : a[1] < entry \/ (a[1] = entry /\ a[2] <= copy)}
      BY <1>1 DEF Done
    <3>2. Done' = {a \in Asked' : a[1] < entry' \/ (a[1] = entry' /\ a[2] <= copy')}
      BY <1>1 DEF Done
    <3>3. entry' = n /\ copy' = c /\ c - 1 = copy
      BY <1>1, <1>5
    <3> QED BY <1>5, <1>7, <2>4, <3>1, <3>2, <3>3
  <2>6. \A a \in Asked : a = <<a[1], a[2]>> /\ a[1] \in Nat /\ a[2] \in Nat
    BY <1>1, AskedOfFile
  <2>7. T = S \union {<<n, c>>}
    BY <1>6, <2>5, <2>6
  <2>8. \A b \in S : Before(b, <<n, c>>)
    BY <1>6, <2>5, <2>6 DEF Before
  <2>9. AreThoseOf(Append(cs, q), S \union {<<n, c>>})
    <3>1. cs \in Seq(Made) /\ q \in Made /\ IsOwn(q, n, c) /\ AreThoseOf(cs, S)
      BY <1>1, <1>3, <1>5, <1>9, <2>4 DEF OptTypes
    <3> QED BY <2>8, <3>1, AppendThose
  <2>10. AreThoseOf(configs, Done)'
    <3>1. AreThoseOf(Append(cs, q), T)'
      BY <1>1, <2>7, <2>9, ThoseKept
    <3>2. configs' = Append(cs, q)
      BY <2>1, <2>4
    <3> QED BY <2>4, <3>1, <3>2, Zenon
  <2>11. EachInstanceItsOwn'
    BY <2>1 DEF EachInstanceItsOwn
  <2> QED BY <1>1, <2>1, <2>2, <2>3, <2>10, <2>11 DEF OptIInv
<1> QED BY <1>8, <1>9

\* The end of an entry.
LEMMA NextEntryHolds == ASSUME OptIInv, GoesToNextEntry PROVE OptIInv'
<1>1. /\ OptTypes /\ outcome = "parsing" /\ entry \in 1 .. Len(file.entries)
      /\ copy = file.entries[entry].num /\ entry' = entry + 1 /\ copy' = 0
      /\ outcome' = IF entry = Len(file.entries) THEN "parsed" ELSE outcome
      /\ UNCHANGED <<file, line, config, port, configs>>
  BY DEF OptIInv, GoesToNextEntry
<1>2. /\ entry \in DOMAIN file.entries /\ entry \in Nat /\ entry > 0 /\ Len(file.entries) \in Nat
      /\ DOMAIN file.entries = 1 .. Len(file.entries)
  BY <1>1 DEF OptTypes
<1>3. "config" \in line /\ AreThoseOf(configs, Done) /\ PortRight
  BY <1>1, <1>2 DEF OptIInv
<1>4. OptTypes' /\ outcome' \in {"parsing", "parsed"}
  BY <1>1 DEF OptTypes
<1>5. PortRight'
  BY <1>1, <1>3 DEF PortRight
<1>6. Asked' = Asked
  BY <1>1 DEF Asked
<1>7. \A a \in Asked : /\ a[1] \in DOMAIN file.entries /\ a[1] \in Nat /\ a[2] \in Nat /\ a[2] > 0
                       /\ a[2] <= file.entries[a[1]].num
  BY <1>1, <1>3, AskedOfFile
<1>8. Done' = Done
  <2>1. Done = {a \in Asked : a[1] < entry \/ (a[1] = entry /\ a[2] <= copy)}
    BY <1>3 DEF Done
  <2>2. Done' = {a \in Asked : a[1] < entry + 1 \/ (a[1] = entry + 1 /\ a[2] <= 0)}
    BY <1>1, <1>3, <1>6 DEF Done
  <2>3. ASSUME NEW a \in Asked
        PROVE  (a[1] < entry \/ (a[1] = entry /\ a[2] <= copy))
                 <=> (a[1] < entry + 1 \/ (a[1] = entry + 1 /\ a[2] <= 0))
    <3>1. a[1] = entry => a[2] <= copy
      BY <1>1, <1>7
    <3> QED BY <1>2, <1>7, <3>1
  <2> QED BY <2>1, <2>2, <2>3
<1>9. AreThoseOf(configs, Done)'
  <2>1. PICK cs, S : cs = configs /\ S = Done
    OBVIOUS
  <2>2. AreThoseOf(cs, S)'
    BY <1>1, <1>3, <2>1, ThoseKept
  <2> QED BY <1>1, <1>8, <2>1, <2>2, Zenon
<1>10. outcome' = "parsed" => Done' = Asked'
  <2> SUFFICES ASSUME entry = Len(file.entries) PROVE Done' = Asked
    BY <1>1, <1>6
  <2>1. Done' = {a \in Asked : a[1] < entry + 1 \/ (a[1] = entry + 1 /\ a[2] <= 0)}
    BY <1>1, <1>3, <1>6 DEF Done
  <2>2. \A a \in Asked : a[1] < entry + 1
    BY <1>2, <1>7
  <2> QED BY <2>1, <2>2
<1>11. EachInstanceItsOwn'
  BY <1>4 DEF EachInstanceItsOwn
<1> QED BY <1>1, <1>2, <1>3, <1>4, <1>5, <1>9, <1>10, <1>11 DEF OptIInv

\* Every configuration gets its number.
LEMMA NumbersHold == ASSUME OptIInv, NumbersConfigs PROVE OptIInv'
<1>1. /\ OptTypes /\ outcome = "parsed" /\ outcome' = "ready"
      /\ configs' = [i \in DOMAIN configs |-> [configs[i] EXCEPT !.id = i - 1]]
      /\ UNCHANGED <<file, line, entry, copy, config, port>>
      /\ entry \in Nat /\ copy \in Nat /\ (entry > 0 => "config" \in line)
      /\ AreThoseOf(configs, Asked) /\ PortRight
  BY DEF OptIInv, NumbersConfigs
<1>2. PICK cs, ds, S : cs = configs /\ ds = configs' /\ S = Asked
  OBVIOUS
<1>3. cs \in Seq(Made) /\ AreThoseOf(cs, S) /\ ds = [i \in DOMAIN cs |-> [cs[i] EXCEPT !.id = i - 1]]
  BY <1>1, <1>2 DEF OptTypes
<1>4. /\ ds \in Seq(Made) /\ AreThoseOf(ds, S) /\ \A i \in DOMAIN ds : ds[i].id = i - 1
  BY <1>3, NumberedThose
<1>5. OptTypes'
  BY <1>1, <1>2, <1>4 DEF OptTypes
<1>6. AreThoseOf(configs, Asked)'
  <2>1. AreThoseOf(ds, S)'
    BY <1>1, <1>4, ThoseKept
  <2>2. Asked' = Asked
    BY <1>1 DEF Asked
  <2> QED BY <1>2, <2>1, <2>2, Zenon
<1>7. configs' = << >> <=> configs = << >>
  BY <1>1, <1>5 DEF OptTypes
<1>8. PortRight'
  BY <1>1, <1>7 DEF PortRight
<1>9. ASSUME NEW i \in DOMAIN configs'
      PROVE  port' = IF "port" \in line' THEN Line
                     ELSE IF "config" \in line' /\ file'.port THEN Common ELSE None
  <2>1. configs' # << >>
    BY <1>9
  <2> QED BY <1>8, <2>1 DEF PortRight
<1>10. EachInstanceItsOwn'
  BY <1>1, <1>2, <1>4, <1>6, <1>9 DEF EachInstanceItsOwn
<1> QED BY <1>1, <1>5, <1>8, <1>10 DEF OptIInv

LEMMA IdleOpt == ASSUME OptIInv, UNCHANGED optVars PROVE OptIInv'
<1>1. UNCHANGED <<file, line, entry, copy, config, port, configs, outcome>>
  BY DEF optVars
<1>2. OptTypes' /\ Done' = Done /\ Asked' = Asked /\ (PortRight => PortRight')
  BY <1>1 DEF OptIInv, OptTypes, Done, Asked, PortRight
<1>3. AreThoseOf(configs, Done) => AreThoseOf(configs, Done)'
  <2>1. PICK cs, S : cs = configs /\ S = Done
    OBVIOUS
  <2>2. AreThoseOf(cs, S) => AreThoseOf(cs, S)'
    BY <1>1, ThoseKept
  <2> QED BY <1>1, <1>2, <2>1, <2>2, Zenon
<1>4. AreThoseOf(configs, Asked) => AreThoseOf(configs, Asked)'
  <2>1. PICK cs, S : cs = configs /\ S = Asked
    OBVIOUS
  <2>2. AreThoseOf(cs, S) => AreThoseOf(cs, S)'
    BY <1>1, ThoseKept
  <2> QED BY <1>1, <1>2, <2>1, <2>2, Zenon
<1>5. \A a, b, k : Due(a, b, k)' = Due(a, b, k)
  BY <1>1 DEF Due, Own
<1>6. EachInstanceItsOwn'
  <2>1. CASE outcome = "ready"
    BY <1>1, <1>4, <2>1 DEF OptIInv, EachInstanceItsOwn
  <2>2. CASE outcome = "exited"
    <3>1. \E a \in Asked : \E k \in Required \union {"url"} : Due(a[1], a[2], k) = << >>
      BY <2>2 DEF OptIInv, EachInstanceItsOwn
    <3>2. \E a \in Asked' : \E k \in Required \union {"url"} : Due(a[1], a[2], k)' = << >>
      BY <1>2, <1>5, <3>1
    <3> QED BY <1>1, <2>2, <3>2 DEF EachInstanceItsOwn
  <2>3. CASE outcome \notin {"ready", "exited"}
    BY <1>1, <2>3 DEF EachInstanceItsOwn
  <2> QED BY <2>1, <2>2, <2>3
<1> QED BY <1>1, <1>2, <1>3, <1>6 DEF OptIInv

\* Whatever the file and the command line say, for any number of entries and copies: every
\* instance that starts has what its own entry and the command line say of it and nothing
\* else, the command line first except over URLs that the entry gives too, and one that lacks what is required keeps all of them from starting
\* (main.cpp:148-174, 207, util.cpp:421-434, 466-640).
THEOREM InstancesAreTheirOwn == OptSpec => []EachInstanceItsOwn
<1>1. OptIInv /\ [OptNext]_optVars => OptIInv'
  BY CommandLineHolds, InstanceHolds, NextEntryHolds, NumbersHold, IdleOpt DEF OptNext
<1>2. OptIInv => EachInstanceItsOwn
  BY DEF OptIInv
<1> QED BY InitOpt, <1>1, <1>2, PTL DEF OptSpec
=============================================================================
