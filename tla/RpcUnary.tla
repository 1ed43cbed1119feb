------------------------------ MODULE RpcUnary -------------------------------
(***************************************************************************)
(* Unary calls end to end: one RpcClient whose owner connects, calls one   *)
(* method after the other, gives calls up, closes and reconnects, and the  *)
(* server coroutine that serves each of its connections.                   *)
(*                                                                         *)
(* A connection carries whole frames in both directions, in order, which   *)
(* is what module RpcConn shows of the bytes below; a frame a sender gave  *)
(* up half-way is a "torn" element of the queue, behind which the reader   *)
(* decodes anything.  Requests and responses fit the ring buffers.         *)
(***************************************************************************)
EXTENDS Integers, Sequences, FiniteSets

CONSTANTS
    IdSpace,        \* 2^32, the values of the uint32_t m_request_id
    CallModes,      \* the RpcCallModes the caller uses
    Answers,        \* what a response may say: a handler's result or an error code
    Interrupts,     \* error codes of a send or a read that fails or times out
    MaxCalls,       \* bound: calls that take a request id
    MaxConns,       \* bound: connections the client opens
    Faults,         \* whether timeouts, I/O errors, closes and stop happen
    TornWrites      \* whether a send may be given up between two writevs

ASSUME UnaryAssumption ==
    /\ IdSpace \in Nat \ {0}
    /\ MaxCalls \in Nat /\ MaxConns \in Nat
    /\ Faults \in BOOLEAN /\ TornWrites \in BOOLEAN
    /\ "OK" \notin Interrupts

Conns == 1..MaxConns
Ids == 0..(IdSpace - 1)

VARIABLES
    conn,       \* m_socket and m_ring_buffer: which connection, 0 for null
    sock,       \* "null", "connecting", "open", "failed" or "closed"
    nextId,     \* m_request_id
    issued,     \* how many calls took an id: call n is the n-th
    phase,      \* the running call: "idle", "sending" or "receiving"
    request,    \* its request
    outcome,    \* how the last call ended
    gaveUp,     \* per connection, the calls that took no response from it
    torn,       \* connections with a frame torn in the request direction
    up,         \* per connection, requests sent and not yet read
    down,       \* per connection, responses sent and not yet consumed
    hangup,     \* connections the client no longer holds open
    srv,        \* per connection, where the server's coroutine is
    reply,      \* the response it is working on
    running,    \* m_running of the server
    accepting,  \* whether acceptLoop waits in accept()
    log         \* the answers computed for calls so far

clientVars == <<conn, sock, nextId, issued, phase, request, outcome, gaveUp, torn>>
serverVars == <<srv, reply, running, accepting, log>>
vars == <<clientVars, up, down, hangup, serverVars>>

\* call is not on the wire: it tells frames with the same id apart.
Frames == [call : 0..MaxCalls, id : Ids, mode : CallModes]
Torn == [call |-> 0, id |-> 0, mode |-> "torn"]
NoRequest == [call |-> 0, id |-> 0, mode |-> "none"]
NoReply == [call |-> 0, id |-> 0, mode |-> "none", answer |-> "none"]

\* How call n ended on connection c: with a code, and when that is OK with the
\* answer in the response to call m.
Ended(n, c, code, m, answer) ==
    [call |-> n, on |-> c, code |-> code, from |-> m, answer |-> answer]
Refused(n, c, code) == Ended(n, c, code, 0, "none")

Errors == {"CONNECTION_CLOSED", "INVALID_RESPONSE"} \cup Interrupts

-----------------------------------------------------------------------------
Init ==
    /\ conn = 0 /\ sock = "null" /\ nextId = 0 /\ issued = 0
    /\ phase = "idle" /\ request = NoRequest /\ outcome = Refused(0, 0, "none")
    /\ gaveUp = [c \in Conns |-> 0] /\ torn = {}
    /\ up = [c \in Conns |-> <<>>] /\ down = [c \in Conns |-> <<>>]
    /\ hangup = {}
    /\ srv = [c \in Conns |-> "none"] /\ reply = [c \in Conns |-> NoReply]
    /\ running = TRUE /\ accepting = TRUE /\ log = <<>>

(* The client.                                                               *)

\* Mutant: connect() keeps the ring and what the old connection left in it.
ConnectKeepsRing ==
    /\ phase = "idle" /\ sock # "connecting" /\ conn < MaxConns
    /\ conn' = conn + 1 /\ sock' = "connecting"
    /\ down' = [down EXCEPT ![conn + 1] = IF conn = 0 THEN <<>> ELSE down[conn]]
    /\ UNCHANGED <<nextId, issued, phase, request, outcome, gaveUp, torn, up, hangup,
                   serverVars>>

\* connect(): a new socket and a new ring replace the old ones.  Whether the
\* destroyed socket hangs up its connection is up to TcpSocket.
Connect ==
    /\ phase = "idle" /\ sock # "connecting" /\ conn < MaxConns
    /\ conn' = conn + 1 /\ sock' = "connecting"
    /\ hangup' \in {hangup, hangup \cup ({conn} \cap Conns)}
    /\ UNCHANGED <<nextId, issued, phase, request, outcome, gaveUp, torn, up, down,
                   serverVars>>

\* The ConnectAwaitable resumes.  A failed one leaves the socket in place.
ConnectDone(result) ==
    /\ sock = "connecting"
    /\ result = "open" \/ Faults
    /\ sock' = result
    /\ srv' = [srv EXCEPT ![conn] = IF result = "open" THEN "backlog" ELSE @]
    /\ UNCHANGED <<conn, nextId, issued, phase, request, outcome, gaveUp, torn, up,
                   down, hangup, reply, running, accepting, log>>

\* callWithMode() on a client that was never connected.
CallNotConnected ==
    /\ phase = "idle" /\ conn = 0
    /\ outcome' = Refused(0, 0, "CONNECTION_CLOSED")
    /\ UNCHANGED <<conn, sock, nextId, issued, phase, request, gaveUp, torn, up, down,
                   hangup, serverVars>>

\* callWithMode() takes a request id and starts to send.
Call(mode) ==
    /\ phase = "idle" /\ conn # 0 /\ sock # "connecting"
    /\ issued < MaxCalls
    /\ issued' = issued + 1
    /\ nextId' = (nextId + 1) % IdSpace
    /\ request' = [call |-> issued + 1, id |-> nextId, mode |-> mode]
    /\ phase' = "sending"
    /\ UNCHANGED <<conn, sock, outcome, gaveUp, torn, up, down, hangup, serverVars>>

\* sendRequest() has written the whole request.
SendRequest ==
    /\ phase = "sending" /\ sock = "open"
    /\ up' = [up EXCEPT ![conn] = Append(@, request)]
    /\ phase' = "receiving"
    /\ UNCHANGED <<conn, sock, nextId, issued, request, outcome, gaveUp, torn, down,
                   hangup, serverVars>>

\* The call ends with an error and without having consumed a response.
GiveUp(code) ==
    /\ phase' = "idle"
    /\ outcome' = Refused(request.call, conn, code)
    /\ gaveUp' = [gaveUp EXCEPT ![conn] = @ + 1]
    /\ UNCHANGED <<conn, sock, nextId, issued, request>>

\* sendRequest() fails, or the call times out in it: nothing was written, or
\* part of the request was.
SendFail(code) ==
    /\ phase = "sending"
    /\ Faults \/ sock # "open"
    /\ GiveUp(code)
    /\ \/ UNCHANGED <<up, torn>>
       \/ /\ TornWrites /\ sock = "open"
          /\ up' = [up EXCEPT ![conn] = Append(@, Torn)]
          /\ torn' = torn \cup {conn}
    /\ UNCHANGED <<down, hangup, serverVars>>

\* Mutant: the id of the response is not compared.
AcceptsAny(response) == response.mode = request.mode

\* Whether callWithMode accepts a response: the id is compared, then the mode.
Accepts(response) == response.id = request.id /\ response.mode = request.mode

\* getResponse() consumes the next response of the connection.
Receive ==
    /\ phase = "receiving" /\ down[conn] # <<>>
    /\ LET response == Head(down[conn]) IN
       outcome' = IF Accepts(response)
                  THEN Ended(request.call, conn, "OK", response.call, response.answer)
                  ELSE Refused(request.call, conn, "INVALID_RESPONSE")
    /\ down' = [down EXCEPT ![conn] = Tail(@)]
    /\ phase' = "idle"
    /\ UNCHANGED <<conn, sock, nextId, issued, request, gaveUp, torn, up, hangup,
                   serverVars>>

\* getResponse() reads the end of the stream.
ReceiveClosed ==
    /\ phase = "receiving" /\ down[conn] = <<>> /\ srv[conn] = "closed"
    /\ GiveUp("CONNECTION_CLOSED")
    /\ UNCHANGED <<torn, up, down, hangup, serverVars>>

\* getResponse() times out or fails; the response may still come.
ReceiveFail(code) ==
    /\ Faults /\ phase = "receiving"
    /\ GiveUp(code)
    /\ UNCHANGED <<torn, up, down, hangup, serverVars>>

\* close(): the socket object stays, so a later call fails in its send.
CloseClient ==
    /\ Faults /\ phase = "idle" /\ sock \in {"open", "failed"}
    /\ sock' = "closed" /\ hangup' = hangup \cup {conn}
    /\ UNCHANGED <<conn, nextId, issued, phase, request, outcome, gaveUp, torn, up, down,
                   serverVars>>

(* The server: acceptLoop and one handleConnection per connection.           *)

\* The while condition of handleConnection.
Loop == IF running THEN "reading" ELSE "closed"

\* accept() returns, the handler is scheduled, and acceptLoop looks at
\* m_running before it waits in accept() again: after stop() one more
\* connection may be accepted.
Accept(c) ==
    /\ srv[c] = "backlog" /\ accepting
    /\ srv' = [srv EXCEPT ![c] = "scheduled"]
    /\ accepting' = running
    /\ UNCHANGED <<clientVars, up, down, hangup, reply, running, log>>

\* The handler cannot be scheduled: the accepted connection is closed.
AcceptFail(c) ==
    /\ Faults /\ srv[c] = "backlog" /\ accepting
    /\ srv' = [srv EXCEPT ![c] = "closed"]
    /\ accepting' = running
    /\ UNCHANGED <<clientVars, up, down, hangup, reply, running, log>>

\* The handler starts, and stops at once when the server was stopped meanwhile.
handleConnection(c) ==
    /\ srv[c] = "scheduled"
    /\ srv' = [srv EXCEPT ![c] = Loop]
    /\ UNCHANGED <<clientVars, up, down, hangup, reply, running, accepting, log>>

\* RpcResponse response(request.requestId()), with the request's mode.
ResponseTo(req) == [call |-> req.call, id |-> req.id, mode |-> req.mode, answer |-> "none"]

\* Mutants of ReadRequest: the request is parsed but not consumed; the newest
\* request is read first.
ReadRequestTwice(c) ==
    /\ srv[c] = "reading" /\ up[c] # <<>> /\ Head(up[c]) # Torn
    /\ reply' = [reply EXCEPT ![c] = ResponseTo(Head(up[c]))]
    /\ srv' = [srv EXCEPT ![c] = "handling"]
    /\ UNCHANGED <<clientVars, up, down, hangup, running, accepting, log>>

ReadRequestNewest(c) ==
    /\ srv[c] = "reading" /\ up[c] # <<>> /\ up[c][Len(up[c])] # Torn
    /\ reply' = [reply EXCEPT ![c] = ResponseTo(up[c][Len(up[c])])]
    /\ up' = [up EXCEPT ![c] = SubSeq(@, 1, Len(@) - 1)]
    /\ srv' = [srv EXCEPT ![c] = "handling"]
    /\ UNCHANGED <<clientVars, down, hangup, running, accepting, log>>

\* getRequest() parses the next request.
ReadRequest(c) ==
    /\ srv[c] = "reading" /\ up[c] # <<>> /\ Head(up[c]) # Torn
    /\ reply' = [reply EXCEPT ![c] = ResponseTo(Head(up[c]))]
    /\ up' = [up EXCEPT ![c] = Tail(@)]
    /\ srv' = [srv EXCEPT ![c] = "handling"]
    /\ UNCHANGED <<clientVars, down, hangup, running, accepting, log>>

\* getRequest() at the bytes of a torn frame and of the one behind it: some
\* request, or a rejection.
ReadTorn(c) ==
    /\ srv[c] = "reading" /\ Len(up[c]) > 1 /\ Head(up[c]) = Torn
    /\ \/ \E id \in Ids, mode \in CallModes :
            /\ reply' = [reply EXCEPT ![c] =
                            ResponseTo([call |-> 0, id |-> id, mode |-> mode])]
            /\ up' = [up EXCEPT ![c] = <<Torn>> \o SubSeq(@, 3, Len(@))]
            /\ srv' = [srv EXCEPT ![c] = "handling"]
       \/ srv' = [srv EXCEPT ![c] = "closed"] /\ UNCHANGED <<reply, up>>
    /\ UNCHANGED <<clientVars, down, hangup, running, accepting, log>>

\* getRequest() fails: end of stream, or an I/O error.  The connection closes.
ReadFail(c) ==
    /\ srv[c] = "reading"
    /\ Faults \/ (c \in hangup /\ up[c] \in {<<>>, <<Torn>>})
    /\ srv' = [srv EXCEPT ![c] = "closed"]
    /\ UNCHANGED <<clientVars, up, down, hangup, reply, running, accepting, log>>

\* The request is routed and its handler runs to its end.  What was decoded
\* behind a torn frame is no call (0) and answered in vain.
Handle(c, answer) ==
    /\ srv[c] = "handling"
    /\ reply' = [reply EXCEPT ![c].answer = answer]
    /\ log' = IF reply[c].call = 0 THEN log
              ELSE Append(log, [call |-> reply[c].call, answer |-> answer])
    /\ srv' = [srv EXCEPT ![c] = "replying"]
    /\ UNCHANGED <<clientVars, up, down, hangup, running, accepting>>

\* Mutant: the connection is closed after one response.
SendOneResponse(c) ==
    /\ srv[c] = "replying"
    /\ down' = [down EXCEPT ![c] = Append(@, reply[c])]
    /\ srv' = [srv EXCEPT ![c] = "closed"]
    /\ UNCHANGED <<clientVars, up, hangup, reply, running, accepting, log>>

\* sendResponse() has written the whole response.
SendResponse(c) ==
    /\ srv[c] = "replying"
    /\ down' = [down EXCEPT ![c] = Append(@, reply[c])]
    /\ srv' = [srv EXCEPT ![c] = Loop]
    /\ UNCHANGED <<clientVars, up, hangup, reply, running, accepting, log>>

\* sendResponse() fails, whatever it wrote: the connection closes.
SendResponseFail(c) ==
    /\ srv[c] = "replying" /\ (Faults \/ c \in hangup)
    /\ srv' = [srv EXCEPT ![c] = "closed"]
    /\ UNCHANGED <<clientVars, up, down, hangup, reply, running, accepting, log>>

\* RpcServer::stop().
Stop ==
    /\ Faults /\ running
    /\ running' = FALSE
    /\ UNCHANGED <<clientVars, up, down, hangup, srv, reply, accepting, log>>

Client ==
    \/ Connect \/ \E r \in {"open", "failed"} : ConnectDone(r)
    \/ CallNotConnected \/ \E m \in CallModes : Call(m)
    \/ SendRequest \/ \E e \in Interrupts : SendFail(e)
    \/ Receive \/ ReceiveClosed
    \/ \E e \in Interrupts : ReceiveFail(e)
    \/ CloseClient

Server(c) ==
    \/ Accept(c) \/ AcceptFail(c) \/ handleConnection(c)
    \/ ReadRequest(c) \/ ReadTorn(c) \/ ReadFail(c)
    \/ \E a \in Answers : Handle(c, a)
    \/ SendResponse(c) \/ SendResponseFail(c)

Next == Client \/ (\E c \in Conns : Server(c)) \/ Stop

Spec == Init /\ [][Next]_vars

\* Both ends run on I/O schedulers that resume a coroutine whose I/O is ready;
\* handlers return.  The client need not call or connect again.
Fairness ==
    /\ WF_vars(\E r \in {"open", "failed"} : ConnectDone(r))
    /\ WF_vars(SendRequest) /\ WF_vars(Receive) /\ WF_vars(ReceiveClosed)
    /\ \A c \in Conns :
        /\ WF_vars(Accept(c)) /\ WF_vars(handleConnection(c))
        /\ WF_vars(ReadRequest(c))
        /\ WF_vars(\E a \in Answers : Handle(c, a))
        /\ WF_vars(SendResponse(c))

FairSpec == Spec /\ Fairness

-----------------------------------------------------------------------------
(* Properties.                                                               *)

Replies == [call : 0..MaxCalls, id : Ids, mode : CallModes,
            answer : Answers \cup {"none"}]

\* Every variable has its type.
TypeOK ==
    /\ conn \in 0..MaxConns /\ sock \in {"null", "connecting", "open", "failed", "closed"}
    /\ conn = 0 <=> sock = "null"
    /\ nextId \in Ids /\ issued \in 0..MaxCalls
    /\ phase \in {"idle", "sending", "receiving"}
    /\ request \in Frames \cup {NoRequest}
    /\ phase # "idle" => request \in Frames /\ conn # 0
    /\ outcome \in [call : 0..MaxCalls, on : 0..MaxConns, code : {"none", "OK"} \cup Errors,
                   from : 0..MaxCalls, answer : Answers \cup {"none"}]
    /\ gaveUp \in [Conns -> 0..MaxCalls] /\ torn \subseteq Conns
    /\ up \in [Conns -> Seq(Frames \cup {Torn})] /\ down \in [Conns -> Seq(Replies)]
    /\ hangup \subseteq Conns
    /\ srv \in [Conns -> {"none", "backlog", "scheduled", "reading", "handling", "replying", "closed"}]
    /\ reply \in [Conns -> Replies \cup {NoReply}]
    /\ running \in BOOLEAN /\ accepting \in BOOLEAN
    /\ log \in Seq([call : 0..MaxCalls, answer : Answers])

\* A call that succeeds got the response to that very call and not a late one
\* to an earlier call that happens to carry the same id, even after the 32-bit
\* id has wrapped around: two calls on one connection could only be taken for
\* each other after IdSpace calls were given up on it.
OwnAnswer ==
    (outcome.code = "OK" /\ outcome.on \notin torn /\ gaveUp[outcome.on] < IdSpace) =>
        /\ outcome.from = outcome.call
        /\ \E i \in 1..Len(log) : /\ log[i].call = outcome.call
                                  /\ log[i].answer = outcome.answer

\* The client reports a response it cannot match only on a connection where an
\* earlier call was given up: a new connection starts clean.
MismatchNeedsGivingUp ==
    outcome.code = "INVALID_RESPONSE" =>
        outcome.on \in torn \/ gaveUp[outcome.on] > 0

\* The answers a connection still owes the client: the oldest are in down, the
\* newest in up.
Working(c) == IF srv[c] \in {"handling", "replying"} THEN 1 ELSE 0
Owed(c) == Len(down[c]) + Working(c) + Len(up[c])

\* A frame of one of the last IdSpace calls has the id that call took.
RecentId(frame) ==
    LET age == issued - frame.call IN
    age < IdSpace => frame.id \in {nextId - 1 - age, nextId - 1 - age + IdSpace}

\* frame is the i-th of those the current connection owes.  As many calls are
\* newer as there are frames behind it, and those that are older, or were given
\* up without leaving a frame, are among the calls given up.
InPlace(frame, i) ==
    /\ frame.call \in 1..issued
    /\ frame.call >= issued - gaveUp[conn] + i - (IF phase = "idle" THEN 0 ELSE 1)
    /\ frame.call <= issued - (Owed(conn) - i) - (IF phase = "sending" THEN 1 ELSE 0)
    /\ RecentId(frame)
    /\ frame.call = issued => frame.mode = request.mode

OwedInOrder ==
    (conn # 0 /\ conn \notin torn) =>
        /\ \A i \in 1..Len(down[conn]) : InPlace(down[conn][i], i)
        /\ Working(conn) = 1 => InPlace(reply[conn], Len(down[conn]) + 1)
        /\ \A i \in 1..Len(up[conn]) :
              InPlace(up[conn][i], Len(down[conn]) + Working(conn) + i)

\* The request is the last call's; a connection is not used before it is opened.
ClientState ==
    /\ phase # "idle" => issued # 0
    /\ issued # 0 => request.call = issued /\ RecentId(request)
    /\ conn = 0 => issued = 0 /\ outcome.call = 0
    /\ sock = "connecting" => srv[conn] = "none"
    /\ outcome.code \in {"OK", "INVALID_RESPONSE"} => outcome.on \in Conns
    /\ \A c \in Conns :
        /\ gaveUp[c] <= issued - (IF phase = "idle" THEN 0 ELSE 1)
        /\ c > conn => up[c] = <<>> /\ down[c] = <<>> /\ srv[c] = "none"
        /\ srv[c] \in {"handling", "replying"} => reply[c] \in Replies

\* Responses carry answers the server computed.
Logged(response) ==
    response.call # 0 => \E i \in 1..Len(log) : /\ log[i].call = response.call
                                               /\ log[i].answer = response.answer
ResponsesAreLogged ==
    \A c \in Conns :
        /\ \A i \in 1..Len(down[c]) : Logged(down[c][i])
        /\ srv[c] = "replying" => Logged(reply[c])

\* A call that was sent waits in one place only, and is then not answered yet.
Unanswered(n) ==
    /\ n <= issued - (IF phase = "sending" THEN 1 ELSE 0)
    /\ \A i \in 1..Len(log) : log[i].call # n
Handling(c, n) == srv[c] = "handling" /\ reply[c].call = n
WaitsOnce ==
    /\ \A i \in 1..Len(log) :
        log[i].call \in 1..(issued - (IF phase = "sending" THEN 1 ELSE 0))
    /\ \A c \in Conns : \A i \in 1..Len(up[c]) :
        up[c][i].call # 0 =>
            /\ Unanswered(up[c][i].call)
            /\ \A d \in Conns : ~Handling(d, up[c][i].call)
            /\ \A d \in Conns : \A j \in 1..Len(up[d]) :
                  up[d][j].call = up[c][i].call => d = c /\ j = i
    /\ \A c \in Conns, n \in 1..MaxCalls :
        Handling(c, n) => /\ Unanswered(n)
                          /\ \A d \in Conns : Handling(d, n) => d = c

\* Client and connections are well formed: frames are owed in the order of their
\* calls, each call is answered at most once, and a mismatch has a cause.
CallInv ==
    /\ TypeOK /\ ClientState /\ OwedInOrder /\ ResponsesAreLogged /\ WaitsOnce
    /\ MismatchNeedsGivingUp

Behind == Owed(conn) > (IF phase = "receiving" THEN 1 ELSE 0)

\* Once an answer is late, the client stays one answer behind: no later call on
\* that connection succeeds, however often it is tried, until it reconnects.
BehindUntilReconnect ==
    [][(conn # 0 /\ Behind /\ conn \notin torn /\ gaveUp[conn] < IdSpace /\ outcome' # outcome)
          => outcome'.code # "OK"]_vars

\* docs/07: "REQUEST_TIMEOUT: timed out, may be retried", and the retry loops
\* of docs/06 and docs/07 call again on the same client.
RetryIsNotRefused == outcome.code # "INVALID_RESPONSE"

\* Without faults every call is answered.
EveryCallAnswered ==
    \A n \in 1..MaxCalls :
        (phase = "sending" /\ request.call = n) ~> (outcome.call = n /\ outcome.code = "OK")

\* The answer the last call ended with.  One that may be another call's, on a
\* connection where OwnAnswer does not vouch for it, counts as an error.
Settled ==
    IF outcome.code # "OK" THEN "error"
    ELSE IF outcome.on \in torn \/ gaveUp[outcome.on] >= IdSpace THEN "error"
    ELSE outcome.answer

\* The client and the server together keep the promise of RpcCallSpec, as far as
\* answers can be told apart.
Promise == INSTANCE RpcCallSpec WITH
    begun <- issued,
    current <- IF phase = "idle" THEN 0 ELSE request.call,
    log <- log,
    outcome <- IF outcome.call = 0 THEN [call |-> 0, answer |-> "none"]
               ELSE [call |-> outcome.call, answer |-> Settled]
KeepsPromise == Promise!Spec
=============================================================================
