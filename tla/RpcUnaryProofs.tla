---------------------------- MODULE RpcUnaryProofs ----------------------------
(***************************************************************************)
(* Proofs about RpcUnary for every id space, any number of calls and       *)
(* connections, and every set of call modes, answers and error codes.      *)
(***************************************************************************)
EXTENDS RpcUnary, SequenceTheorems, TLAPS

(* Sequences.                                                                *)

\* What appending to a queue does.
LEMMA QueueAppend ==
    ASSUME NEW S, NEW s \in Seq(S), NEW e \in S
    PROVE  /\ Append(s, e) \in Seq(S) /\ Len(Append(s, e)) = Len(s) + 1
           /\ Append(s, e)[Len(s) + 1] = e
           /\ \A i \in 1..Len(s) : Append(s, e)[i] = s[i]
  OBVIOUS

\* What taking the head off a queue does.
LEMMA QueueTail ==
    ASSUME NEW S, NEW s \in Seq(S), s # <<>>
    PROVE  /\ Len(s) \in Nat /\ Len(s) >= 1 /\ Head(s) = s[1] /\ Head(s) \in S
           /\ Tail(s) \in Seq(S) /\ Len(Tail(s)) = Len(s) - 1
           /\ \A i \in 1..(Len(s) - 1) : Tail(s)[i] = s[i + 1]
  OBVIOUS

\* What taking the second element out of a queue does.
LEMMA QueueSkip ==
    ASSUME NEW S, NEW s \in Seq(S), NEW e \in S, Len(s) > 1
    PROVE  LET t == <<e>> \o SubSeq(s, 3, Len(s)) IN
           /\ t \in Seq(S) /\ Len(t) = Len(s) - 1 /\ t[1] = e
           /\ \A i \in 2..(Len(s) - 1) : t[i] = s[i + 1]
<1> DEFINE u == SubSeq(s, 3, Len(s))
<1>1. Len(s) \in Nat
  OBVIOUS
<1>2. u \in Seq(S) /\ Len(u) = Len(s) - 2 /\ \A i \in 1..(Len(s) - 2) : u[i] = s[i + 2]
  <2>1. PICK n \in Nat : n = Len(s) /\ n > 1
    BY <1>1
  <2>2. CASE n = 2
    BY <2>1, <2>2
  <2>3. CASE n >= 3
    <3>1. \A i \in 3..n : s[i] \in S
      BY <2>1
    <3>2. /\ u \in Seq(S) /\ Len(u) = n - 3 + 1
          /\ \A i \in 1..(n - 3 + 1) : u[i] = s[3 + i - 1]
      BY <2>1, <2>3, <3>1, SubSeqProperties
    <3> HIDE DEF u
    <3>3. \A i \in 1..(n - 2) : i \in 1..(n - 3 + 1) /\ 3 + i - 1 = i + 2
      BY <2>1
    <3> QED
      BY <2>1, <3>2, <3>3
  <2> QED
    BY <2>1, <2>2, <2>3
<1>3. <<e>> \in Seq(S) /\ Len(<<e>>) = 1 /\ <<e>>[1] = e
  OBVIOUS
<1> HIDE DEF u
<1>4. /\ <<e>> \o u \in Seq(S) /\ Len(<<e>> \o u) = 1 + Len(u)
      /\ \A i \in 1..(1 + Len(u)) : (<<e>> \o u)[i] = IF i <= 1 THEN <<e>>[i] ELSE u[i - 1]
  BY <1>2, <1>3, ConcatProperties
<1>5. /\ <<e>> \o u \in Seq(S) /\ Len(<<e>> \o u) = Len(s) - 1 /\ (<<e>> \o u)[1] = e
      /\ \A i \in 2..(Len(s) - 1) : (<<e>> \o u)[i] = s[i + 1]
  BY <1>1, <1>2, <1>3, <1>4
<1> QED
  BY <1>5 DEF u

-----------------------------------------------------------------------------
(* Types.                                                                    *)

\* Ids stay below IdSpace; the next one is found without a division.
LEMMA NextId ==
    ASSUME TypeOK
    PROVE  /\ (nextId + 1) % IdSpace \in Ids
           /\ (nextId + 1) % IdSpace = IF nextId + 1 = IdSpace THEN 0 ELSE nextId + 1
<1>1. IdSpace \in Nat \ {0} /\ nextId \in 0..(IdSpace - 1)
  BY UnaryAssumption DEF TypeOK, Ids
<1>2. (nextId + 1) % IdSpace = IF nextId + 1 = IdSpace THEN 0 ELSE nextId + 1
  BY <1>1
<1> QED
  BY <1>1, <1>2 DEF Ids

\* What a request or a torn frame leaves of the up queue.
LEMMA UpTypes ==
    ASSUME TypeOK, NEW c \in Conns
    PROVE  /\ up[c] \in Seq(Frames \cup {Torn}) /\ Len(up[c]) \in Nat
           /\ down[c] \in Seq(Replies) /\ Len(down[c]) \in Nat
           /\ srv[c] \in {"none", "backlog", "scheduled", "reading", "handling", "replying", "closed"}
           /\ gaveUp[c] \in 0..MaxCalls
  BY DEF TypeOK

\* A response has the call, the id and the mode of its request.
LEMMA ResponseToType ==
    ASSUME NEW f \in Frames
    PROVE  ResponseTo(f) \in Replies
  BY DEF ResponseTo, Frames, Replies

\* The client's steps preserve the types.
LEMMA TypeClient ==
    ASSUME TypeOK, ClientState, Client
    PROVE  TypeOK'
<1> USE UnaryAssumption
<1>1. CASE Connect
  <2>1. conn' \in 0..MaxConns /\ conn' # 0
    BY <1>1 DEF Connect, TypeOK
  <2>2. hangup' \subseteq Conns
    BY <1>1 DEF Connect, TypeOK
  <2> QED
    BY <1>1, <2>1, <2>2 DEF Connect, TypeOK, serverVars
<1>2. ASSUME NEW r \in {"open", "failed"}, ConnectDone(r) PROVE TypeOK'
  BY <1>2 DEF ConnectDone, TypeOK
<1>3. CASE CallNotConnected
  BY <1>3 DEF CallNotConnected, Refused, Ended, Errors, TypeOK, serverVars
<1>4. ASSUME NEW m \in CallModes, Call(m) PROVE TypeOK'
  <2>1. nextId' \in Ids
    BY <1>4, NextId DEF Call
  <2>2. issued' \in 0..MaxCalls /\ request' \in Frames
    BY <1>4 DEF Call, TypeOK, Frames
  <2> QED
    BY <1>4, <2>1, <2>2 DEF Call, TypeOK, serverVars
<1>5. CASE SendRequest
  <2>1. conn \in Conns /\ request \in Frames \cup {Torn}
    BY <1>5 DEF SendRequest, TypeOK, Conns
  <2>2. Append(up[conn], request) \in Seq(Frames \cup {Torn})
    BY <2>1, UpTypes, QueueAppend
  <2> QED
    BY <1>5, <2>1, <2>2 DEF SendRequest, TypeOK, serverVars
<1>6. ASSUME NEW e \in Interrupts \cup {"CONNECTION_CLOSED"}, GiveUp(e), phase # "idle"
      PROVE  /\ outcome' \in [call : 0..MaxCalls, on : 0..MaxConns, code : {"none", "OK"} \cup Errors,
                              from : 0..MaxCalls, answer : Answers \cup {"none"}]
             /\ gaveUp' \in [Conns -> 0..MaxCalls] /\ conn \in Conns
             /\ phase' = "idle" /\ UNCHANGED <<conn, sock, nextId, issued, request>>
             /\ (/\ UNCHANGED <<down, hangup, serverVars>>
                 /\ up' \in [Conns -> Seq(Frames \cup {Torn})] /\ torn' \subseteq Conns) => TypeOK'
  <2>1. conn \in Conns /\ request.call \in 0..MaxCalls /\ issued \in 0..MaxCalls
    BY <1>6 DEF TypeOK, Conns, Frames
  <2>2. gaveUp[conn] + 1 <= issued /\ gaveUp[conn] \in 0..MaxCalls
    BY <1>6, <2>1, UpTypes DEF ClientState
  <2>3. gaveUp[conn] + 1 \in 0..MaxCalls
    BY <2>1, <2>2
  <2>4. outcome' \in [call : 0..MaxCalls, on : 0..MaxConns, code : {"none", "OK"} \cup Errors,
                      from : 0..MaxCalls, answer : Answers \cup {"none"}]
    BY <1>6, <2>1 DEF GiveUp, Refused, Ended, Errors, TypeOK
  <2>5. gaveUp' \in [Conns -> 0..MaxCalls]
    BY <1>6, <2>1, <2>3 DEF GiveUp, TypeOK
  <2>6. phase' = "idle" /\ UNCHANGED <<conn, sock, nextId, issued, request>>
    BY <1>6 DEF GiveUp
  <2>7. ASSUME UNCHANGED <<down, hangup, serverVars>>,
               up' \in [Conns -> Seq(Frames \cup {Torn})], torn' \subseteq Conns
        PROVE  TypeOK'
    BY <2>4, <2>5, <2>6, <2>7 DEF TypeOK, serverVars
  <2> QED
    BY <2>1, <2>4, <2>5, <2>6, <2>7
<1>7. ASSUME NEW e \in Interrupts, SendFail(e) PROVE TypeOK'
  <2>1. GiveUp(e) /\ phase # "idle" /\ UNCHANGED <<down, hangup, serverVars>>
    BY <1>7 DEF SendFail
  <2>2. conn \in Conns
    BY <1>6, <2>1
  <2>3. up' \in [Conns -> Seq(Frames \cup {Torn})] /\ torn' \subseteq Conns
    <3>1. CASE UNCHANGED <<up, torn>>
      BY <3>1 DEF TypeOK
    <3>2. CASE up' = [up EXCEPT ![conn] = Append(@, Torn)] /\ torn' = torn \cup {conn}
      <4>1. Append(up[conn], Torn) \in Seq(Frames \cup {Torn})
        BY <2>2, UpTypes, QueueAppend
      <4>2. torn' \subseteq Conns
        BY <2>2, <3>2 DEF TypeOK
      <4> QED
        BY <3>2, <4>1, <4>2 DEF TypeOK
    <3> QED
      BY <1>7, <3>1, <3>2 DEF SendFail
  <2> QED
    BY <1>6, <2>1, <2>3
<1>8. CASE Receive
  <2>1. conn \in Conns /\ down[conn] # <<>> /\ request \in Frames
    BY <1>8 DEF Receive, TypeOK, Conns
  <2>2. Head(down[conn]) \in Replies /\ Tail(down[conn]) \in Seq(Replies)
    BY <2>1, UpTypes, QueueTail
  <2>3. outcome' \in [call : 0..MaxCalls, on : 0..MaxConns, code : {"none", "OK"} \cup Errors,
                      from : 0..MaxCalls, answer : Answers \cup {"none"}]
    <3>1. /\ Head(down[conn]).call \in 0..MaxCalls /\ request.call \in 0..MaxCalls
          /\ Head(down[conn]).answer \in Answers \cup {"none"} /\ conn \in 0..MaxConns
      BY <2>1, <2>2 DEF Replies, Frames, TypeOK
    <3> QED
      BY <1>8, <3>1 DEF Receive, Refused, Ended, Errors
  <2> QED
    BY <1>8, <2>1, <2>2, <2>3 DEF Receive, TypeOK, serverVars
<1>9. CASE ReceiveClosed
  <2>1. /\ GiveUp("CONNECTION_CLOSED") /\ phase # "idle"
        /\ UNCHANGED <<torn, up, down, hangup, serverVars>>
    BY <1>9 DEF ReceiveClosed
  <2>2. up' \in [Conns -> Seq(Frames \cup {Torn})] /\ torn' \subseteq Conns
    BY <2>1 DEF TypeOK
  <2> QED
    BY <1>6, <2>1, <2>2
<1>10. ASSUME NEW e \in Interrupts, ReceiveFail(e) PROVE TypeOK'
  <2>1. /\ GiveUp(e) /\ phase # "idle"
        /\ UNCHANGED <<torn, up, down, hangup, serverVars>>
    BY <1>10 DEF ReceiveFail
  <2>2. up' \in [Conns -> Seq(Frames \cup {Torn})] /\ torn' \subseteq Conns
    BY <2>1 DEF TypeOK
  <2> QED
    BY <1>6, <2>1, <2>2
<1>11. CASE CloseClient
  <2>1. conn \in Conns
    BY <1>11 DEF CloseClient, TypeOK, Conns
  <2>2. hangup' \subseteq Conns /\ sock \notin {"null"} /\ sock' = "closed"
    BY <1>11, <2>1 DEF CloseClient, TypeOK
  <2> QED
    BY <1>11, <2>1, <2>2 DEF CloseClient, TypeOK, serverVars
<1> QED
  BY <1>1, <1>2, <1>3, <1>4, <1>5, <1>7, <1>8, <1>9, <1>10, <1>11 DEF Client

\* The server's steps preserve the types.
LEMMA TypeServer ==
    ASSUME TypeOK, ClientState, NEW c \in Conns, Server(c)
    PROVE  TypeOK'
<1>0. running \in BOOLEAN /\ Loop \in {"reading", "closed"}
  BY DEF TypeOK, Loop
<1>1. CASE Accept(c)
  BY <1>1 DEF Accept, TypeOK, clientVars
<1>2. CASE AcceptFail(c)
  BY <1>2 DEF AcceptFail, TypeOK, clientVars
<1>3. CASE handleConnection(c)
  BY <1>0, <1>3 DEF handleConnection, TypeOK, clientVars
<1>4. CASE ReadRequest(c)
  <2>1. Head(up[c]) \in Frames /\ Tail(up[c]) \in Seq(Frames \cup {Torn})
    BY <1>4, UpTypes, QueueTail DEF ReadRequest
  <2>2. ResponseTo(Head(up[c])) \in Replies
    BY <2>1, ResponseToType
  <2> QED
    BY <1>4, <2>1, <2>2 DEF ReadRequest, TypeOK, clientVars
<1>5. CASE ReadTorn(c)
  <2>1. CASE srv' = [srv EXCEPT ![c] = "closed"] /\ UNCHANGED <<reply, up>>
    BY <1>5, <2>1 DEF ReadTorn, TypeOK, clientVars
  <2>2. ASSUME NEW id \in Ids, NEW mode \in CallModes,
               reply' = [reply EXCEPT ![c] =
                            ResponseTo([call |-> 0, id |-> id, mode |-> mode])],
               up' = [up EXCEPT ![c] = <<Torn>> \o SubSeq(@, 3, Len(@))],
               srv' = [srv EXCEPT ![c] = "handling"]
        PROVE  TypeOK'
    <3>1. ResponseTo([call |-> 0, id |-> id, mode |-> mode]) \in Replies
      BY <2>2, UnaryAssumption DEF ResponseTo, Replies
    <3>2. <<Torn>> \o SubSeq(up[c], 3, Len(up[c])) \in Seq(Frames \cup {Torn})
      BY <1>5, UpTypes, QueueSkip DEF ReadTorn
    <3> QED
      BY <1>5, <2>2, <3>1, <3>2 DEF ReadTorn, TypeOK, clientVars
  <2> QED
    BY <1>5, <2>1, <2>2 DEF ReadTorn
<1>6. CASE ReadFail(c)
  BY <1>6 DEF ReadFail, TypeOK, clientVars
<1>7. ASSUME NEW a \in Answers, Handle(c, a) PROVE TypeOK'
  <2>1. reply[c] \in Replies
    BY <1>7 DEF Handle, ClientState
  <2>2. [reply[c] EXCEPT !.answer = a] \in Replies /\ reply[c].call \in 0..MaxCalls
    BY <2>1 DEF Replies
  <2>3. log' \in Seq([call : 0..MaxCalls, answer : Answers])
    <3>1. [call |-> reply[c].call, answer |-> a] \in [call : 0..MaxCalls, answer : Answers]
      BY <2>2
    <3>2. log \in Seq([call : 0..MaxCalls, answer : Answers])
      BY DEF TypeOK
    <3>3. Append(log, [call |-> reply[c].call, answer |-> a])
             \in Seq([call : 0..MaxCalls, answer : Answers])
      BY <3>1, <3>2, QueueAppend
    <3> QED
      BY <1>7, <3>2, <3>3 DEF Handle
  <2>4. reply' \in [Conns -> Replies \cup {NoReply}]
    BY <1>7, <2>2 DEF Handle, TypeOK
  <2> QED
    BY <1>7, <2>3, <2>4 DEF Handle, TypeOK, clientVars
<1>8. CASE SendResponse(c)
  <2>1. Append(down[c], reply[c]) \in Seq(Replies)
    BY <1>8, UpTypes, QueueAppend DEF SendResponse, ClientState
  <2> QED
    BY <1>0, <1>8, <2>1 DEF SendResponse, TypeOK, clientVars
<1>9. CASE SendResponseFail(c)
  BY <1>9 DEF SendResponseFail, TypeOK, clientVars
<1> QED
  BY <1>1, <1>2, <1>3, <1>4, <1>5, <1>6, <1>7, <1>8, <1>9 DEF Server

\* A step of the server's coroutine for c leaves the client and the other
\* connections alone.
LEMMA ServerLeavesAlone ==
    ASSUME TypeOK, NEW c \in Conns, Server(c)
    PROVE  /\ UNCHANGED clientVars /\ UNCHANGED hangup
           /\ srv[c] # "none"
           /\ \A d \in Conns \ {c} : /\ up'[d] = up[d] /\ down'[d] = down[d]
                                     /\ srv'[d] = srv[d] /\ reply'[d] = reply[d]
<1> USE DEF TypeOK
<1>1. CASE Accept(c)
  BY <1>1 DEF Accept
<1>2. CASE AcceptFail(c)
  BY <1>2 DEF AcceptFail
<1>3. CASE handleConnection(c)
  BY <1>3 DEF handleConnection
<1>4. CASE ReadRequest(c)
  BY <1>4 DEF ReadRequest
<1>5. CASE ReadTorn(c)
  <2>1. /\ UNCHANGED <<clientVars, hangup, down>> /\ srv[c] = "reading"
        /\ \A d \in Conns \ {c} : srv'[d] = srv[d]
    BY <1>5 DEF ReadTorn
  <2>2. \A d \in Conns \ {c} : up'[d] = up[d] /\ reply'[d] = reply[d]
    <3>1. CASE UNCHANGED <<reply, up>>
      BY <3>1
    <3>2. CASE \E x, y : reply' = [reply EXCEPT ![c] = x] /\ up' = [up EXCEPT ![c] = y]
      BY <3>2
    <3> QED
      BY <1>5, <3>1, <3>2, Zenon DEF ReadTorn
  <2> QED
    BY <2>1, <2>2
<1>6. CASE ReadFail(c)
  BY <1>6 DEF ReadFail
<1>7. ASSUME NEW a \in Answers, Handle(c, a)
      PROVE  /\ UNCHANGED clientVars /\ UNCHANGED hangup
             /\ srv[c] # "none"
             /\ \A d \in Conns \ {c} : /\ up'[d] = up[d] /\ down'[d] = down[d]
                                       /\ srv'[d] = srv[d] /\ reply'[d] = reply[d]
  BY <1>7 DEF Handle
<1>8. CASE SendResponse(c)
  BY <1>8 DEF SendResponse
<1>9. CASE SendResponseFail(c)
  BY <1>9 DEF SendResponseFail
<1> QED
  BY <1>1, <1>2, <1>3, <1>4, <1>5, <1>6, <1>7, <1>8, <1>9 DEF Server

\* The server's steps keep the client's state and what relates it to them.
LEMMA ClientStateServer ==
    ASSUME TypeOK, ClientState, NEW c \in Conns, Server(c)
    PROVE  ClientState'
<1>1. /\ UNCHANGED <<conn, sock, nextId, issued, phase, request, outcome, gaveUp>>
      /\ \A d \in Conns \ {c} : /\ up'[d] = up[d] /\ down'[d] = down[d]
                                /\ srv'[d] = srv[d] /\ reply'[d] = reply[d]
  BY ServerLeavesAlone DEF clientVars
<1>2. c <= conn
  BY ServerLeavesAlone DEF ClientState, Conns, TypeOK
<1>3. srv'[c] \in {"handling", "replying"} => reply'[c] \in Replies
  <2>1. CASE ReadRequest(c)
    <3>1. Head(up[c]) \in Frames
      BY <2>1, UpTypes, QueueTail DEF ReadRequest
    <3> QED
      BY <2>1, <3>1, ResponseToType DEF ReadRequest, TypeOK
  <2>2. CASE ReadTorn(c)
    BY <2>2, UnaryAssumption DEF ReadTorn, TypeOK, ResponseTo, Replies
  <2>3. ASSUME NEW a \in Answers, Handle(c, a) PROVE reply'[c] \in Replies
    <3>1. reply[c] \in Replies /\ reply'[c] = [reply[c] EXCEPT !.answer = a]
      BY <2>3 DEF Handle, ClientState, TypeOK
    <3> QED
      BY <3>1 DEF Replies
  <2>4. CASE Accept(c) \/ AcceptFail(c) \/ handleConnection(c) \/ ReadFail(c)
             \/ SendResponse(c) \/ SendResponseFail(c)
    BY <2>4 DEF Accept, AcceptFail, handleConnection, ReadFail, SendResponse,
                SendResponseFail, Loop, TypeOK
  <2> QED
    BY <2>1, <2>2, <2>3, <2>4 DEF Server
<1>4. \A d \in Conns : d > conn => d # c
  BY <1>2 DEF Conns, TypeOK
<1>5. sock' = "connecting" => srv'[conn'] = "none"
  <2> SUFFICES ASSUME sock = "connecting" PROVE srv'[conn] = "none"
    BY <1>1
  <2>1. conn \in Conns /\ srv[conn] = "none"
    BY UnaryAssumption DEF ClientState, TypeOK, Conns
  <2>2. conn # c
    BY <2>1, ServerLeavesAlone
  <2> QED
    BY <1>1, <2>1, <2>2
<1> QED
  BY <1>1, <1>3, <1>4, <1>5 DEF ClientState, RecentId

\* The client's steps keep its state.
LEMMA ClientStateClient ==
    ASSUME TypeOK, ClientState, Client
    PROVE  ClientState'
<1>0. /\ conn \in 0..MaxConns /\ issued \in 0..MaxCalls /\ nextId \in 0..(IdSpace - 1)
      /\ IdSpace \in Nat \ {0} /\ MaxConns \in Nat
      /\ \A c \in Conns : c \in Nat /\ gaveUp[c] \in Nat
  BY UnaryAssumption DEF TypeOK, Ids, Conns
<1>1. CASE Connect
  <2>1. /\ conn' = conn + 1
        /\ UNCHANGED <<nextId, issued, phase, request, outcome, gaveUp, up, down, srv, reply>>
    BY <1>1 DEF Connect, serverVars
  <2>2. \A c \in Conns : c > conn' => c > conn
    BY <1>0, <2>1
  <2>3. srv'[conn'] = "none"
    BY <1>0, <1>1, <2>1 DEF Connect, ClientState, Conns
  <2> QED
    BY <1>0, <2>1, <2>2, <2>3 DEF ClientState, RecentId
<1>2. ASSUME NEW r \in {"open", "failed"}, ConnectDone(r) PROVE ClientState'
  <2>1. conn \in Conns
    BY <1>2 DEF ConnectDone, TypeOK, Conns
  <2>2. /\ UNCHANGED <<conn, nextId, issued, phase, request, outcome, gaveUp, up, down, reply>>
        /\ sock' # "connecting"
        /\ srv' = [srv EXCEPT ![conn] = IF r = "open" THEN "backlog" ELSE @]
    BY <1>2 DEF ConnectDone
  <2>3. \A c \in Conns : c > conn => c # conn
    BY <1>0
  <2> QED
    BY <2>1, <2>2, <2>3 DEF ClientState, RecentId, TypeOK
<1>3. CASE CallNotConnected
  BY <1>3 DEF CallNotConnected, ClientState, RecentId, Refused, Ended, serverVars
<1>4. ASSUME NEW m \in CallModes, Call(m) PROVE ClientState'
  <2>1. /\ UNCHANGED <<conn, sock, outcome, gaveUp, up, down, srv, reply>> /\ conn # 0
        /\ issued' = issued + 1 /\ phase = "idle" /\ phase' = "sending"
        /\ request'.call = issued + 1 /\ request'.id = nextId
        /\ nextId' = IF nextId + 1 = IdSpace THEN 0 ELSE nextId + 1
    BY <1>4, NextId DEF Call, serverVars
  <2>2. issued' # 0 /\ RecentId(request)'
    BY <1>0, <2>1 DEF RecentId
  <2>3. \A c \in Conns : gaveUp[c] <= issued' - 1
    BY <1>0, <2>1 DEF ClientState
  <2> QED
    BY <2>1, <2>2, <2>3 DEF ClientState
<1>5. CASE SendRequest
  <2>1. conn \in Conns
    BY <1>5 DEF SendRequest, TypeOK, Conns
  <2>2. /\ UNCHANGED <<conn, sock, nextId, issued, request, outcome, gaveUp, down, srv, reply>>
        /\ \A c \in Conns \ {conn} : up'[c] = up[c]
        /\ phase # "idle" /\ phase' # "idle"
    BY <1>5 DEF SendRequest, serverVars, TypeOK
  <2>3. \A c \in Conns : c > conn => up'[c] = <<>> /\ down[c] = <<>> /\ srv[c] = "none"
    <3>1. \A c \in Conns : c > conn => c \in Conns \ {conn}
      BY <1>0
    <3> QED
      BY <2>2, <3>1 DEF ClientState
  <2>4. RecentId(request)' <=> RecentId(request)
    BY <2>2 DEF RecentId
  <2> QED
    BY <2>2, <2>3, <2>4 DEF ClientState
<1>6. ASSUME NEW e \in Interrupts \cup {"CONNECTION_CLOSED"}, GiveUp(e), phase # "idle",
             UNCHANGED <<down, srv, reply>>,
             \A c \in Conns \ {conn} : up'[c] = up[c]
      PROVE  ClientState'
  <2>1. conn \in Conns /\ conn # 0
    BY <1>6 DEF TypeOK, Conns
  <2>2. /\ UNCHANGED <<conn, sock, nextId, issued, request>> /\ phase' = "idle"
        /\ outcome'.on = conn
    BY <1>6 DEF GiveUp, Refused, Ended
  <2>3. \A c \in Conns : c > conn => c # conn
    BY <1>0
  <2>4. \A c \in Conns : gaveUp'[c] <= issued
    <3>1. gaveUp' = [gaveUp EXCEPT ![conn] = @ + 1] /\ gaveUp \in [Conns -> 0..MaxCalls]
      BY <1>6 DEF GiveUp, TypeOK
    <3>2. \A c \in Conns : gaveUp[c] <= issued - 1
      BY <1>6 DEF ClientState
    <3> QED
      BY <1>0, <3>1, <3>2
  <2> QED
    BY <1>0, <1>6, <2>1, <2>2, <2>3, <2>4 DEF ClientState, RecentId
<1>7. ASSUME NEW e \in Interrupts, SendFail(e) PROVE ClientState'
  BY <1>6, <1>7 DEF SendFail, serverVars, TypeOK
<1>8. CASE Receive
  <2>1. conn \in Conns
    BY <1>8 DEF Receive, TypeOK, Conns
  <2>2. /\ UNCHANGED <<conn, sock, nextId, issued, request, gaveUp, up, srv, reply>>
        /\ \A c \in Conns \ {conn} : down'[c] = down[c]
        /\ phase # "idle" /\ phase' = "idle" /\ outcome'.on = conn
    BY <1>8 DEF Receive, serverVars, TypeOK, Refused, Ended
  <2>3. \A c \in Conns : c > conn => up[c] = <<>> /\ down'[c] = <<>> /\ srv[c] = "none"
    <3>1. \A c \in Conns : c > conn => c \in Conns \ {conn}
      BY <1>0
    <3> QED
      BY <2>2, <3>1 DEF ClientState
  <2>4. \A c \in Conns : gaveUp[c] <= issued
    <3>1. \A c \in Conns : gaveUp[c] <= issued - 1
      BY <2>2 DEF ClientState
    <3> QED
      BY <1>0, <3>1
  <2>5. RecentId(request)' <=> RecentId(request)
    BY <2>2 DEF RecentId
  <2>6. conn' # 0 /\ phase' = "idle" /\ outcome'.on \in Conns
    BY <2>1, <2>2, <1>0 DEF Conns
  <2>7. \A c \in Conns : srv[c] \in {"handling", "replying"} => reply[c] \in Replies
    BY DEF ClientState
  <2>8. issued # 0 => request.call = issued /\ RecentId(request)
    BY DEF ClientState
  <2>9. sock = "connecting" => srv[conn] = "none"
    BY DEF ClientState
  <2> QED
    BY <1>0, <2>2, <2>3, <2>4, <2>5, <2>6, <2>7, <2>8, <2>9 DEF ClientState
<1>9. CASE ReceiveClosed
  BY <1>6, <1>9 DEF ReceiveClosed, serverVars
<1>10. ASSUME NEW e \in Interrupts, ReceiveFail(e) PROVE ClientState'
  BY <1>6, <1>10 DEF ReceiveFail, serverVars
<1>11. CASE CloseClient
  BY <1>11 DEF CloseClient, ClientState, RecentId, serverVars
<1> QED
  BY <1>1, <1>2, <1>3, <1>4, <1>5, <1>7, <1>8, <1>9, <1>10, <1>11 DEF Client

-----------------------------------------------------------------------------
(* Frames are owed in the order of their calls.                              *)

\* InPlace with everything it depends on as a parameter: frame f is the i-th of
\* n owed after k calls, g of them given up, in phase p of a call of mode x,
\* with v the next id.
Place(f, i, n, k, g, p, x, v) ==
    /\ f.call \in 1..k
    /\ f.call >= k - g + i - (IF p = "idle" THEN 0 ELSE 1)
    /\ f.call <= k - (n - i) - (IF p = "sending" THEN 1 ELSE 0)
    /\ k - f.call < IdSpace =>
          f.id \in {v - 1 - (k - f.call), v - 1 - (k - f.call) + IdSpace}
    /\ f.call = k => f.mode = x

\* A frame may move forward in a queue that gets no longer behind it.
LEMMA PlaceForward ==
    ASSUME NEW f, NEW i \in Int, NEW n \in Int, NEW k \in Int, NEW g \in Int, NEW p,
           NEW x, NEW v \in Int, NEW j \in Int, NEW m \in Int,
           Place(f, i, n, k, g, p, x, v), j <= i, m - j <= n - i
    PROVE  Place(f, j, m, k, g, p, x, v)
  BY DEF Place

\* The place of a response is the place of its request.
LEMMA PlaceResponse ==
    ASSUME NEW f, NEW r, NEW i, NEW n, NEW k, NEW g, NEW p, NEW x, NEW v,
           Place(f, i, n, k, g, p, x, v), r.call = f.call, r.id = f.id, r.mode = f.mode
    PROVE  Place(r, i, n, k, g, p, x, v)
  BY DEF Place

\* A call that is given up counts for every frame that is owed.
LEMMA PlaceGiveUp ==
    ASSUME NEW f, NEW i \in Int, NEW n \in Int, NEW k \in Int, NEW g \in Int,
           NEW p \in {"sending", "receiving"}, NEW x, NEW v \in Int,
           Place(f, i, n, k, g, p, x, v)
    PROVE  Place(f, i, n, k, g + 1, "idle", x, v)
  BY DEF Place

\* A frame moves up when the call takes the one in front.
LEMMA PlaceReceive ==
    ASSUME NEW f, NEW i \in Int, NEW n \in Int, NEW k \in Int, NEW g \in Int,
           NEW x, NEW v \in Int,
           Place(f, i + 1, n, k, g, "receiving", x, v)
    PROVE  Place(f, i, n - 1, k, g, "idle", x, v)
  BY DEF Place

\* A new call changes no place, and the id that runs round stays recognisable.
LEMMA PlaceCall ==
    ASSUME NEW f, NEW i \in Int, NEW n \in Int, NEW k \in Int, NEW g \in Int,
           NEW x, NEW v \in Ids, NEW y, f.id \in Ids,
           Place(f, i, n, k, g, "idle", x, v)
    PROVE  Place(f, i, n, k + 1, g, "sending", y, IF v + 1 = IdSpace THEN 0 ELSE v + 1)
<1>1. IdSpace \in Nat \ {0} /\ v \in 0..(IdSpace - 1) /\ f.id \in 0..(IdSpace - 1)
  BY UnaryAssumption DEF Ids
<1> QED
  BY <1>1 DEF Place

\* Sending a request puts one more frame behind the others.
LEMMA PlaceSend ==
    ASSUME NEW f, NEW i \in Int, NEW n \in Int, NEW k \in Int, NEW g \in Int,
           NEW x, NEW v \in Int,
           Place(f, i, n, k, g, "sending", x, v)
    PROVE  Place(f, i, n + 1, k, g, "receiving", x, v)
  BY DEF Place

\* The frames owed while a request is sent belong to different calls, all given
\* up.
LEMMA PlaceRoom ==
    ASSUME NEW f, NEW n \in Int, NEW k \in Int, NEW g \in Int,
           NEW x, NEW v \in Int,
           Place(f, n, n, k, g, "sending", x, v)
    PROVE  n <= g
  BY DEF Place

\* Types of what a place depends on.
LEMMA OwedTypes ==
    ASSUME TypeOK, conn # 0
    PROVE  /\ conn \in Conns /\ issued \in Int /\ gaveUp[conn] \in Int /\ nextId \in Int
           /\ Len(down[conn]) \in Nat /\ Len(up[conn]) \in Nat /\ Working(conn) \in {0, 1}
           /\ Owed(conn) \in Int
<1>1. conn \in Conns
  BY UnaryAssumption DEF TypeOK, Conns
<1>2. Len(down[conn]) \in Nat /\ Len(up[conn]) \in Nat /\ gaveUp[conn] \in 0..MaxCalls
  BY <1>1, UpTypes
<1>3. Working(conn) \in {0, 1}
  BY DEF Working
<1>4. Owed(conn) \in Int
  BY <1>2, <1>3 DEF Owed
<1> QED
  BY <1>1, <1>2, <1>3, <1>4, UnaryAssumption DEF TypeOK, Ids

\* OwedInOrder in terms of Place.
LEMMA OwedPlaces ==
    /\ OwedInOrder <=>
         ((conn # 0 /\ conn \notin torn) =>
            /\ \A i \in 1..Len(down[conn]) :
                 Place(down[conn][i], i, Owed(conn), issued, gaveUp[conn], phase,
                       request.mode, nextId)
            /\ Working(conn) = 1 =>
                 Place(reply[conn], Len(down[conn]) + 1, Owed(conn), issued, gaveUp[conn],
                       phase, request.mode, nextId)
            /\ \A i \in 1..Len(up[conn]) :
                 Place(up[conn][i], Len(down[conn]) + Working(conn) + i, Owed(conn), issued,
                       gaveUp[conn], phase, request.mode, nextId))
    /\ OwedInOrder' <=>
         ((conn' # 0 /\ conn' \notin torn') =>
            /\ \A i \in 1..Len(down'[conn']) :
                 Place(down'[conn'][i], i, Owed(conn)', issued', gaveUp'[conn'], phase',
                       request'.mode, nextId')
            /\ Working(conn)' = 1 =>
                 Place(reply'[conn'], Len(down'[conn']) + 1, Owed(conn)', issued',
                       gaveUp'[conn'], phase', request'.mode, nextId')
            /\ \A i \in 1..Len(up'[conn']) :
                 Place(up'[conn'][i], Len(down'[conn']) + Working(conn)' + i, Owed(conn)',
                       issued', gaveUp'[conn'], phase', request'.mode, nextId'))
  BY DEF OwedInOrder, InPlace, RecentId, Place

\* Steps that leave the queues of the current connection and their worker alone.
LEMMA OwedSame ==
    ASSUME OwedInOrder, UNCHANGED <<conn, torn, issued, phase, request, nextId>>,
           conn # 0 => /\ gaveUp'[conn] = gaveUp[conn]
                       /\ down'[conn] = down[conn] /\ up'[conn] = up[conn]
                       /\ Working(conn)' = Working(conn)
                       /\ Working(conn) = 1 => /\ reply'[conn].call = reply[conn].call
                                               /\ reply'[conn].id = reply[conn].id
                                               /\ reply'[conn].mode = reply[conn].mode
    PROVE  OwedInOrder'
<1>1. CASE conn # 0 /\ conn \notin torn
  <2>1. Owed(conn)' = Owed(conn)
    BY <1>1 DEF Owed
  <2>2. /\ \A i \in 1..Len(down[conn]) :
             Place(down[conn][i], i, Owed(conn), issued, gaveUp[conn], phase,
                   request.mode, nextId)
        /\ Working(conn) = 1 =>
             Place(reply[conn], Len(down[conn]) + 1, Owed(conn), issued, gaveUp[conn],
                   phase, request.mode, nextId)
        /\ \A i \in 1..Len(up[conn]) :
             Place(up[conn][i], Len(down[conn]) + Working(conn) + i, Owed(conn), issued,
                   gaveUp[conn], phase, request.mode, nextId)
    BY <1>1, OwedPlaces
  <2>3. Working(conn) = 1 =>
             Place(reply'[conn], Len(down[conn]) + 1, Owed(conn), issued, gaveUp[conn],
                   phase, request.mode, nextId)
    BY <1>1, <2>2, PlaceResponse
  <2> QED
    BY <1>1, <2>1, <2>2, <2>3, OwedPlaces
<1>2. CASE conn = 0 \/ conn \in torn
  BY <1>2 DEF OwedInOrder
<1> QED
  BY <1>1, <1>2

\* The server's steps keep the order, from a request read to a response sent.
LEMMA OwedServer ==
    ASSUME TypeOK, ClientState, OwedInOrder, NEW c \in Conns, Server(c)
    PROVE  OwedInOrder'
<1>1. /\ UNCHANGED <<conn, torn, issued, phase, request, nextId, gaveUp>>
      /\ \A d \in Conns \ {c} : /\ up'[d] = up[d] /\ down'[d] = down[d]
                                /\ srv'[d] = srv[d] /\ reply'[d] = reply[d]
  BY ServerLeavesAlone DEF clientVars
<1>2. CASE c # conn
  <2>1. conn # 0 => conn \in Conns \ {c}
    BY <1>2, OwedTypes
  <2> QED
    BY <1>1, <2>1, OwedSame DEF Working
<1>3. CASE c = conn /\ c \in torn
  BY <1>1, <1>3 DEF OwedInOrder
<1>4. CASE c = conn /\ c \notin torn
  <2> DEFINE D == Len(down[conn])
             U == Len(up[conn])
             n == Owed(conn)
             At(f, i) == Place(f, i, n, issued, gaveUp[conn], phase, request.mode, nextId)
  <2>1. conn # 0 /\ conn \in Conns /\ conn' = conn
    BY <1>1, <1>4, UnaryAssumption DEF Conns
  <2>2. D \in Nat /\ U \in Nat /\ n \in Int /\ Working(conn) \in {0, 1}
        /\ issued \in Int /\ gaveUp[conn] \in Int /\ nextId \in Int
        /\ n = D + Working(conn) + U
    BY <2>1, OwedTypes DEF Owed
  <2>3. /\ \A i \in 1..D : At(down[conn][i], i)
        /\ Working(conn) = 1 => At(reply[conn], D + 1)
        /\ \A i \in 1..U : At(up[conn][i], D + Working(conn) + i)
    BY <1>4, <2>1, OwedPlaces
  <2>4. ASSUME NEW m \in Int, Owed(conn)' = m,
               \A i \in 1..Len(down'[conn]) :
                  Place(down'[conn][i], i, m, issued, gaveUp[conn], phase, request.mode, nextId),
               Working(conn)' = 1 =>
                  Place(reply'[conn], Len(down'[conn]) + 1, m, issued, gaveUp[conn], phase,
                        request.mode, nextId),
               \A i \in 1..Len(up'[conn]) :
                  Place(up'[conn][i], Len(down'[conn]) + Working(conn)' + i, m, issued,
                        gaveUp[conn], phase, request.mode, nextId)
        PROVE  OwedInOrder'
    BY <1>1, <2>4, OwedPlaces
  <2>11. Owed(conn)' = Len(down'[conn]) + Working(conn)' + Len(up'[conn])
    BY <2>1 DEF Owed
  <2> HIDE DEF n, At, D, U
  <2>12. Len(down[conn]) = D /\ Len(up[conn]) = U
    BY DEF D, U
  <2>5. CASE ReadRequest(c)
    <3>1. /\ up[conn] # <<>> /\ up'[conn] = Tail(up[conn]) /\ down'[conn] = down[conn]
          /\ reply'[conn] = ResponseTo(Head(up[conn]))
          /\ Working(conn) = 0 /\ Working(conn)' = 1
      BY <1>1, <1>4, <2>1, <2>5 DEF ReadRequest, Working, TypeOK
    <3>2. /\ U >= 1 /\ Head(up[conn]) = up[conn][1] /\ Len(up'[conn]) = U - 1
          /\ \A i \in 1..(U - 1) : up'[conn][i] = up[conn][i + 1]
      BY <2>1, <3>1, UpTypes, QueueTail DEF U
    <3>3. Owed(conn)' = n
      <4>1. Owed(conn)' = D + 1 + (U - 1) /\ n = D + 0 + U
        BY <2>2, <2>11, <2>12, <3>1, <3>2
      <4> QED
        BY <2>2, <4>1
    <3>4. At(reply'[conn], D + 1)
      <4>1. At(up[conn][1], D + 1)
        BY <2>2, <2>3, <3>1, <3>2
      <4> QED
        BY <3>1, <3>2, <4>1, PlaceResponse DEF At, ResponseTo
    <3>5. \A i \in 1..Len(up'[conn]) : At(up'[conn][i], D + 1 + i)
      <4>1. ASSUME NEW i \in 1..Len(up'[conn]) PROVE At(up'[conn][i], D + 1 + i)
        <5>1. i + 1 \in 1..U /\ D + 0 + (i + 1) = D + 1 + i /\ i \in 1..(U - 1)
          <6>1. i \in 1..(U - 1)
            BY <3>2
          <6> QED
            BY <2>2, <6>1
        <5> QED
          BY <2>3, <3>1, <3>2, <5>1
      <4> QED
        BY <4>1
    <3> QED
      BY <2>2, <2>3, <2>4, <2>12, <3>1, <3>3, <3>4, <3>5 DEF At
  <2>6. CASE ReadTorn(c)
    <3>1. up[conn] # <<>> /\ Head(up[conn]) = Torn /\ srv[conn] = "reading" /\ U > 1
      BY <1>4, <2>1, <2>6, <2>2, UpTypes DEF ReadTorn, U
    <3>2. up[conn][1].call = 0
      BY <2>1, <3>1, UpTypes, QueueTail DEF Torn
    <3>3. up[conn][1].call \in 1..issued
      BY <2>2, <2>3, <3>1 DEF At, Place
    <3> QED
      BY <2>2, <3>2, <3>3
  <2>7. ASSUME NEW a \in Answers, Handle(c, a) PROVE OwedInOrder'
    <3>1. reply[conn] \in Replies /\ reply'[conn] = [reply[conn] EXCEPT !.answer = a]
      BY <1>4, <2>1, <2>7 DEF Handle, ClientState, TypeOK
    <3>2. /\ reply'[conn].call = reply[conn].call /\ reply'[conn].id = reply[conn].id
          /\ reply'[conn].mode = reply[conn].mode
      BY <3>1 DEF Replies
    <3>3. /\ down'[conn] = down[conn] /\ up'[conn] = up[conn]
          /\ Working(conn)' = Working(conn)
      BY <1>1, <1>4, <2>1, <2>7 DEF Handle, Working, TypeOK
    <3> QED
      BY <1>1, <3>2, <3>3, OwedSame
  <2>8. CASE SendResponse(c)
    <3>1. /\ down'[conn] = Append(down[conn], reply[conn]) /\ up'[conn] = up[conn]
          /\ Working(conn) = 1 /\ Working(conn)' = 0
      BY <1>1, <1>4, <2>1, <2>8 DEF SendResponse, Working, Loop, TypeOK
    <3>2. down[conn] \in Seq(Replies) /\ reply[conn] \in Replies
      BY <1>4, <2>1, <2>8, UpTypes DEF SendResponse, ClientState
    <3>3. /\ Len(down'[conn]) = D + 1 /\ down'[conn][D + 1] = reply[conn]
          /\ \A i \in 1..D : down'[conn][i] = down[conn][i]
      BY <3>1, <3>2, QueueAppend DEF D
    <3>4. Owed(conn)' = n
      <4>1. Owed(conn)' = D + 1 + 0 + U /\ n = D + 1 + U
        BY <2>2, <2>11, <2>12, <3>1, <3>3
      <4> QED
        BY <2>2, <4>1
    <3>5. \A i \in 1..(D + 1) : At(down'[conn][i], i)
      BY <2>2, <2>3, <3>1, <3>3
    <3>6. \A i \in 1..U : At(up'[conn][i], D + 1 + 0 + i)
      BY <2>2, <2>3, <3>1
    <3> QED
      <4>1. \A i \in 1..Len(down'[conn]) : At(down'[conn][i], i)
        BY <3>3, <3>5
      <4>2. \A i \in 1..Len(up'[conn]) :
               At(up'[conn][i], Len(down'[conn]) + Working(conn)' + i)
        BY <2>12, <3>1, <3>3, <3>6
      <4> QED
        BY <2>2, <2>4, <3>1, <3>4, <4>1, <4>2 DEF At
  <2>9. CASE SendResponseFail(c)
    <3>1. /\ down'[conn] = down[conn] /\ up'[conn] = up[conn]
          /\ Working(conn) = 1 /\ Working(conn)' = 0
      BY <1>1, <1>4, <2>1, <2>9 DEF SendResponseFail, Working, TypeOK
    <3>2. Owed(conn)' = n - 1
      <4>1. Owed(conn)' = D + 0 + U /\ n = D + 1 + U
        BY <2>2, <2>11, <2>12, <3>1
      <4> QED
        BY <2>2, <4>1
    <3>3. \A i \in 1..D : Place(down[conn][i], i, n - 1, issued, gaveUp[conn], phase,
                                request.mode, nextId)
      BY <2>2, <2>3, PlaceForward DEF At
    <3>4. \A i \in 1..U : Place(up[conn][i], D + 0 + i, n - 1, issued, gaveUp[conn], phase,
                                request.mode, nextId)
      <4>1. ASSUME NEW i \in 1..U
            PROVE  Place(up[conn][i], D + 0 + i, n - 1, issued, gaveUp[conn], phase,
                         request.mode, nextId)
        <5>1. At(up[conn][i], D + 1 + i)
          BY <2>3, <3>1
        <5>2. /\ D + 1 + i \in Int /\ D + 0 + i \in Int /\ D + 0 + i <= D + 1 + i
              /\ (n - 1) - (D + 0 + i) <= n - (D + 1 + i) /\ n - 1 \in Int
          BY <2>2
        <5> QED
          BY <2>2, <5>1, <5>2, PlaceForward DEF At
      <4> QED
        BY <4>1
    <3>5. n - 1 \in Int
      BY <2>2
    <3> QED
      <4>1. \A i \in 1..Len(down'[conn]) :
               Place(down'[conn][i], i, n - 1, issued, gaveUp[conn], phase, request.mode, nextId)
        BY <2>12, <3>1, <3>3
      <4>2. \A i \in 1..Len(up'[conn]) :
               Place(up'[conn][i], Len(down'[conn]) + Working(conn)' + i, n - 1, issued,
                     gaveUp[conn], phase, request.mode, nextId)
        BY <2>12, <3>1, <3>4
      <4> QED
        BY <2>4, <3>1, <3>2, <3>5, <4>1, <4>2
  <2>10. CASE Accept(c) \/ AcceptFail(c) \/ handleConnection(c) \/ ReadFail(c)
    <3>1. /\ down'[conn] = down[conn] /\ up'[conn] = up[conn] /\ reply'[conn] = reply[conn]
          /\ Working(conn)' = Working(conn)
      BY <1>1, <1>4, <2>1, <2>10 DEF Accept, AcceptFail, handleConnection, ReadFail, Loop,
                                     Working, TypeOK
    <3> QED
      BY <1>1, <3>1, OwedSame
  <2> QED
    BY <2>5, <2>6, <2>7, <2>8, <2>9, <2>10 DEF Server
<1> QED
  BY <1>2, <1>3, <1>4

\* Every frame of a queue has an id.
LEMMA FrameIds ==
    ASSUME TypeOK, ClientState, NEW c \in Conns
    PROVE  /\ \A i \in 1..Len(down[c]) : down[c][i].id \in Ids
           /\ \A i \in 1..Len(up[c]) : up[c][i].id \in Ids
           /\ Working(c) = 1 => reply[c].id \in Ids
<1>1. down[c] \in Seq(Replies) /\ up[c] \in Seq(Frames \cup {Torn})
  BY UpTypes
<1>2. 0 \in Ids
  BY UnaryAssumption DEF Ids
<1>3. /\ \A i \in 1..Len(down[c]) : down[c][i] \in Replies
      /\ \A i \in 1..Len(up[c]) : up[c][i] \in Frames \cup {Torn}
  BY <1>1
<1>4. Working(c) = 1 => reply[c] \in Replies
  BY DEF Working, ClientState
<1> QED
  BY <1>2, <1>3, <1>4 DEF Replies, Frames, Torn

\* The client's steps keep the order: a call takes the oldest frame, and every
\* call that does not is counted.
LEMMA OwedClient ==
    ASSUME TypeOK, ClientState, OwedInOrder, Client
    PROVE  OwedInOrder'
<1> DEFINE D == Len(down[conn])
           U == Len(up[conn])
           W == Working(conn)
           n == Owed(conn)
           g == gaveUp[conn]
           At(f, i) == Place(f, i, n, issued, g, phase, request.mode, nextId)
<1>1. ASSUME conn # 0
      PROVE  /\ conn \in Conns /\ issued \in Int /\ g \in Int /\ nextId \in Ids /\ nextId \in Int
             /\ D \in Nat /\ U \in Nat /\ W \in {0, 1} /\ W \in Int
             /\ n \in Int /\ n = D + W + U
  BY <1>1, OwedTypes DEF Owed, TypeOK
<1>2. ASSUME conn # 0, conn \notin torn
      PROVE  /\ \A i \in 1..D : At(down[conn][i], i)
             /\ W = 1 => At(reply[conn], D + 1)
             /\ \A i \in 1..U : At(up[conn][i], D + W + i)
  BY <1>2, OwedPlaces
<1>3. CASE Connect
  <2>1. conn' \in Conns /\ conn' > conn
    BY <1>3, UnaryAssumption DEF Connect, Conns, TypeOK
  <2>2. up'[conn'] = <<>> /\ down'[conn'] = <<>> /\ srv'[conn'] = "none"
    BY <1>3, <2>1 DEF Connect, ClientState, serverVars
  <2>3. Working(conn)' = 0 /\ Len(down'[conn']) = 0 /\ Len(up'[conn']) = 0
    BY <2>2 DEF Working
  <2> QED
    BY <2>3, OwedPlaces
<1>4. ASSUME NEW r \in {"open", "failed"}, ConnectDone(r) PROVE OwedInOrder'
  <2>1. /\ UNCHANGED <<conn, torn, issued, phase, request, nextId, gaveUp, down, up, reply>>
        /\ srv[conn] = "none" /\ conn \in Conns
    BY <1>4 DEF ConnectDone, ClientState, TypeOK, Conns
  <2>2. Working(conn)' = Working(conn)
    BY <1>4, <2>1 DEF ConnectDone, Working, TypeOK
  <2> QED
    BY <2>1, <2>2, OwedSame
<1>5. CASE CallNotConnected
  BY <1>5 DEF CallNotConnected, OwedInOrder
<1>6. ASSUME NEW m \in CallModes, Call(m) PROVE OwedInOrder'
  <2>1. /\ UNCHANGED <<conn, torn, gaveUp, up, down, srv, reply>> /\ conn # 0
        /\ issued' = issued + 1 /\ phase = "idle" /\ phase' = "sending"
        /\ nextId' = IF nextId + 1 = IdSpace THEN 0 ELSE nextId + 1
    BY <1>6, NextId DEF Call, serverVars
  <2>2. Owed(conn)' = n /\ Working(conn)' = W
    BY <2>1 DEF Owed, Working
  <2> HIDE DEF n, D, U, W, g
  <2>3. ASSUME conn \notin torn, NEW f, NEW i \in Int, f.id \in Ids, At(f, i)
        PROVE  Place(f, i, n, issued', g, phase', request'.mode, nextId')
    BY <1>1, <2>1, <2>3, PlaceCall
  <2> HIDE DEF At
  <2>4. CASE conn \in torn
    BY <2>1, <2>4 DEF OwedInOrder
  <2>5. CASE conn \notin torn
    <3>1. \A i \in 1..D : Place(down[conn][i], i, n, issued', g, phase', request'.mode, nextId')
      <4>1. ASSUME NEW i \in 1..D
            PROVE  Place(down[conn][i], i, n, issued', g, phase', request'.mode, nextId')
        <5>1. conn \in Conns /\ i \in Int
          BY <1>1, <2>1
        <5>2. down[conn][i].id \in Ids
          BY <5>1, FrameIds DEF D
        <5>3. At(down[conn][i], i)
          BY <1>2, <2>1, <2>5
        <5> QED
          BY <2>3, <2>5, <5>1, <5>2, <5>3
      <4> QED
        BY <4>1
    <3>2. W = 1 => Place(reply[conn], D + 1, n, issued', g, phase', request'.mode, nextId')
      <4>1. D + 1 \in Int /\ (W = 1 => reply[conn].id \in Ids)
        BY <1>1, <2>1, FrameIds DEF W
      <4> QED
        BY <1>2, <2>1, <2>3, <2>5, <4>1
    <3>3. \A i \in 1..U :
             Place(up[conn][i], D + W + i, n, issued', g, phase', request'.mode, nextId')
      <4>1. ASSUME NEW i \in 1..U
            PROVE  Place(up[conn][i], D + W + i, n, issued', g, phase', request'.mode, nextId')
        <5>1. D + W + i \in Int
          BY <1>1, <2>1
        <5>2. up[conn][i].id \in Ids
          BY <1>1, <2>1, FrameIds DEF U
        <5> QED
          BY <1>2, <2>1, <2>3, <2>5, <5>1, <5>2
      <4> QED
        BY <4>1
    <3> QED
      BY <2>1, <2>2, <2>5, <3>1, <3>2, <3>3, OwedPlaces DEF D, U, W, n, g
  <2> QED
    BY <2>4, <2>5
<1>7. CASE SendRequest
  <2>1. /\ UNCHANGED <<conn, torn, nextId, issued, request, gaveUp, down, srv, reply>>
        /\ phase = "sending" /\ phase' = "receiving" /\ conn # 0
        /\ up'[conn] = Append(up[conn], request) /\ request \in Frames
    BY <1>7, <1>1 DEF SendRequest, serverVars, TypeOK
  <2>2. /\ Len(up'[conn]) = U + 1 /\ up'[conn][U + 1] = request
        /\ \A i \in 1..U : up'[conn][i] = up[conn][i]
    BY <1>1, <2>1, UpTypes, QueueAppend
  <2>3. Working(conn)' = W /\ Owed(conn)' = D + W + (U + 1)
    BY <2>1, <2>2 DEF Owed, Working
  <2>4. request.call = issued /\ RecentId(request) /\ issued # 0 /\ g >= 0 /\ issued \in Nat
    BY <1>1, <2>1, UpTypes, UnaryAssumption DEF ClientState, TypeOK
  <2> HIDE DEF n, D, U, W, g
  <2>5. Owed(conn)' = n + 1
    BY <1>1, <2>1, <2>3
  <2>6. CASE conn \in torn
    BY <2>1, <2>6 DEF OwedInOrder
  <2>7. CASE conn \notin torn
    <3>1. n <= g
      <4>1. CASE U > 0
        <5>1. U \in 1..U /\ D + W + U = n
          BY <1>1, <2>1, <4>1
        <5>2. At(up[conn][U], n)
          BY <1>2, <2>1, <2>7, <5>1
        <5> QED
          BY <1>1, <2>1, <5>2, PlaceRoom
      <4>2. CASE U = 0 /\ W = 1
        <5>1. D + 1 = n
          BY <1>1, <2>1, <4>2
        <5>2. At(reply[conn], n)
          BY <1>2, <2>1, <2>7, <4>2, <5>1
        <5> QED
          BY <1>1, <2>1, <5>2, PlaceRoom
      <4>3. CASE U = 0 /\ W = 0 /\ D > 0
        <5>1. D = n /\ D \in 1..D
          BY <1>1, <2>1, <4>3
        <5>2. At(down[conn][D], n)
          BY <1>2, <2>1, <2>7, <5>1
        <5> QED
          BY <1>1, <2>1, <5>2, PlaceRoom
      <4>4. CASE U = 0 /\ W = 0 /\ D = 0
        BY <1>1, <2>1, <2>4, <4>4
      <4> QED
        BY <1>1, <2>1, <4>1, <4>2, <4>3, <4>4
    <3>2. Place(request, n + 1, n + 1, issued, g, "receiving", request.mode, nextId)
      <4>1. IdSpace \in Nat \ {0}
        BY UnaryAssumption
      <4> QED
        BY <1>1, <2>1, <2>4, <3>1, <4>1 DEF Place, RecentId
    <3>3. \A i \in 1..D :
             Place(down[conn][i], i, n + 1, issued, g, "receiving", request.mode, nextId)
      BY <1>1, <1>2, <2>1, <2>7, PlaceSend
    <3>4. W = 1 =>
             Place(reply[conn], D + 1, n + 1, issued, g, "receiving", request.mode, nextId)
      BY <1>1, <1>2, <2>1, <2>7, PlaceSend
    <3>5. \A i \in 1..(U + 1) :
             Place(up'[conn][i], D + W + i, n + 1, issued, g, "receiving", request.mode, nextId)
      <4>1. ASSUME NEW i \in 1..U
            PROVE  Place(up'[conn][i], D + W + i, n + 1, issued, g, "receiving",
                         request.mode, nextId)
        <5>1. D + W + i \in Int
          BY <1>1, <2>1
        <5> QED
          BY <1>1, <1>2, <2>1, <2>2, <2>7, <5>1, PlaceSend
      <4>2. D + W + (U + 1) = n + 1
        BY <1>1, <2>1
      <4>3. \A i \in 1..(U + 1) : i \in 1..U \/ i = U + 1
        BY <1>1, <2>1
      <4> QED
        BY <2>2, <3>2, <4>1, <4>2, <4>3
    <3> QED
      BY <2>1, <2>2, <2>3, <2>5, <2>7, <3>3, <3>4, <3>5, OwedPlaces DEF D, W, g
  <2> QED
    BY <2>6, <2>7
<1>8. ASSUME NEW e \in Interrupts \cup {"CONNECTION_CLOSED"}, GiveUp(e), phase # "idle",
             UNCHANGED <<down, srv, reply, up, torn>>
      PROVE  OwedInOrder'
  <2>1. /\ UNCHANGED <<conn, nextId, issued, request>> /\ phase' = "idle"
        /\ phase \in {"sending", "receiving"} /\ conn # 0
        /\ gaveUp' = [gaveUp EXCEPT ![conn] = @ + 1]
    BY <1>8 DEF GiveUp, TypeOK
  <2>2. Owed(conn)' = n /\ Working(conn)' = W /\ gaveUp'[conn] = g + 1
    BY <1>1, <1>8, <2>1 DEF Owed, Working, TypeOK
  <2> HIDE DEF n, D, U, W, g
  <2>3. CASE conn \in torn
    BY <1>8, <2>1, <2>3 DEF OwedInOrder
  <2>4. CASE conn \notin torn
    <3>0. ASSUME NEW f, NEW i \in Int, At(f, i)
          PROVE  Place(f, i, n, issued, g + 1, "idle", request.mode, nextId)
      BY <1>1, <2>1, <3>0, PlaceGiveUp
    <3>1. \A i \in 1..D : Place(down[conn][i], i, n, issued, g + 1, "idle", request.mode, nextId)
      BY <1>2, <2>1, <2>4, <3>0
    <3>2. W = 1 => Place(reply[conn], D + 1, n, issued, g + 1, "idle", request.mode, nextId)
      <4>1. D + 1 \in Int
        BY <1>1, <2>1
      <4> QED
        BY <1>2, <2>1, <2>4, <3>0, <4>1
    <3>3. \A i \in 1..U :
             Place(up[conn][i], D + W + i, n, issued, g + 1, "idle", request.mode, nextId)
      <4>1. ASSUME NEW i \in 1..U
            PROVE  Place(up[conn][i], D + W + i, n, issued, g + 1, "idle", request.mode, nextId)
        <5>1. D + W + i \in Int
          BY <1>1, <2>1
        <5> QED
          BY <1>2, <2>1, <2>4, <3>0, <5>1
      <4> QED
        BY <4>1
    <3> QED
      BY <1>8, <2>1, <2>2, <2>4, <3>1, <3>2, <3>3, OwedPlaces DEF D, U, W
  <2> QED
    BY <2>3, <2>4
<1>9. ASSUME NEW e \in Interrupts, SendFail(e) PROVE OwedInOrder'
  <2>1. GiveUp(e) /\ phase # "idle" /\ UNCHANGED <<down, srv, reply>>
    BY <1>9 DEF SendFail, serverVars
  <2>2. CASE UNCHANGED <<up, torn>>
    BY <1>8, <2>1, <2>2
  <2>3. CASE torn' = torn \cup {conn}
    BY <2>1, <2>3 DEF GiveUp, OwedInOrder
  <2> QED
    BY <1>9, <2>2, <2>3 DEF SendFail
<1>10. CASE Receive
  <2>1. /\ UNCHANGED <<conn, torn, nextId, issued, request, gaveUp, up, srv, reply>>
        /\ phase = "receiving" /\ phase' = "idle" /\ conn # 0
        /\ down[conn] # <<>> /\ down'[conn] = Tail(down[conn])
    BY <1>10, <1>1 DEF Receive, serverVars, TypeOK
  <2>2. /\ D >= 1 /\ Len(down'[conn]) = D - 1
        /\ \A i \in 1..(D - 1) : down'[conn][i] = down[conn][i + 1]
    BY <1>1, <2>1, UpTypes, QueueTail
  <2>3. Working(conn)' = W /\ Owed(conn)' = (D - 1) + W + U
    BY <2>1, <2>2 DEF Owed, Working
  <2> HIDE DEF n, D, U, W, g
  <2>4. Owed(conn)' = n - 1
    BY <1>1, <2>1, <2>3
  <2>5. CASE conn \in torn
    BY <2>1, <2>5 DEF OwedInOrder
  <2>6. CASE conn \notin torn
    <3>1. \A i \in 1..(D - 1) :
             Place(down'[conn][i], i, n - 1, issued, g, "idle", request.mode, nextId)
      <4>1. ASSUME NEW i \in 1..(D - 1)
            PROVE  Place(down'[conn][i], i, n - 1, issued, g, "idle", request.mode, nextId)
        <5>1. i \in Int /\ i + 1 \in 1..D
          BY <1>1, <2>1
        <5>2. At(down[conn][i + 1], i + 1)
          BY <1>2, <2>1, <2>6, <5>1
        <5> QED
          BY <1>1, <2>1, <2>2, <5>1, <5>2, PlaceReceive
      <4> QED
        BY <4>1
    <3>2. W = 1 =>
             Place(reply[conn], (D - 1) + 1, n - 1, issued, g, "idle", request.mode, nextId)
      <4>1. D \in Int /\ (D - 1) + 1 = D
        BY <1>1, <2>1
      <4> QED
        BY <1>1, <1>2, <2>1, <2>6, <4>1, PlaceReceive
    <3>3. \A i \in 1..U :
             Place(up[conn][i], (D - 1) + W + i, n - 1, issued, g, "idle", request.mode, nextId)
      <4>1. ASSUME NEW i \in 1..U
            PROVE  Place(up[conn][i], (D - 1) + W + i, n - 1, issued, g, "idle",
                         request.mode, nextId)
        <5>1. (D - 1) + W + i \in Int /\ ((D - 1) + W + i) + 1 = D + W + i
          BY <1>1, <2>1
        <5>2. At(up[conn][i], ((D - 1) + W + i) + 1)
          BY <1>2, <2>1, <2>6, <5>1
        <5> QED
          BY <1>1, <2>1, <5>1, <5>2, PlaceReceive
      <4> QED
        BY <4>1
    <3> QED
      BY <2>1, <2>2, <2>3, <2>4, <2>6, <3>1, <3>2, <3>3, OwedPlaces DEF U, W, g
  <2> QED
    BY <2>5, <2>6
<1>11. CASE ReceiveClosed
  BY <1>8, <1>11 DEF ReceiveClosed, serverVars
<1>12. ASSUME NEW e \in Interrupts, ReceiveFail(e) PROVE OwedInOrder'
  BY <1>8, <1>12 DEF ReceiveFail, serverVars
<1>13. CASE CloseClient
  <2>1. UNCHANGED <<conn, torn, issued, phase, request, nextId, gaveUp, up, down, srv, reply>>
    BY <1>13 DEF CloseClient, serverVars
  <2> QED
    BY <2>1, OwedSame DEF Working
<1> QED
  BY <1>3, <1>4, <1>5, <1>6, <1>7, <1>9, <1>10, <1>11, <1>12, <1>13 DEF Client

-----------------------------------------------------------------------------
(* Every call is answered at most once, and answers stay in the log.         *)

\* The highest call that may have been answered.
Sent == issued - (IF phase = "sending" THEN 1 ELSE 0)

\* What is in the log stays there.
LEMMA LogGrows ==
    ASSUME TypeOK, [Next]_vars
    PROVE  /\ Len(log) \in Nat /\ Len(log') \in Nat
           /\ \A i \in 1..Len(log) : i \in 1..Len(log') /\ log'[i] = log[i]
<1>1. log \in Seq([call : 0..MaxCalls, answer : Answers]) /\ Len(log) \in Nat
  BY DEF TypeOK
<1>2. CASE UNCHANGED log
  BY <1>1, <1>2
<1>3. ASSUME NEW c \in Conns, NEW a \in Answers, Handle(c, a), reply[c].call # 0
      PROVE  \E r : log' = Append(log, r)
  BY <1>3 DEF Handle
<1>4. ASSUME NEW r, log' = Append(log, r)
      PROVE  Len(log') = Len(log) + 1 /\ \A i \in 1..Len(log) : log'[i] = log[i]
  BY <1>1, <1>4
<1>5. CASE \E r : log' = Append(log, r)
  BY <1>1, <1>4, <1>5
<1>6. (\E r : log' = Append(log, r)) \/ UNCHANGED log
  <2>1. CASE Client
    BY <2>1 DEF Client, Connect, ConnectDone, CallNotConnected, Call, SendRequest, SendFail,
                Receive, ReceiveClosed, ReceiveFail, CloseClient, serverVars
  <2>2. ASSUME NEW c \in Conns, Server(c) PROVE (\E r : log' = Append(log, r)) \/ UNCHANGED log
    <3>1. ASSUME NEW a \in Answers, Handle(c, a), reply[c].call = 0 PROVE UNCHANGED log
      BY <3>1 DEF Handle
    <3>2. CASE Accept(c) \/ AcceptFail(c) \/ handleConnection(c) \/ ReadRequest(c)
               \/ ReadTorn(c) \/ ReadFail(c) \/ SendResponse(c) \/ SendResponseFail(c)
      BY <3>2 DEF Accept, AcceptFail, handleConnection, ReadRequest, ReadTorn, ReadFail,
                  SendResponse, SendResponseFail
    <3> QED
      BY <1>3, <2>2, <3>1, <3>2 DEF Server
  <2>3. CASE Stop
    BY <2>3 DEF Stop
  <2>4. CASE UNCHANGED vars
    BY <2>4 DEF vars, serverVars
  <2> QED
    BY <2>1, <2>2, <2>3, <2>4 DEF Next
<1> QED
  BY <1>2, <1>5, <1>6

\* Logged with the log as a parameter.
InLog(r, l) ==
    r.call # 0 => \E i \in 1..Len(l) : l[i].call = r.call /\ l[i].answer = r.answer

\* A logged response stays logged.
LEMMA LoggedStays ==
    ASSUME TypeOK, [Next]_vars, NEW r, InLog(r, log)
    PROVE  InLog(r, log')
  BY LogGrows DEF InLog

\* ResponsesAreLogged in terms of InLog.
LEMMA LoggedDef ==
    /\ ResponsesAreLogged <=>
         \A c \in Conns : /\ \A i \in 1..Len(down[c]) : InLog(down[c][i], log)
                          /\ srv[c] = "replying" => InLog(reply[c], log)
    /\ ResponsesAreLogged' <=>
         \A c \in Conns : /\ \A i \in 1..Len(down'[c]) : InLog(down'[c][i], log')
                          /\ srv'[c] = "replying" => InLog(reply'[c], log')
  BY DEF ResponsesAreLogged, Logged, InLog

\* Responses are logged: what the server's steps do to it.
LEMMA LoggedServer ==
    ASSUME TypeOK, ClientState, ResponsesAreLogged, NEW c \in Conns, Server(c)
    PROVE  ResponsesAreLogged'
<1>1. \A d \in Conns \ {c} : /\ up'[d] = up[d] /\ down'[d] = down[d]
                             /\ srv'[d] = srv[d] /\ reply'[d] = reply[d]
  BY ServerLeavesAlone
<1>2. Next
  BY DEF Next
<1>3. \A d \in Conns \ {c} : /\ \A i \in 1..Len(down'[d]) : InLog(down'[d][i], log')
                             /\ srv'[d] = "replying" => InLog(reply'[d], log')
  BY <1>1, <1>2, LoggedStays, LoggedDef
<1>4. CASE Accept(c) \/ AcceptFail(c) \/ handleConnection(c) \/ ReadRequest(c)
           \/ ReadTorn(c) \/ ReadFail(c) \/ SendResponseFail(c)
  <2>1. down'[c] = down[c] /\ srv'[c] # "replying"
    BY <1>4 DEF Accept, AcceptFail, handleConnection, ReadRequest, ReadTorn, ReadFail,
                SendResponseFail, Loop, TypeOK
  <2>2. \A i \in 1..Len(down'[c]) : InLog(down'[c][i], log')
    BY <1>2, <2>1, LoggedStays, LoggedDef
  <2> QED
    BY <1>3, <2>1, <2>2, LoggedDef
<1>5. ASSUME NEW a \in Answers, Handle(c, a) PROVE ResponsesAreLogged'
  <2>1. down'[c] = down[c]
    BY <1>5 DEF Handle
  <2>2. \A i \in 1..Len(down'[c]) : InLog(down'[c][i], log')
    BY <1>2, <2>1, LoggedStays, LoggedDef
  <2>3. /\ reply[c] \in Replies /\ reply'[c] = [reply[c] EXCEPT !.answer = a]
        /\ reply[c].call # 0 => log' = Append(log, [call |-> reply[c].call, answer |-> a])
    BY <1>5 DEF Handle, ClientState, TypeOK
  <2>4. reply'[c].call = reply[c].call /\ reply'[c].answer = a
    BY <2>3 DEF Replies
  <2>5. log \in Seq([call : 0..MaxCalls, answer : Answers])
        /\ [call |-> reply[c].call, answer |-> a] \in [call : 0..MaxCalls, answer : Answers]
    BY <2>3 DEF TypeOK, Replies
  <2>6. reply[c].call # 0 =>
            /\ Len(log) + 1 \in 1..Len(log')
            /\ log'[Len(log) + 1] = [call |-> reply[c].call, answer |-> a]
    <3> SUFFICES ASSUME reply[c].call # 0
                 PROVE  /\ Len(log) + 1 \in 1..Len(log')
                        /\ log'[Len(log) + 1] = [call |-> reply[c].call, answer |-> a]
      OBVIOUS
    <3>1. Len(log) \in Nat /\ Len(log') = Len(log) + 1
          /\ log'[Len(log) + 1] = [call |-> reply[c].call, answer |-> a]
      BY <2>3, <2>5, QueueAppend
    <3> QED
      BY <3>1
  <2>7. InLog(reply'[c], log')
    BY <2>4, <2>6 DEF InLog
  <2> QED
    BY <1>3, <2>2, <2>7, LoggedDef
<1>6. CASE SendResponse(c)
  <2>1. /\ down'[c] = Append(down[c], reply[c]) /\ srv'[c] # "replying"
        /\ srv[c] = "replying"
    BY <1>6 DEF SendResponse, Loop, TypeOK
  <2>2. down[c] \in Seq(Replies) /\ reply[c] \in Replies
    BY <2>1, UpTypes DEF ClientState
  <2>3. /\ Len(down'[c]) = Len(down[c]) + 1 /\ down'[c][Len(down[c]) + 1] = reply[c]
        /\ \A i \in 1..Len(down[c]) : down'[c][i] = down[c][i]
    BY <2>1, <2>2, QueueAppend
  <2>4. \A i \in 1..Len(down'[c]) : i \in 1..Len(down[c]) \/ i = Len(down[c]) + 1
    <3>1. Len(down[c]) \in Nat
      BY UpTypes
    <3> QED
      BY <2>3, <3>1
  <2>5. \A i \in 1..Len(down'[c]) : InLog(down'[c][i], log)
    BY <2>1, <2>3, <2>4, LoggedDef
  <2>6. \A i \in 1..Len(down'[c]) : InLog(down'[c][i], log')
    BY <1>2, <2>5, LoggedStays
  <2> QED
    BY <1>3, <2>1, <2>6, LoggedDef
<1> QED
  BY <1>4, <1>5, <1>6 DEF Server

\* Responses are logged: the client only takes them.
LEMMA LoggedClient ==
    ASSUME TypeOK, ClientState, ResponsesAreLogged, Client
    PROVE  ResponsesAreLogged'
<1>1. CASE UNCHANGED <<down, srv, reply, log>>
  BY <1>1, LoggedDef
<1>2. ASSUME NEW r \in {"open", "failed"}, ConnectDone(r) PROVE ResponsesAreLogged'
  <2>1. UNCHANGED <<down, reply, log>> /\ \A c \in Conns : srv'[c] = "replying" => srv[c] = "replying"
    BY <1>2 DEF ConnectDone, TypeOK
  <2> QED
    BY <2>1, LoggedDef
<1>3. CASE Receive
  <2>1. conn \in Conns /\ down[conn] # <<>> /\ UNCHANGED <<srv, reply, log>>
        /\ down' = [down EXCEPT ![conn] = Tail(@)]
    BY <1>3 DEF Receive, TypeOK, Conns, serverVars
  <2>2. /\ Len(down[conn]) \in Nat /\ Len(down'[conn]) = Len(down[conn]) - 1
        /\ \A i \in 1..(Len(down[conn]) - 1) : down'[conn][i] = down[conn][i + 1]
    BY <2>1, UpTypes, QueueTail DEF TypeOK
  <2>3. \A i \in 1..Len(down'[conn]) : InLog(down'[conn][i], log')
    <3>1. \A i \in 1..(Len(down[conn]) - 1) : i + 1 \in 1..Len(down[conn])
      BY <2>2
    <3> QED
      BY <2>1, <2>2, <3>1, LoggedDef
  <2>4. \A c \in Conns \ {conn} : down'[c] = down[c]
    BY <2>1 DEF TypeOK
  <2> QED
    BY <2>1, <2>3, <2>4, LoggedDef
<1> QED
  BY <1>1, <1>2, <1>3 DEF Client, Connect, CallNotConnected, Call, SendRequest, SendFail,
                          ReceiveClosed, ReceiveFail, CloseClient, serverVars

\* Unanswered and Handling with the state they look at as parameters.
Free(n, k, l) == n <= k /\ \A i \in 1..Len(l) : l[i].call # n
Worked(s, r, c, n) == s[c] = "handling" /\ r[c].call = n

\* WaitsOnce for a given state of the queues, of the server and of the log.
Waits(u, s, r, l, k) ==
    /\ \A i \in 1..Len(l) : l[i].call \in 1..k
    /\ \A c \in Conns : \A i \in 1..Len(u[c]) :
        u[c][i].call # 0 =>
            /\ Free(u[c][i].call, k, l)
            /\ \A d \in Conns : ~Worked(s, r, d, u[c][i].call)
            /\ \A d \in Conns : \A j \in 1..Len(u[d]) :
                  u[d][j].call = u[c][i].call => d = c /\ j = i
    /\ \A c \in Conns, n \in 1..MaxCalls :
        Worked(s, r, c, n) => /\ Free(n, k, l)
                              /\ \A d \in Conns : Worked(s, r, d, n) => d = c

\* WaitsOnce in terms of Waits, before and after a step.
LEMMA WaitsDef ==
    /\ WaitsOnce <=> Waits(up, srv, reply, log, Sent)
    /\ WaitsOnce' <=> Waits(up', srv', reply', log', Sent')
  BY DEF WaitsOnce, Waits, Unanswered, Handling, Free, Worked, Sent

\* Calls keep waiting where they wait when no queue gets a frame, the log stays
\* and no coroutine starts on a request.
LEMMA WaitsSame ==
    ASSUME TypeOK, TypeOK', WaitsOnce, UNCHANGED <<up, log>>, Sent <= Sent',
           \A c \in Conns : srv'[c] = "handling" =>
                               srv[c] = "handling" /\ reply'[c].call = reply[c].call
    PROVE  WaitsOnce'
<1>1. Sent \in Int /\ Sent' \in Int
  BY UnaryAssumption DEF TypeOK, Sent
<1>2. \A c \in Conns : \A i \in 1..Len(up[c]) : up[c][i].call \in Nat
  <2>1. \A c \in Conns : \A i \in 1..Len(up[c]) : up[c][i] \in Frames \cup {Torn}
    BY UpTypes, ElementOfSeq
  <2> QED
    BY <2>1, UnaryAssumption DEF Frames, Torn
<1>3. \A n \in Int : Free(n, Sent, log) => Free(n, Sent', log')
  BY <1>1 DEF Free
<1>4. \A c \in Conns : \A n : Worked(srv', reply', c, n) => Worked(srv, reply, c, n)
  BY DEF Worked
<1>5. \A i \in 1..Len(log) : log[i].call \in 1..Sent => log[i].call \in 1..Sent'
  BY <1>1
<1>6. Waits(up, srv, reply, log, Sent)
  BY WaitsDef
<1>7. \A i \in 1..Len(log') : log'[i].call \in 1..Sent'
  BY <1>5, <1>6 DEF Waits
<1>8. ASSUME NEW c \in Conns, NEW i \in 1..Len(up'[c]), up'[c][i].call # 0
      PROVE  /\ Free(up'[c][i].call, Sent', log')
             /\ \A d \in Conns : ~Worked(srv', reply', d, up'[c][i].call)
             /\ \A d \in Conns : \A j \in 1..Len(up'[d]) :
                  up'[d][j].call = up'[c][i].call => d = c /\ j = i
  BY <1>2, <1>3, <1>4, <1>6, <1>8 DEF Waits
<1>9. ASSUME NEW c \in Conns, NEW n \in 1..MaxCalls, Worked(srv', reply', c, n)
      PROVE  /\ Free(n, Sent', log')
             /\ \A d \in Conns : Worked(srv', reply', d, n) => d = c
  BY <1>3, <1>4, <1>6, <1>9 DEF Waits
<1>10. Waits(up', srv', reply', log', Sent')
  BY <1>7, <1>8, <1>9 DEF Waits
<1> QED
  BY <1>10, WaitsDef

\* A frame put at the end of a queue: the request of a call that was not sent
\* before, or a torn one.
LEMMA WaitsAppend ==
    ASSUME TypeOK, TypeOK', WaitsOnce, NEW c \in Conns, NEW f \in Frames \cup {Torn},
           up' = [up EXCEPT ![c] = Append(@, f)],
           f.call # 0 => f.call = Sent + 1 /\ Sent' = Sent + 1,
           f.call = 0 => Sent <= Sent',
           UNCHANGED <<log, srv, reply>>
    PROVE  WaitsOnce'
<1>1. Sent \in Int /\ Sent' \in Int /\ f.call \in Int
  <2>1. issued \in 0..MaxCalls /\ issued' \in 0..MaxCalls
    BY DEF TypeOK
  <2>2. f.call \in Int
    BY UnaryAssumption DEF Frames, Torn
  <2> QED
    BY <2>1, <2>2, UnaryAssumption DEF Sent
<1>2. \A d \in Conns : \A i \in 1..Len(up[d]) : up[d][i].call \in Int
  <2>1. \A d \in Conns : \A i \in 1..Len(up[d]) : up[d][i] \in Frames \cup {Torn}
    BY UpTypes, ElementOfSeq
  <2> QED
    BY <2>1, UnaryAssumption DEF Frames, Torn
<1>3. /\ Len(up[c]) \in Nat /\ Len(up'[c]) = Len(up[c]) + 1 /\ up'[c][Len(up[c]) + 1] = f
      /\ \A i \in 1..Len(up[c]) : up'[c][i] = up[c][i]
      /\ \A d \in Conns \ {c} : up'[d] = up[d]
  <2>1. up'[c] = Append(up[c], f) /\ \A d \in Conns \ {c} : up'[d] = up[d]
    BY DEF TypeOK
  <2>2. up[c] \in Seq(Frames \cup {Torn}) /\ Len(up[c]) \in Nat
    BY UpTypes
  <2> QED
    BY <2>1, <2>2, QueueAppend
<1>4. Waits(up, srv, reply, log, Sent)
  BY WaitsDef
<1>5. \A i \in 1..Len(log) : log[i].call \in 1..Sent' /\ log[i].call \in 1..Sent
  BY <1>1, <1>4 DEF Waits
<1>6. \A n \in Int : Free(n, Sent, log) => Free(n, Sent', log)
  BY <1>1 DEF Free
<1>7. ASSUME NEW d \in Conns, NEW i \in 1..Len(up'[d])
      PROVE  \/ i \in 1..Len(up[d]) /\ up'[d][i] = up[d][i]
             \/ d = c /\ i = Len(up[c]) + 1 /\ up'[d][i] = f
  BY <1>3
<1>8. f.call # 0 => /\ Free(f.call, Sent', log)
                    /\ \A d \in Conns : ~Worked(srv, reply, d, f.call)
                    /\ \A d \in Conns : \A j \in 1..Len(up[d]) : up[d][j].call # f.call
  <2> SUFFICES ASSUME f.call # 0
               PROVE  /\ Free(f.call, Sent', log)
                      /\ \A d \in Conns : ~Worked(srv, reply, d, f.call)
                      /\ \A d \in Conns : \A j \in 1..Len(up[d]) : up[d][j].call # f.call
    OBVIOUS
  <2>1. f.call = Sent + 1 /\ Sent' = Sent + 1 /\ f.call \in 1..MaxCalls
    BY UnaryAssumption DEF Frames, Torn
  <2>2. Free(f.call, Sent', log)
    BY <1>1, <1>5, <2>1 DEF Free
  <2>3. ~Free(f.call, Sent, log)
    BY <1>1, <2>1 DEF Free
  <2> QED
    BY <1>4, <2>1, <2>2, <2>3 DEF Waits
<1>9. ASSUME NEW d \in Conns, NEW i \in 1..Len(up'[d]), up'[d][i].call # 0
      PROVE  /\ Free(up'[d][i].call, Sent', log)
             /\ \A e \in Conns : ~Worked(srv, reply, e, up'[d][i].call)
             /\ \A e \in Conns : \A j \in 1..Len(up'[e]) :
                  up'[e][j].call = up'[d][i].call => e = d /\ j = i
  <2>1. CASE i \in 1..Len(up[d]) /\ up'[d][i] = up[d][i]
    <3>1. /\ Free(up[d][i].call, Sent, log)
          /\ \A e \in Conns : ~Worked(srv, reply, e, up[d][i].call)
          /\ \A e \in Conns : \A j \in 1..Len(up[e]) :
                up[e][j].call = up[d][i].call => e = d /\ j = i
      BY <1>4, <1>9, <2>1 DEF Waits
    <3>2. ASSUME NEW e \in Conns, NEW j \in 1..Len(up'[e]), up'[e][j].call = up'[d][i].call
          PROVE  e = d /\ j = i
      BY <1>7, <1>8, <1>9, <2>1, <3>1, <3>2
    <3> QED
      BY <1>2, <1>6, <2>1, <3>1, <3>2
  <2>2. CASE d = c /\ i = Len(up[c]) + 1 /\ up'[d][i] = f
    <3>1. ASSUME NEW e \in Conns, NEW j \in 1..Len(up'[e]), up'[e][j].call = up'[d][i].call
          PROVE  e = d /\ j = i
      BY <1>7, <1>8, <1>9, <2>2, <3>1
    <3> QED
      BY <1>8, <1>9, <2>2, <3>1
  <2> QED
    BY <1>7, <2>1, <2>2
<1>10. ASSUME NEW d \in Conns, NEW n \in 1..MaxCalls, Worked(srv, reply, d, n)
       PROVE  /\ Free(n, Sent', log)
              /\ \A e \in Conns : Worked(srv, reply, e, n) => e = d
  BY <1>4, <1>6, <1>10 DEF Waits
<1>11. Waits(up', srv, reply, log, Sent')
  BY <1>5, <1>9, <1>10 DEF Waits
<1> QED
  BY <1>11, WaitsDef

\* The coroutine takes a request off its queue, or makes up one behind a torn
\* frame.
LEMMA WaitsRead ==
    ASSUME TypeOK, WaitsOnce, NEW c \in Conns, up[c] # <<>>, srv[c] = "reading",
           srv' = [srv EXCEPT ![c] = "handling"],
           NEW r \in Replies, reply' = [reply EXCEPT ![c] = r],
           r.call = 0 \/ r.call = up[c][1].call,
           \A d \in Conns \ {c} : up'[d] = up[d],
           \A i \in 1..Len(up'[c]) : up'[c][i].call # 0 =>
               i \in Nat /\ i + 1 \in 1..Len(up[c]) /\ up'[c][i] = up[c][i + 1],
           UNCHANGED <<log, issued, phase>>
    PROVE  WaitsOnce'
<1>1. Sent' = Sent
  BY DEF Sent
<1>2. Waits(up, srv, reply, log, Sent)
  BY WaitsDef
<1>3. 1 \in 1..Len(up[c])
  BY UpTypes
<1>4. /\ \A n : Worked(srv', reply', c, n) => n = r.call
      /\ \A d \in Conns : \A n : Worked(srv', reply', d, n) => d = c \/ Worked(srv, reply, d, n)
      /\ \A n : ~Worked(srv, reply, c, n)
  BY DEF Worked, TypeOK
<1>5. ASSUME NEW d \in Conns, NEW i \in 1..Len(up'[d]), up'[d][i].call # 0
      PROVE  \/ d # c /\ up'[d] = up[d]
             \/ d = c /\ i \in Nat /\ i + 1 \in 1..Len(up[d]) /\ up'[d][i] = up[d][i + 1]
  BY <1>5
<1>6. ASSUME NEW d \in Conns, NEW i \in 1..Len(up'[d]), up'[d][i].call # 0
      PROVE  \E k \in 1..Len(up[d]) :
                /\ up'[d][i] = up[d][k] /\ up[d][k].call # 0
                /\ (IF d = c THEN k = i + 1 ELSE k = i) /\ i \in Nat
  <2>1. i \in Nat
    <3>1. CASE d = c
      BY <1>5, <1>6, <3>1
    <3>2. CASE d # c
      BY <1>6, <3>2, UpTypes
    <3> QED
      BY <3>1, <3>2
  <2> QED
    BY <1>5, <1>6, <2>1
<1>7. ASSUME NEW d \in Conns, NEW i \in 1..Len(up'[d]), up'[d][i].call # 0
      PROVE  /\ Free(up'[d][i].call, Sent, log)
             /\ \A e \in Conns : ~Worked(srv', reply', e, up'[d][i].call)
             /\ \A e \in Conns : \A j \in 1..Len(up'[e]) :
                  up'[e][j].call = up'[d][i].call => e = d /\ j = i
  <2>1. PICK k \in 1..Len(up[d]) :
                /\ up'[d][i] = up[d][k] /\ up[d][k].call # 0
                /\ (IF d = c THEN k = i + 1 ELSE k = i) /\ i \in Nat
    BY <1>6, <1>7
  <2>2. /\ Free(up[d][k].call, Sent, log)
        /\ \A e \in Conns : ~Worked(srv, reply, e, up[d][k].call)
        /\ \A e \in Conns : \A j \in 1..Len(up[e]) :
              up[e][j].call = up[d][k].call => e = d /\ j = k
    BY <1>2, <2>1 DEF Waits
  <2>3. ASSUME up[d][k].call = r.call PROVE FALSE
    <3>1. up[d][k].call = up[c][1].call
      BY <2>1, <2>3
    <3>2. d = c /\ k = 1
      BY <1>3, <2>2, <3>1
    <3> QED
      BY <2>1, <3>2
  <2>4. \A e \in Conns : ~Worked(srv', reply', e, up[d][k].call)
    BY <1>4, <2>2, <2>3
  <2>5. ASSUME NEW e \in Conns, NEW j \in 1..Len(up'[e]), up'[e][j].call = up'[d][i].call
        PROVE  e = d /\ j = i
    <3>1. PICK m \in 1..Len(up[e]) :
                /\ up'[e][j] = up[e][m] /\ up[e][m].call # 0
                /\ (IF e = c THEN m = j + 1 ELSE m = j) /\ j \in Nat
      BY <1>6, <1>7, <2>5
    <3>2. e = d /\ m = k
      BY <2>1, <2>2, <2>5, <3>1
    <3> QED
      BY <2>1, <3>1, <3>2
  <2> QED
    BY <2>1, <2>2, <2>4, <2>5
<1>8. ASSUME NEW d \in Conns, NEW n \in 1..MaxCalls, Worked(srv', reply', d, n)
      PROVE  /\ Free(n, Sent, log)
             /\ \A e \in Conns : Worked(srv', reply', e, n) => e = d
  <2>0. n # 0
    BY UnaryAssumption
  <2>1. r.call = n => /\ n = up[c][1].call /\ Free(n, Sent, log)
                      /\ \A e \in Conns : ~Worked(srv, reply, e, n)
    BY <1>2, <1>3, <2>0 DEF Waits
  <2>2. CASE d = c
    BY <1>4, <1>8, <2>1, <2>2
  <2>3. CASE d # c
    <3>1. Worked(srv, reply, d, n)
      BY <1>4, <1>8, <2>3
    <3>2. r.call # n
      BY <2>1, <3>1
    <3>3. Free(n, Sent, log) /\ \A e \in Conns : Worked(srv, reply, e, n) => e = d
      BY <1>2, <3>1 DEF Waits
    <3> QED
      BY <1>4, <3>2, <3>3
  <2> QED
    BY <2>2, <2>3
<1>9. \A i \in 1..Len(log) : log[i].call \in 1..Sent
  BY <1>2 DEF Waits
<1>10. Waits(up', srv', reply', log, Sent)
  BY <1>7, <1>8, <1>9 DEF Waits
<1> QED
  BY <1>1, <1>10, WaitsDef

\* The handler's answer is the only one to its call.
LEMMA WaitsHandle ==
    ASSUME TypeOK, ClientState, WaitsOnce, NEW c \in Conns, NEW a \in Answers, Handle(c, a)
    PROVE  /\ WaitsOnce'
           /\ reply[c].call # 0 => /\ Free(reply[c].call, Sent, log)
                                   /\ reply[c].call \in 1..issued
<1>1. /\ UNCHANGED <<up, issued, phase>> /\ Sent' = Sent /\ reply[c] \in Replies
      /\ srv[c] = "handling" /\ srv' = [srv EXCEPT ![c] = "replying"]
      /\ \A d \in Conns \ {c} : reply'[d] = reply[d]
  BY DEF Handle, Sent, clientVars, ClientState, TypeOK
<1>2. Waits(up, srv, reply, log, Sent)
  BY WaitsDef
<1>3. /\ \A n : ~Worked(srv', reply', c, n)
      /\ \A d \in Conns : \A n : Worked(srv', reply', d, n) => d # c /\ Worked(srv, reply, d, n)
  BY <1>1 DEF Worked, TypeOK
<1>4. CASE reply[c].call = 0
  <2>1. UNCHANGED log
    BY <1>4 DEF Handle
  <2>2. Waits(up, srv', reply', log, Sent)
    BY <1>2, <1>3 DEF Waits
  <2> QED
    BY <1>1, <1>4, <2>1, <2>2, WaitsDef
<1>5. CASE reply[c].call # 0
  <2> DEFINE m == reply[c].call
  <2>1. m \in 1..MaxCalls /\ Worked(srv, reply, c, m)
    BY <1>1, <1>5, UnaryAssumption DEF Replies, Worked
  <2>2. /\ Free(m, Sent, log) /\ \A d \in Conns : Worked(srv, reply, d, m) => d = c
    BY <1>2, <2>1 DEF Waits
  <2>3. Sent \in Int /\ Sent <= issued /\ m \in 1..Sent /\ m \in 1..issued
    <3>1. issued \in 0..MaxCalls /\ MaxCalls \in Nat
      BY UnaryAssumption DEF TypeOK
    <3>2. Sent \in Int /\ Sent <= issued
      BY <3>1 DEF Sent
    <3>3. m <= Sent
      BY <2>2 DEF Free
    <3> HIDE DEF m
    <3> QED
      BY <2>1, <3>1, <3>2, <3>3
  <2>4. /\ Len(log) \in Nat /\ Len(log') = Len(log) + 1 /\ log'[Len(log) + 1].call = m
        /\ \A i \in 1..Len(log) : log'[i] = log[i]
    <3>1. /\ log' = Append(log, [call |-> m, answer |-> a])
          /\ log \in Seq([call : 0..MaxCalls, answer : Answers])
          /\ [call |-> m, answer |-> a] \in [call : 0..MaxCalls, answer : Answers]
      BY <1>1, <1>5 DEF Handle, TypeOK, Replies
    <3> QED
      BY <3>1, QueueAppend
  <2> HIDE DEF m
  <2>5. \A i \in 1..Len(log') : i \in 1..Len(log) \/ i = Len(log) + 1
    BY <2>4
  <2>6. \A i \in 1..Len(log') : log'[i].call \in 1..Sent
    BY <1>2, <2>3, <2>4, <2>5 DEF Waits
  <2>7. \A n : Free(n, Sent, log) /\ n # m => Free(n, Sent, log')
    BY <2>4, <2>5 DEF Free
  <2>8. ASSUME NEW d \in Conns, NEW i \in 1..Len(up[d]), up[d][i].call # 0
        PROVE  /\ Free(up[d][i].call, Sent, log')
               /\ \A e \in Conns : ~Worked(srv', reply', e, up[d][i].call)
               /\ \A e \in Conns : \A j \in 1..Len(up[e]) :
                    up[e][j].call = up[d][i].call => e = d /\ j = i
    <3>1. up[d][i].call # m
      BY <1>2, <2>1, <2>8 DEF Waits
    <3> QED
      BY <1>2, <1>3, <2>7, <2>8, <3>1 DEF Waits
  <2>9. ASSUME NEW d \in Conns, NEW n \in 1..MaxCalls, Worked(srv', reply', d, n)
        PROVE  /\ Free(n, Sent, log')
               /\ \A e \in Conns : Worked(srv', reply', e, n) => e = d
    <3>1. d # c /\ Worked(srv, reply, d, n)
      BY <1>3, <2>9
    <3>2. n # m
      BY <2>2, <3>1
    <3> QED
      BY <1>2, <1>3, <2>7, <3>1, <3>2 DEF Waits
  <2>10. Waits(up, srv', reply', log', Sent)
    BY <2>6, <2>8, <2>9 DEF Waits
  <2> QED
    BY <1>1, <2>2, <2>3, <2>10, WaitsDef DEF m
<1> QED
  BY <1>4, <1>5

\* The server's steps keep each call waiting in one place.
LEMMA WaitsServer ==
    ASSUME TypeOK, TypeOK', ClientState, WaitsOnce, NEW c \in Conns, Server(c)
    PROVE  WaitsOnce'
<1>1. UNCHANGED <<issued, phase>> /\ Sent' = Sent /\ Sent \in Int
  <2>1. UNCHANGED <<issued, phase>>
    BY ServerLeavesAlone DEF clientVars
  <2>2. issued \in Int
    BY UnaryAssumption DEF TypeOK
  <2> QED
    BY <2>1, <2>2 DEF Sent
<1>2. CASE Accept(c) \/ AcceptFail(c) \/ handleConnection(c) \/ ReadFail(c)
           \/ SendResponse(c) \/ SendResponseFail(c)
  <2>1. /\ UNCHANGED <<up, log, reply>>
        /\ \A d \in Conns : srv'[d] = "handling" => srv[d] = "handling"
    BY <1>2 DEF Accept, AcceptFail, handleConnection, ReadFail, SendResponse,
                SendResponseFail, Loop, TypeOK
  <2> QED
    BY <1>1, <2>1, WaitsSame
<1>3. CASE ReadRequest(c)
  <2>1. /\ up[c] # <<>> /\ srv[c] = "reading" /\ srv' = [srv EXCEPT ![c] = "handling"]
        /\ reply' = [reply EXCEPT ![c] = ResponseTo(Head(up[c]))]
        /\ up'[c] = Tail(up[c]) /\ UNCHANGED log
        /\ \A d \in Conns \ {c} : up'[d] = up[d]
    BY <1>3 DEF ReadRequest, TypeOK
  <2>2. /\ Len(up[c]) \in Nat /\ Head(up[c]) = up[c][1] /\ Len(up'[c]) = Len(up[c]) - 1
        /\ \A i \in 1..(Len(up[c]) - 1) : up'[c][i] = up[c][i + 1]
        /\ Head(up[c]) \in Frames
    <3>1. up[c] \in Seq(Frames \cup {Torn}) /\ Head(up[c]) # Torn
      BY <1>3, UpTypes DEF ReadRequest
    <3> QED
      BY <2>1, <3>1, QueueTail
  <2>3. \A i \in 1..Len(up'[c]) : i \in Nat /\ i + 1 \in 1..Len(up[c]) /\ up'[c][i] = up[c][i + 1]
    BY <2>2
  <2>4. ResponseTo(Head(up[c])) \in Replies /\ ResponseTo(Head(up[c])).call = up[c][1].call
    BY <2>2, ResponseToType DEF ResponseTo
  <2> QED
    BY <1>1, <2>1, <2>3, <2>4, WaitsRead
<1>4. CASE ReadTorn(c)
  <2>1. CASE srv' = [srv EXCEPT ![c] = "closed"] /\ UNCHANGED <<reply, up>>
    <3>1. UNCHANGED log /\ \A d \in Conns : srv'[d] = "handling" => srv[d] = "handling"
      BY <1>4, <2>1 DEF ReadTorn, TypeOK
    <3> QED
      BY <1>1, <2>1, <3>1, WaitsSame
  <2>2. ASSUME NEW id \in Ids, NEW mode \in CallModes,
               reply' = [reply EXCEPT ![c] =
                            ResponseTo([call |-> 0, id |-> id, mode |-> mode])],
               up' = [up EXCEPT ![c] = <<Torn>> \o SubSeq(@, 3, Len(@))],
               srv' = [srv EXCEPT ![c] = "handling"]
        PROVE  WaitsOnce'
    <3>1. /\ ResponseTo([call |-> 0, id |-> id, mode |-> mode]) \in Replies
          /\ ResponseTo([call |-> 0, id |-> id, mode |-> mode]).call = 0
      BY <2>2, UnaryAssumption DEF ResponseTo, Replies
    <3>2. Len(up[c]) > 1 /\ srv[c] = "reading" /\ UNCHANGED log
      BY <1>4 DEF ReadTorn
    <3>3. /\ up'[c] = <<Torn>> \o SubSeq(up[c], 3, Len(up[c]))
          /\ \A d \in Conns \ {c} : up'[d] = up[d]
      <4> DEFINE t == <<Torn>> \o SubSeq(up[c], 3, Len(up[c]))
      <4>1. up' = [up EXCEPT ![c] = t] /\ up \in [Conns -> Seq(Frames \cup {Torn})]
        BY <2>2 DEF TypeOK
      <4> HIDE DEF t
      <4>2. up'[c] = t /\ \A d \in Conns \ {c} : up'[d] = up[d]
        BY <4>1
      <4> QED
        BY <4>2 DEF t
    <3>4. /\ Len(up'[c]) = Len(up[c]) - 1 /\ up'[c][1] = Torn
          /\ \A i \in 2..(Len(up[c]) - 1) : up'[c][i] = up[c][i + 1]
      <4>1. up[c] \in Seq(Frames \cup {Torn}) /\ Torn \in Frames \cup {Torn}
        BY UpTypes
      <4> QED
        BY <3>2, <3>3, <4>1, QueueSkip
    <3>5. up[c] # <<>> /\ Len(up[c]) \in Nat /\ up'[c][1].call = 0
      BY <3>2, <3>4, UpTypes DEF Torn
    <3>6. \A i \in 1..Len(up'[c]) : up'[c][i].call # 0 =>
               i \in Nat /\ i + 1 \in 1..Len(up[c]) /\ up'[c][i] = up[c][i + 1]
      <4>1. ASSUME NEW i \in 1..Len(up'[c]), up'[c][i].call # 0
            PROVE  i \in Nat /\ i + 1 \in 1..Len(up[c]) /\ up'[c][i] = up[c][i + 1]
        <5>1. i # 1 /\ i \in 1..(Len(up[c]) - 1)
          BY <3>4, <3>5, <4>1
        <5>2. i \in 2..(Len(up[c]) - 1) /\ i \in Nat /\ i + 1 \in 1..Len(up[c])
          BY <3>5, <5>1
        <5> QED
          BY <3>4, <5>2
      <4> QED
        BY <4>1
    <3> QED
      BY <1>1, <2>2, <3>1, <3>2, <3>3, <3>5, <3>6, WaitsRead
  <2> QED
    BY <1>4, <2>1, <2>2 DEF ReadTorn
<1>5. ASSUME NEW a \in Answers, Handle(c, a) PROVE WaitsOnce'
  BY <1>5, WaitsHandle
<1> QED
  BY <1>2, <1>3, <1>4, <1>5 DEF Server

\* The client's steps keep each call waiting in one place: a request is sent once.
LEMMA WaitsClient ==
    ASSUME TypeOK, TypeOK', ClientState, WaitsOnce, Client
    PROVE  WaitsOnce'
<1>1. issued \in Int
  BY UnaryAssumption DEF TypeOK
<1>2. CASE /\ UNCHANGED <<up, log, srv, reply, issued>>
           /\ phase' # "sending" \/ UNCHANGED phase
  <2>1. Sent <= Sent'
    BY <1>1, <1>2 DEF Sent
  <2> QED
    BY <1>2, <2>1, WaitsSame
<1>3. ASSUME NEW r \in {"open", "failed"}, ConnectDone(r) PROVE WaitsOnce'
  <2>1. /\ UNCHANGED <<up, log, reply, issued, phase>>
        /\ \A c \in Conns : srv'[c] = "handling" => srv[c] = "handling"
    BY <1>3 DEF ConnectDone, TypeOK
  <2>2. Sent <= Sent'
    BY <1>1, <2>1 DEF Sent
  <2> QED
    BY <2>1, <2>2, WaitsSame
<1>4. ASSUME NEW m \in CallModes, Call(m) PROVE WaitsOnce'
  <2>1. UNCHANGED <<up, log, srv, reply>> /\ Sent <= Sent'
    BY <1>1, <1>4 DEF Call, Sent, serverVars
  <2> QED
    BY <2>1, WaitsSame
<1>5. CASE SendRequest
  <2>1. /\ conn \in Conns /\ request \in Frames /\ request.call = issued
        /\ up' = [up EXCEPT ![conn] = Append(@, request)] /\ issued # 0
        /\ UNCHANGED <<log, srv, reply>>
    BY <1>5 DEF SendRequest, TypeOK, Conns, ClientState, serverVars
  <2>2. Sent' = Sent + 1 /\ issued = Sent + 1
    BY <1>1, <1>5 DEF SendRequest, Sent
  <2> QED
    BY <2>1, <2>2, WaitsAppend
<1>6. ASSUME NEW e \in Interrupts, SendFail(e) PROVE WaitsOnce'
  <2>1. /\ UNCHANGED <<log, srv, reply, issued>> /\ phase' = "idle" /\ conn \in Conns
    BY <1>6 DEF SendFail, GiveUp, serverVars, TypeOK, Conns
  <2>2. CASE UNCHANGED up
    BY <1>2, <2>1, <2>2
  <2>3. CASE up' = [up EXCEPT ![conn] = Append(@, Torn)]
    <3>1. Sent <= Sent'
      BY <1>1, <2>1 DEF Sent
    <3>2. Torn \in Frames \cup {Torn} /\ Torn.call = 0
      BY DEF Torn
    <3> QED
      BY <2>1, <2>3, <3>1, <3>2, WaitsAppend
  <2> QED
    BY <1>6, <2>2, <2>3 DEF SendFail
<1> QED
  BY <1>2, <1>3, <1>4, <1>5, <1>6 DEF Client, Connect, CallNotConnected, Receive, ReceiveClosed,
                        ReceiveFail, GiveUp, CloseClient, serverVars

-----------------------------------------------------------------------------
(* The theorems.                                                             *)

\* The ids of two of the last m calls are equal only if the calls are.
LEMMA IdsApart ==
    ASSUME NEW m \in Nat \ {0}, NEW v \in Int, NEW k \in Int, NEW x \in Int,
           x <= k, k - x < m, NEW b \in Int,
           b = v - 1 \/ b = v - 1 + m,
           b = v - 1 - (k - x) \/ b = v - 1 - (k - x) + m
    PROVE  x = k
  OBVIOUS

\* What the client can tell from the oldest frame of its connection: unless
\* IdSpace calls were given up, the id fits only if the frame answers this call
\* and nothing else is owed; and it does if no call was given up.
LEMMA HeadIsOwn ==
    ASSUME TypeOK, ClientState, OwedInOrder, phase = "receiving",
           conn \notin torn, down[conn] # <<>>
    PROVE  LET h == Head(down[conn]) IN
           /\ (Accepts(h) /\ gaveUp[conn] < IdSpace) =>
                  h.call = request.call /\ Owed(conn) <= 1
           /\ gaveUp[conn] = 0 => Accepts(h)
           /\ h = down[conn][1] /\ 1 \in 1..Len(down[conn]) /\ h.call \in 1..issued
<1> DEFINE h == Head(down[conn])
<1>1. /\ conn # 0 /\ conn \in Conns /\ issued \in Int /\ gaveUp[conn] \in Int /\ nextId \in Int
      /\ Owed(conn) \in Int /\ gaveUp[conn] >= 0
  BY OwedTypes, UpTypes, UnaryAssumption DEF TypeOK
<1>2. /\ Len(down[conn]) \in Nat /\ Len(down[conn]) >= 1 /\ h = down[conn][1] /\ h \in Replies
  BY <1>1, UpTypes, QueueTail
<1>3. 1 \in 1..Len(down[conn])
  BY <1>2
<1>4. Place(h, 1, Owed(conn), issued, gaveUp[conn], phase, request.mode, nextId)
  BY <1>1, <1>2, <1>3, OwedPlaces
<1>5. request.call = issued /\ RecentId(request) /\ request \in Frames
  BY DEF ClientState, TypeOK
<1>6. /\ IdSpace \in Nat \ {0} /\ request.id \in 0..(IdSpace - 1) /\ h.id \in 0..(IdSpace - 1)
  BY <1>2, <1>5, UnaryAssumption DEF Frames, Replies, Ids
<1>7. request.id = nextId - 1 \/ request.id = nextId - 1 + IdSpace
  <2>1. issued - request.call = 0 /\ 0 < IdSpace
    BY <1>1, <1>5, <1>6
  <2>2. request.id \in {nextId - 1 - 0, nextId - 1 - 0 + IdSpace}
    BY <1>5, <2>1 DEF RecentId
  <2> QED
    BY <1>1, <1>6, <2>2
<1> HIDE DEF h
<1>8. /\ h.call \in 1..issued /\ h.call >= issued - gaveUp[conn]
      /\ h.call <= issued - (Owed(conn) - 1)
      /\ issued - h.call < IdSpace =>
            \/ h.id = nextId - 1 - (issued - h.call)
            \/ h.id = nextId - 1 - (issued - h.call) + IdSpace
      /\ h.call = issued => h.mode = request.mode
  BY <1>1, <1>4 DEF Place
<1>9. (h.id = request.id /\ gaveUp[conn] < IdSpace) => h.call = issued
  <2> SUFFICES ASSUME h.id = request.id, gaveUp[conn] < IdSpace PROVE h.call = issued
    OBVIOUS
  <2>1. issued - h.call < IdSpace /\ h.call <= issued /\ h.call \in Int
    BY <1>1, <1>6, <1>8
  <2> QED
    <3>1. PICK b \in Int : b = request.id /\ (b = nextId - 1 \/ b = nextId - 1 + IdSpace)
      BY <1>6, <1>7
    <3>2. \/ b = nextId - 1 - (issued - h.call)
          \/ b = nextId - 1 - (issued - h.call) + IdSpace
      BY <1>8, <2>1, <3>1
    <3>3. IdSpace \in Nat \ {0} /\ nextId \in Int /\ issued \in Int
      BY <1>1, <1>6
    <3> QED
      BY <2>1, <3>1, <3>2, <3>3, IdsApart
<1>10. h.call = issued => Owed(conn) <= 1
  BY <1>1, <1>8
<1>11. gaveUp[conn] = 0 => h.call = issued /\ h.id = request.id
  BY <1>1, <1>6, <1>7, <1>8
<1> QED
  BY <1>2, <1>3, <1>5, <1>8, <1>9, <1>10, <1>11 DEF Accepts, h

\* A succeeding call has its own answer, and a mismatch has a cause: what a step
\* that ends no call does to it.
LEMMA OutcomeKept ==
    ASSUME TypeOK, ClientState, OwnAnswer, MismatchNeedsGivingUp, [Next]_vars,
           UNCHANGED <<outcome, torn, gaveUp>>
    PROVE  OwnAnswer' /\ MismatchNeedsGivingUp'
<1>1. MismatchNeedsGivingUp'
  BY DEF MismatchNeedsGivingUp
<1>2. OwnAnswer'
  BY LogGrows DEF OwnAnswer
<1> QED
  BY <1>1, <1>2

\* The same for the steps that end one.
LEMMA OutcomeStep ==
    ASSUME TypeOK, ClientState, OwedInOrder, ResponsesAreLogged, OwnAnswer,
           MismatchNeedsGivingUp, [Next]_vars
    PROVE  OwnAnswer' /\ MismatchNeedsGivingUp'
<1>1. ASSUME NEW e \in Interrupts \cup {"CONNECTION_CLOSED"}, GiveUp(e), phase # "idle"
      PROVE  OwnAnswer' /\ MismatchNeedsGivingUp'
  <2>1. outcome'.code # "OK" /\ outcome'.on = conn /\ conn \in Conns
    BY <1>1, UnaryAssumption DEF GiveUp, Refused, Ended, TypeOK, Conns
  <2>2. gaveUp'[conn] > 0
    <3>1. gaveUp[conn] \in Nat /\ gaveUp'[conn] = gaveUp[conn] + 1
      BY <1>1, <2>1, UpTypes, UnaryAssumption DEF GiveUp, TypeOK
    <3> QED
      BY <3>1
  <2> QED
    BY <2>1, <2>2 DEF OwnAnswer, MismatchNeedsGivingUp
<1>2. CASE Receive
  <2> DEFINE h == Head(down[conn])
  <2>1. /\ phase = "receiving" /\ down[conn] # <<>> /\ UNCHANGED <<gaveUp, torn, log>>
        /\ outcome' = IF Accepts(h) THEN Ended(request.call, conn, "OK", h.call, h.answer)
                      ELSE Refused(request.call, conn, "INVALID_RESPONSE")
    BY <1>2 DEF Receive, serverVars
  <2>2. conn \in Conns /\ gaveUp[conn] \in Nat
    BY <2>1, OwedTypes, UpTypes DEF TypeOK
  <2>3. CASE Accepts(h)
    <3>1. /\ outcome'.code = "OK" /\ outcome'.on = conn /\ outcome'.call = request.call
          /\ outcome'.from = h.call /\ outcome'.answer = h.answer
      BY <2>1, <2>3 DEF Ended
    <3>2. ASSUME conn \notin torn, gaveUp[conn] < IdSpace
          PROVE  /\ h.call = request.call
                 /\ \E i \in 1..Len(log) : log[i].call = h.call /\ log[i].answer = h.answer
      <4>1. h.call = request.call /\ h = down[conn][1] /\ 1 \in 1..Len(down[conn])
            /\ h.call \in 1..issued
        BY <2>1, <2>3, <3>2, HeadIsOwn
      <4>2. h.call # 0
        BY <4>1, UnaryAssumption DEF TypeOK
      <4>3. InLog(h, log)
        BY <2>2, <4>1, LoggedDef
      <4> QED
        BY <4>1, <4>2, <4>3 DEF InLog
    <3> QED
      BY <2>1, <3>1, <3>2 DEF OwnAnswer, MismatchNeedsGivingUp
  <2>4. CASE ~Accepts(h)
    <3>1. outcome'.code = "INVALID_RESPONSE" /\ outcome'.on = conn
      BY <2>1, <2>4 DEF Refused, Ended
    <3>2. conn \in torn \/ gaveUp[conn] # 0
      BY <2>1, <2>4, HeadIsOwn
    <3>3. conn \in torn \/ gaveUp[conn] > 0
      BY <2>2, <3>2
    <3> QED
      BY <2>1, <3>1, <3>3 DEF OwnAnswer, MismatchNeedsGivingUp
  <2> QED
    BY <2>3, <2>4
<1>3. CASE CallNotConnected
  BY <1>3 DEF CallNotConnected, Refused, Ended, OwnAnswer, MismatchNeedsGivingUp
<1>4. ASSUME NEW e \in Interrupts, SendFail(e) PROVE OwnAnswer' /\ MismatchNeedsGivingUp'
  BY <1>1, <1>4 DEF SendFail
<1>5. CASE ReceiveClosed
  BY <1>1, <1>5 DEF ReceiveClosed
<1>6. ASSUME NEW e \in Interrupts, ReceiveFail(e) PROVE OwnAnswer' /\ MismatchNeedsGivingUp'
  BY <1>1, <1>6 DEF ReceiveFail
<1>7. CASE UNCHANGED <<outcome, torn, gaveUp>>
  BY <1>7, OutcomeKept
<1>8. CASE Connect \/ (\E r \in {"open", "failed"} : ConnectDone(r))
           \/ (\E m \in CallModes : Call(m)) \/ SendRequest \/ CloseClient
  BY <1>7, <1>8 DEF Connect, ConnectDone, Call, SendRequest, CloseClient
<1>9. ASSUME NEW c \in Conns, Server(c) PROVE UNCHANGED <<outcome, torn, gaveUp>>
  BY <1>9, ServerLeavesAlone DEF clientVars
<1>10. CASE Stop
  BY <1>7, <1>10 DEF Stop, clientVars
<1>11. CASE UNCHANGED vars
  BY <1>7, <1>11 DEF vars, clientVars
<1> QED
  BY <1>2, <1>3, <1>4, <1>5, <1>6, <1>7, <1>8, <1>9, <1>10, <1>11 DEF Next, Client

\* The initial state.
LEMMA UnaryInit == Init => CallInv /\ OwnAnswer
<1> SUFFICES ASSUME Init PROVE CallInv /\ OwnAnswer
  OBVIOUS
<1>1. IdSpace \in Nat \ {0} /\ MaxCalls \in Nat /\ MaxConns \in Nat
  BY UnaryAssumption
<1>2. TypeOK
  <2>1. nextId \in Ids /\ issued \in 0..MaxCalls /\ conn \in 0..MaxConns
    BY <1>1 DEF Init, Ids
  <2>2. outcome \in [call : 0..MaxCalls, on : 0..MaxConns, code : {"none", "OK"} \cup Errors,
                   from : 0..MaxCalls, answer : Answers \cup {"none"}]
    BY <1>1 DEF Init, Refused, Ended
  <2>3. gaveUp \in [Conns -> 0..MaxCalls]
    BY <1>1 DEF Init
  <2>4. /\ up \in [Conns -> Seq(Frames \cup {Torn})] /\ down \in [Conns -> Seq(Replies)]
        /\ log \in Seq([call : 0..MaxCalls, answer : Answers])
    BY DEF Init
  <2> QED
    BY <2>1, <2>2, <2>3, <2>4 DEF Init, TypeOK
<1>3. \A c \in Conns : Len(up[c]) = 0 /\ Len(down[c]) = 0 /\ srv[c] = "none" /\ gaveUp[c] = 0
  BY DEF Init
<1>4. ClientState
  <2>1. outcome.code = "none" /\ outcome.call = 0 /\ issued = 0 /\ phase = "idle" /\ sock = "null"
    BY DEF Init, Refused, Ended
  <2>2. \A c \in Conns : up[c] = <<>> /\ down[c] = <<>>
    BY DEF Init
  <2> QED
    BY <1>3, <2>1, <2>2 DEF ClientState
<1>5. OwedInOrder
  BY DEF Init, OwedInOrder
<1>6. ResponsesAreLogged
  BY <1>3 DEF ResponsesAreLogged
<1>7. WaitsOnce
  <2>1. Len(log) = 0
    BY DEF Init
  <2> QED
    BY <1>3, <2>1 DEF WaitsOnce, Handling
<1>8. MismatchNeedsGivingUp /\ OwnAnswer
  BY DEF Init, MismatchNeedsGivingUp, OwnAnswer, Refused, Ended
<1> QED
  BY <1>2, <1>4, <1>5, <1>6, <1>7, <1>8 DEF CallInv

\* stop() and stuttering steps leave everything the invariant is about alone.
LEMMA UnaryStill ==
    ASSUME CallInv, Stop \/ UNCHANGED vars
    PROVE  TypeOK' /\ ClientState' /\ OwedInOrder' /\ ResponsesAreLogged' /\ WaitsOnce'
<1>1. /\ UNCHANGED clientVars /\ UNCHANGED <<up, down, hangup, srv, reply, log, accepting>>
      /\ running' \in {running, FALSE}
  BY DEF Stop, vars, serverVars
<1>2. UNCHANGED <<conn, sock, nextId, issued, phase, request, outcome, gaveUp, torn>>
  BY <1>1 DEF clientVars
<1>3. TypeOK'
  <2>1. TypeOK /\ running' \in BOOLEAN
    BY <1>1 DEF CallInv, TypeOK
  <2> QED
    BY <1>1, <1>2, <2>1 DEF TypeOK
<1>4. ClientState'
  BY <1>1, <1>2 DEF CallInv, ClientState, RecentId
<1>5. OwedInOrder'
  <2>1. Working(conn)' = Working(conn)
    BY <1>1, <1>2 DEF Working
  <2> QED
    BY <1>1, <1>2, <2>1, OwedSame DEF CallInv
<1>6. ResponsesAreLogged'
  BY <1>1, LoggedDef DEF CallInv
<1>7. WaitsOnce'
  BY <1>1, <1>2, WaitsDef DEF CallInv, Sent
<1> QED
  BY <1>3, <1>4, <1>5, <1>6, <1>7

\* Every step preserves the invariant and OwnAnswer.
LEMMA UnaryNext == CallInv /\ OwnAnswer /\ [Next]_vars => CallInv' /\ OwnAnswer'
<1> SUFFICES ASSUME CallInv, OwnAnswer, [Next]_vars PROVE CallInv' /\ OwnAnswer'
  OBVIOUS
<1>1. OwnAnswer' /\ MismatchNeedsGivingUp'
  BY OutcomeStep DEF CallInv
<1>2. CASE Client
  BY <1>1, <1>2, TypeClient, ClientStateClient, OwedClient, LoggedClient, WaitsClient
     DEF CallInv
<1>3. ASSUME NEW c \in Conns, Server(c) PROVE CallInv'
  BY <1>1, <1>3, TypeServer, ClientStateServer, OwedServer, LoggedServer, WaitsServer
     DEF CallInv
<1>4. CASE Stop \/ UNCHANGED vars
  BY <1>1, <1>4, UnaryStill DEF CallInv
<1> QED
  BY <1>1, <1>2, <1>3, <1>4 DEF Next

\* Client, server and connections are always well formed: frames are owed in the
\* order of their calls, each call is answered at most once, and getResponse
\* reports a response it cannot match only where a call was given up before.
THEOREM UnaryCalls == Spec => []CallInv
<1> QED
  BY UnaryInit, UnaryNext, PTL DEF Spec

\* A call that succeeds has the answer the server computed for that call, though
\* ids run round, as long as fewer than IdSpace calls were given up on its
\* connection.
THEOREM UnaryOwnAnswer == Spec => []OwnAnswer
<1> QED
  BY UnaryInit, UnaryNext, PTL DEF Spec

\* A client that is one answer behind has no call succeed until it reconnects.
THEOREM UnaryBehind == Spec => BehindUntilReconnect
<1>1. CallInv /\ [Next]_vars =>
        [(conn # 0 /\ Behind /\ conn \notin torn /\ gaveUp[conn] < IdSpace /\ outcome' # outcome)
            => outcome'.code # "OK"]_vars
  <2> SUFFICES ASSUME CallInv, Next, conn # 0, Behind, conn \notin torn,
                      gaveUp[conn] < IdSpace, outcome' # outcome
               PROVE  outcome'.code # "OK"
    OBVIOUS
  <2>1. CASE Receive
    <3> DEFINE h == Head(down[conn])
    <3>1. /\ phase = "receiving" /\ down[conn] # <<>>
          /\ outcome' = IF Accepts(h) THEN Ended(request.call, conn, "OK", h.call, h.answer)
                        ELSE Refused(request.call, conn, "INVALID_RESPONSE")
      BY <2>1 DEF Receive
    <3>2. Owed(conn) > 1 /\ Owed(conn) \in Int
      BY <3>1, OwedTypes DEF Behind, CallInv
    <3>3. ~(Owed(conn) <= 1)
      BY <3>2
    <3>4. ~Accepts(h)
      BY <3>1, <3>3, HeadIsOwn DEF CallInv
    <3> QED
      BY <3>1, <3>4 DEF Refused, Ended
  <2>2. ASSUME NEW e \in Interrupts \cup {"CONNECTION_CLOSED"}, GiveUp(e)
        PROVE  outcome'.code # "OK"
    BY <2>2, UnaryAssumption DEF GiveUp, Refused, Ended
  <2>3. CASE (\E e \in Interrupts : SendFail(e)) \/ ReceiveClosed
             \/ (\E e \in Interrupts : ReceiveFail(e))
    BY <2>2, <2>3 DEF SendFail, ReceiveClosed, ReceiveFail
  <2>4. ASSUME NEW c \in Conns, Server(c) PROVE FALSE
    BY <2>4, ServerLeavesAlone DEF CallInv, clientVars
  <2>5. CASE Connect \/ (\E r \in {"open", "failed"} : ConnectDone(r)) \/ CallNotConnected
             \/ (\E m \in CallModes : Call(m)) \/ SendRequest \/ CloseClient \/ Stop
    BY <2>5 DEF Connect, ConnectDone, CallNotConnected, Call, SendRequest, CloseClient, Stop,
                clientVars
  <2> QED
    BY <2>1, <2>3, <2>4, <2>5 DEF Next, Client
<1> QED
  BY <1>1, UnaryCalls, PTL DEF Spec, BehindUntilReconnect

-----------------------------------------------------------------------------
(* The refinement of RpcCallSpec.                                            *)

\* The state of RpcCallSpec that a state of RpcUnary stands for.
Current == IF phase = "idle" THEN 0 ELSE request.call
Result == IF outcome.call = 0 THEN [call |-> 0, answer |-> "none"]
          ELSE [call |-> outcome.call, answer |-> Settled]

\* The steps of RpcCallSpec under the refinement mapping.
LEMMA PromiseSteps ==
    /\ (issued' = issued + 1 /\ Current = 0 /\ Current' = issued + 1 /\ UNCHANGED <<log, Result>>)
          => Promise!Next
    /\ (/\ \E i \in 1..Len(log) : log[i].call = Current /\ Result' = log[i]
        /\ Current # 0 /\ Current' = 0 /\ UNCHANGED <<issued, log>>)
          => Promise!Next
    /\ (/\ Result' = [call |-> Current, answer |-> "error"]
        /\ Current # 0 /\ Current' = 0 /\ UNCHANGED <<issued, log>>)
          => Promise!Next
    /\ \A n \in 1..issued, a \in Answers :
         (/\ \A i \in 1..Len(log) : log[i].call # n
          /\ log' = Append(log, [call |-> n, answer |-> a])
          /\ UNCHANGED <<issued, Current, Result>>) => Promise!Next
    /\ UNCHANGED <<issued, Current, log, Result>> => UNCHANGED Promise!vars
  BY DEF Promise!Next, Promise!Begin, Promise!Succeed, Promise!Fail, Promise!Answer,
         Promise!Answered, Promise!vars, Current, Result

\* Settled does not change while the last outcome and its connection stay.
LEMMA ResultKept ==
    ASSUME UNCHANGED <<outcome, torn, gaveUp>>
    PROVE  Result' = Result
  BY DEF Result, Settled

\* A call that is given up fails.
LEMMA PromiseGiveUp ==
    ASSUME CallInv, NEW e \in Interrupts \cup {"CONNECTION_CLOSED"}, GiveUp(e),
           phase # "idle", UNCHANGED log
    PROVE  Promise!Next
<1>1. request.call # 0 /\ Current = request.call
  BY DEF CallInv, ClientState, Current
<1>2. /\ outcome'.code # "OK" /\ outcome'.call = request.call /\ Current' = 0
      /\ UNCHANGED issued
  BY UnaryAssumption DEF GiveUp, Refused, Ended, Current
<1>3. Result' = [call |-> Current, answer |-> "error"]
  BY <1>1, <1>2 DEF Result, Settled
<1> QED
  BY <1>1, <1>2, <1>3, PromiseSteps

\* A call that takes a response succeeds with its own answer or fails.
LEMMA PromiseReceive ==
    ASSUME CallInv, OwnAnswer', Receive
    PROVE  Promise!Next
<1> DEFINE h == Head(down[conn])
<1>1. request.call # 0 /\ Current = request.call /\ Current' = 0 /\ UNCHANGED <<issued, log>>
  BY DEF CallInv, ClientState, Current, Receive, serverVars
<1>2. outcome' = IF Accepts(h) THEN Ended(request.call, conn, "OK", h.call, h.answer)
                 ELSE Refused(request.call, conn, "INVALID_RESPONSE")
  BY DEF Receive
<1>3. outcome'.call = request.call /\ outcome'.on = conn /\ conn \in Conns
  BY <1>2 DEF Ended, Refused, Receive, CallInv, TypeOK, Conns
<1>4. Result' = [call |-> Current, answer |-> Settled']
  BY <1>1, <1>3 DEF Result
<1>5. CASE Settled' = "error"
  BY <1>1, <1>4, <1>5, PromiseSteps
<1>6. CASE Settled' # "error"
  <2>1. /\ outcome'.code = "OK" /\ outcome'.on \notin torn'
        /\ ~(gaveUp'[outcome'.on] >= IdSpace) /\ Settled' = outcome'.answer
    BY <1>6 DEF Settled
  <2>2. gaveUp'[outcome'.on] < IdSpace
    <3>1. gaveUp[conn] \in Int /\ gaveUp' = gaveUp /\ IdSpace \in Int
      BY <1>3, UpTypes, UnaryAssumption DEF CallInv, Receive
    <3> QED
      BY <1>3, <2>1, <3>1
  <2>3. PICK i \in 1..Len(log') : log'[i].call = outcome'.call /\ log'[i].answer = outcome'.answer
    BY <2>1, <2>2 DEF OwnAnswer
  <2>4. log[i] \in [call : 0..MaxCalls, answer : Answers] /\ i \in 1..Len(log)
    BY <1>1, <2>3, ElementOfSeq DEF CallInv, TypeOK
  <2>5. log[i] = [call |-> Current, answer |-> Settled']
    BY <1>1, <1>3, <2>1, <2>3, <2>4
  <2> QED
    BY <1>1, <1>4, <2>4, <2>5, PromiseSteps
<1> QED
  BY <1>5, <1>6

\* Every step is a step of RpcCallSpec or changes nothing there.
LEMMA PromiseNext ==
    ASSUME CallInv, OwnAnswer', [Next]_vars
    PROVE  Promise!Next \/ UNCHANGED Promise!vars
<1>1. CASE UNCHANGED <<issued, phase, request, log, outcome, torn, gaveUp>>
  BY <1>1, ResultKept, PromiseSteps DEF Current
<1>2. CASE CallNotConnected
  <2>1. /\ UNCHANGED <<issued, phase, request, log>> /\ outcome'.call = 0 /\ outcome.call = 0
    BY <1>2 DEF CallNotConnected, serverVars, Refused, Ended, CallInv, ClientState
  <2> QED
    BY <2>1, PromiseSteps DEF Current, Result
<1>3. ASSUME NEW m \in CallModes, Call(m) PROVE Promise!Next
  <2>1. /\ issued' = issued + 1 /\ phase = "idle" /\ phase' = "sending"
        /\ request'.call = issued + 1 /\ UNCHANGED <<log, outcome, torn, gaveUp>>
    BY <1>3 DEF Call, serverVars
  <2> QED
    BY <2>1, ResultKept, PromiseSteps DEF Current
<1>4. CASE SendRequest
  <2>1. /\ phase # "idle" /\ phase' # "idle"
        /\ UNCHANGED <<issued, request, log, outcome, torn, gaveUp>>
    BY <1>4 DEF SendRequest, serverVars
  <2> QED
    BY <2>1, ResultKept, PromiseSteps DEF Current
<1>5. ASSUME NEW e \in Interrupts, SendFail(e) PROVE Promise!Next
  BY <1>5, PromiseGiveUp DEF SendFail, serverVars
<1>6. CASE Receive
  BY <1>6, PromiseReceive
<1>7. CASE ReceiveClosed
  BY <1>7, PromiseGiveUp DEF ReceiveClosed, serverVars
<1>8. ASSUME NEW e \in Interrupts, ReceiveFail(e) PROVE Promise!Next
  BY <1>8, PromiseGiveUp DEF ReceiveFail, serverVars
<1>9. CASE Connect \/ (\E r \in {"open", "failed"} : ConnectDone(r)) \/ CloseClient \/ Stop
           \/ UNCHANGED vars
  BY <1>1, <1>9 DEF Connect, ConnectDone, CloseClient, Stop, vars, clientVars, serverVars
<1>10. ASSUME NEW c \in Conns, Server(c) PROVE Promise!Next \/ UNCHANGED Promise!vars
  <2>1. UNCHANGED <<issued, phase, request, outcome, torn, gaveUp>>
    BY <1>10, ServerLeavesAlone DEF CallInv, clientVars
  <2>2. ASSUME NEW a \in Answers, Handle(c, a), reply[c].call # 0 PROVE Promise!Next
    <3>1. /\ reply[c].call \in 1..issued
          /\ \A i \in 1..Len(log) : log[i].call # reply[c].call
      BY <2>2, WaitsHandle DEF CallInv, Free
    <3>2. log' = Append(log, [call |-> reply[c].call, answer |-> a])
      BY <2>2 DEF Handle
    <3>3. UNCHANGED <<issued, Current, Result>>
      BY <2>1, ResultKept DEF Current
    <3> QED
      BY <3>1, <3>2, <3>3, PromiseSteps
  <2>3. ASSUME NEW a \in Answers, Handle(c, a), reply[c].call = 0 PROVE UNCHANGED log
    BY <2>3 DEF Handle
  <2>4. CASE Accept(c) \/ AcceptFail(c) \/ handleConnection(c) \/ ReadRequest(c)
             \/ ReadTorn(c) \/ ReadFail(c) \/ SendResponse(c) \/ SendResponseFail(c)
    BY <1>1, <2>1, <2>4 DEF Accept, AcceptFail, handleConnection, ReadRequest, ReadTorn,
                            ReadFail, SendResponse, SendResponseFail
  <2> QED
    BY <1>1, <1>10, <2>1, <2>2, <2>3, <2>4 DEF Server
<1> QED
  BY <1>2, <1>3, <1>4, <1>5, <1>6, <1>7, <1>8, <1>9, <1>10 DEF Next, Client

\* RpcClient and RpcServer together keep what RpcCallSpec promises the caller of
\* RpcClient::call: the answer computed for this very call, at most once, or an
\* error.
THEOREM UnaryKeepsPromise == Spec => KeepsPromise
<1>1. Init => Promise!Init
  BY DEF Init, Promise!Init, Promise!NoOutcome, Refused, Ended
<1>2. CallInv /\ OwnAnswer' /\ [Next]_vars => [Promise!Next]_(Promise!vars)
  BY PromiseNext
<1> QED
  BY <1>1, <1>2, UnaryCalls, UnaryOwnAnswer, PTL DEF Spec, KeepsPromise, Promise!Spec
=============================================================================
