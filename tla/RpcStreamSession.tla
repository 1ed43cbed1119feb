--------------------------- MODULE RpcStreamSession ---------------------------
(***************************************************************************)
(* Stream sessions on one connection: a client that runs one session after *)
(* the other (the stream benchmark's), the connection coroutine of         *)
(* RpcStreamServer, and the echo handler of the example.                   *)
(*                                                                         *)
(* The connection carries whole frames in order (RpcStreamRead) and holds  *)
(* a bounded number of them each way, so a send may have to wait.  A new   *)
(* connection starts with nothing of an old one on either side, so one     *)
(* connection is enough.                                                   *)
(***************************************************************************)
EXTENDS Integers, Sequences

CONSTANTS
    IdSpace,        \* 2^32, the values of a stream id
    ChanCap,        \* frames the socket buffers of one direction hold
    Windows,        \* what frame_window may be set to: data frames sent ahead
    FramesPerStream,\* data frames of a session
    Routes,         \* what an init may name: "known", "unknown" or "broken"
    MaxSessions     \* bound: sessions the client begins

ASSUME SessionAssumption ==
    /\ IdSpace \in Nat \ {0} /\ ChanCap \in Nat \ {0} /\ Windows \subseteq Nat \ {0}
    /\ FramesPerStream \in Nat /\ MaxSessions \in Nat
    /\ Routes \subseteq {"known", "unknown", "broken"}

VARIABLES
    calm,       \* no cancel, early return, error, timeout or stop in this run
    window,     \* frame_window of the client
    cpc,        \* the client: "idle", "ack", "open", "tail" or "closed"
    session,    \* how many sessions it began: the current one
    sentFrames, \* sent_frames of the session
    got,        \* the echoes it took, by what the server echoed
    route,      \* what the session's init named
    ending,     \* how the last session ended
    abandoned,  \* sessions the client gave up without closing the connection
    up,         \* frames on their way to the server
    down,       \* frames on their way to the client
    spc,        \* the server: "reading", "cancel", "ack", "handler", "sending", "closed"
    current,    \* the session's stream at the server
    out,        \* frames the handler still sends in this turn
    returning,  \* whether it returns after them
    running,    \* m_running of the server
    cutShort    \* whether a handler returned before the end of its session

\* The settings, which nobody changes, are in both.
settings == <<calm, window>>
clientVars == <<settings, cpc, session, sentFrames, got, route, ending, abandoned>>
serverVars == <<settings, spc, current, out, returning, running, cutShort>>
vars == <<clientVars, up, down, serverVars>>

\* of and n are not on the wire: the session a frame was made for, and which of
\* its data frames it is.
Frame(type, id, of, n, r) == [type |-> type, id |-> id, of |-> of, n |-> n, route |-> r]
Id(s) == s % IdSpace

NoStream == [id |-> 0, of |-> 0]

Init ==
    /\ calm \in BOOLEAN /\ window \in Windows
    /\ cpc = "idle" /\ session = 0 /\ sentFrames = 0 /\ got = <<>> /\ route = "none"
    /\ ending = "none" /\ abandoned = 0
    /\ up = <<>> /\ down = <<>>
    /\ spc = "reading" /\ current = NoStream /\ out = <<>> /\ returning = FALSE
    /\ running = TRUE /\ cutShort = FALSE

-----------------------------------------------------------------------------
(* The client.                                                               *)

\* One send of the client: it waits while the connection is full.
Put(type, n, r) ==
    /\ Len(up) < ChanCap
    /\ up' = Append(up, Frame(type, Id(session'), session', n, r))

\* stream.streamId(id); sendInit().
sendInit(r) ==
    /\ cpc = "idle" /\ session < MaxSessions
    /\ session' = session + 1
    /\ Put("STREAM_INIT", 0, r)
    /\ cpc' = "ack" /\ route' = r /\ sentFrames' = 0 /\ got' = <<>> /\ ending' = "none"
    /\ UNCHANGED <<abandoned, down, serverVars>>

\* The client drops the connection.
Leave(why) == cpc' = "closed" /\ ending' = why

\* Mutant: the stream id is not compared.
OwnAnyId(f, type) == f.type = type

\* A frame of the type the client waits for and of its own stream.
Own(f, type) == f.type = type /\ f.id = Id(session)

\* read(init_ack): anything but the acknowledgement ends the connection.
ReadAck ==
    /\ cpc = "ack" /\ down # <<>>
    /\ IF Own(Head(down), "STREAM_INIT_ACK")
       THEN cpc' = "open" /\ UNCHANGED ending
       ELSE Leave("refused")
    /\ down' = Tail(down)
    /\ UNCHANGED <<session, sentFrames, got, route, abandoned, up, serverVars>>

\* Mutant: the client sends ahead as much as it likes.
MayAlways == sentFrames < FramesPerStream

\* The client sends ahead up to its window before it reads.
MaySend == sentFrames < FramesPerStream /\ sentFrames - Len(got) < window

sendData ==
    /\ cpc = "open" /\ MaySend
    /\ sentFrames' = sentFrames + 1
    /\ UNCHANGED session
    /\ Put("STREAM_DATA", sentFrames', "none")
    /\ UNCHANGED <<cpc, got, route, ending, abandoned, down, serverVars>>

\* read(echo_frame).
ReadEcho ==
    /\ cpc = "open" /\ ~MaySend /\ Len(got) < sentFrames /\ down # <<>>
    /\ LET f == Head(down) IN
       IF Own(f, "STREAM_DATA")
       THEN got' = Append(got, [of |-> f.of, n |-> f.n]) /\ UNCHANGED <<cpc, ending>>
       ELSE Leave("refused") /\ UNCHANGED got
    /\ down' = Tail(down)
    /\ UNCHANGED <<session, sentFrames, route, abandoned, up, serverVars>>

\* sendEnd(), once every frame came back.
sendEnd ==
    /\ cpc = "open" /\ Len(got) = FramesPerStream
    /\ UNCHANGED session
    /\ Put("STREAM_END", 0, "none")
    /\ cpc' = "tail"
    /\ UNCHANGED <<sentFrames, got, route, ending, abandoned, down, serverVars>>

\* read(tail_frame) until the server's end; its id is not looked at.
ReadTail ==
    /\ cpc = "tail" /\ down # <<>>
    /\ LET type == Head(down).type IN
       CASE type = "STREAM_END" -> cpc' = "idle" /\ ending' = "finished"
         [] type = "STREAM_CANCEL" -> Leave("refused")
         [] OTHER -> UNCHANGED <<cpc, ending>>
    /\ down' = Tail(down)
    /\ UNCHANGED <<session, sentFrames, got, route, abandoned, up, serverVars>>

\* sendCancel(): the session is given up, the connection is kept.
sendCancel ==
    /\ ~calm /\ cpc \in {"ack", "open", "tail"}
    /\ UNCHANGED session
    /\ Put("STREAM_CANCEL", 0, "none")
    /\ cpc' = "idle" /\ ending' = "cancelled" /\ abandoned' = abandoned + 1
    /\ UNCHANGED <<sentFrames, got, route, down, serverVars>>

\* A send or a read fails or times out, or meets the end of the stream.
ClientFail ==
    /\ cpc \in {"ack", "open", "tail"}
    /\ ~calm \/ spc = "closed"
    /\ Leave("failed")
    /\ UNCHANGED <<session, sentFrames, got, route, abandoned, up, down, serverVars>>

\* client.close() between two sessions.
CloseClient ==
    /\ cpc = "idle"
    /\ cpc' = "closed"
    /\ UNCHANGED <<session, sentFrames, got, route, ending, abandoned, up, down,
                   serverVars>>

-----------------------------------------------------------------------------
(* The server: RpcStreamServer::handleConnection.                            *)

\* The while condition of handleConnection.
Loop == IF running THEN "reading" ELSE "closed"

\* Mutant: an init the server has no handler for is dropped.
AnswerToSilent(f) ==
    IF f.type = "STREAM_INIT"
    THEN (IF f.route = "known" THEN "ack" ELSE "reading")
    ELSE "cancel"

\* An init with a known route is acknowledged; another first frame, an init
\* that cannot be parsed and one without a handler are cancelled.
AnswerTo(f) ==
    IF f.type = "STREAM_INIT" /\ f.route = "known" THEN "ack" ELSE "cancel"

\* Mutant: the connection's first stream serves all its sessions.
ReadFirstOneStream ==
    /\ spc = "reading" /\ up # <<>>
    /\ spc' = AnswerTo(Head(up))
    /\ current' = IF current = NoStream THEN [id |-> Head(up).id, of |-> Head(up).of]
                   ELSE current
    /\ up' = Tail(up)
    /\ UNCHANGED <<clientVars, down, out, returning, running, cutShort>>

\* getMessage(init_frame): the frame that may open a session.
ReadFirst ==
    /\ spc = "reading" /\ up # <<>>
    /\ spc' = AnswerTo(Head(up))
    /\ current' = [id |-> Head(up).id, of |-> Head(up).of]
    /\ up' = Tail(up)
    /\ UNCHANGED <<clientVars, down, out, returning, running, cutShort>>

\* A frame of the current stream leaves for the client.
Emit(type, of, n) ==
    /\ Len(down) < ChanCap
    /\ down' = Append(down, Frame(type, current.id, of, n, "none"))

\* stream.sendCancel(), and on to the next frame.
CancelStream ==
    /\ spc = "cancel"
    /\ Emit("STREAM_CANCEL", current.of, 0)
    /\ spc' = Loop
    /\ UNCHANGED <<clientVars, up, current, out, returning, running, cutShort>>

\* stream.sendInitAck(), then the handler is called.
sendInitAck ==
    /\ spc = "ack"
    /\ Emit("STREAM_INIT_ACK", current.of, 0)
    /\ spc' = "handler"
    /\ UNCHANGED <<clientVars, up, current, out, returning, running, cutShort>>

\* Mutant: the summary follows the end of the stream.
EchoTurnLateSummary(f) ==
    CASE f.type = "STREAM_DATA" -> <<<<"STREAM_DATA", f.of, f.n>>>>
      [] f.type = "STREAM_END" -> <<<<"STREAM_END", current.of, 0>>,
                                    <<"STREAM_DATA", current.of, 0>>>>
      [] f.type = "STREAM_CANCEL" -> <<>>
      [] OTHER -> <<<<"STREAM_CANCEL", current.of, 0>>>>

\* What the echo handler sends in answer to a frame.
EchoTurn(f) ==
    CASE f.type = "STREAM_DATA" -> <<<<"STREAM_DATA", f.of, f.n>>>>
      [] f.type = "STREAM_END" -> <<<<"STREAM_DATA", current.of, 0>>,
                                    <<"STREAM_END", current.of, 0>>>>
      [] f.type = "STREAM_CANCEL" -> <<>>
      [] OTHER -> <<<<"STREAM_CANCEL", current.of, 0>>>>

\* stream.read(msg) in the handler; after anything but data it returns.
HandlerRead ==
    /\ spc = "handler" /\ up # <<>>
    /\ out' = EchoTurn(Head(up))
    /\ returning' = (Head(up).type # "STREAM_DATA")
    /\ spc' = IF out' # <<>> THEN "sending" ELSE Loop
    /\ up' = Tail(up)
    /\ UNCHANGED <<clientVars, down, current, running, cutShort>>

\* One send of the handler.
HandlerSend ==
    /\ spc = "sending"
    /\ Emit(Head(out)[1], Head(out)[2], Head(out)[3])
    /\ out' = Tail(out)
    /\ spc' = IF out' # <<>> THEN "sending" ELSE IF returning THEN Loop ELSE "handler"
    /\ UNCHANGED <<clientVars, up, current, returning, running, cutShort>>

\* The handler returns after an error of a read or a send, or because it is one
\* that does not wait for the end of the stream.
HandlerReturn ==
    /\ \/ spc = "handler" /\ (~calm \/ (cpc = "closed" /\ up = <<>>))
       \/ spc = "sending" /\ (~calm \/ cpc = "closed")
    /\ spc' = Loop /\ out' = <<>> /\ cutShort' = TRUE
    /\ UNCHANGED <<clientVars, up, down, current, returning, running>>

\* Mutant: a failed read is tried again.
ConnectionFailReadsOn ==
    /\ \/ spc = "reading" /\ (~calm \/ (cpc = "closed" /\ up = <<>>))
       \/ spc \in {"cancel", "ack"} /\ (~calm \/ cpc = "closed")
    /\ spc' = "reading"
    /\ UNCHANGED <<clientVars, up, down, current, out, returning, running, cutShort>>

\* A read or a send of handleConnection fails: the connection is closed.
ConnectionFail ==
    /\ \/ spc = "reading" /\ (~calm \/ (cpc = "closed" /\ up = <<>>))
       \/ spc \in {"cancel", "ack"} /\ (~calm \/ cpc = "closed")
    /\ spc' = "closed"
    /\ UNCHANGED <<clientVars, up, down, current, out, returning, running, cutShort>>

\* RpcStreamServer::stop() clears m_running and then stops the runtime: the
\* connection's coroutine may get some steps further, or is not resumed again.
Stop ==
    /\ ~calm /\ running
    /\ running' = FALSE
    /\ UNCHANGED <<clientVars, up, down, spc, current, out, returning, cutShort>>

Client ==
    \/ \E r \in Routes : sendInit(r)
    \/ ReadAck \/ sendData \/ ReadEcho \/ sendEnd \/ ReadTail
    \/ sendCancel \/ ClientFail \/ CloseClient

Server ==
    \/ ReadFirst \/ CancelStream \/ sendInitAck \/ HandlerRead \/ HandlerSend
    \/ HandlerReturn \/ ConnectionFail

Next == Client \/ Server \/ Stop

Spec == Init /\ [][Next]_vars

\* Both coroutines are resumed when their I/O is ready, the server's until stop();
\* an error is reported to a coroutine that waits on a connection whose other end
\* is gone.  Nobody has to begin a session, to cancel or to return early.
Fairness ==
    /\ WF_vars(ReadAck) /\ WF_vars(sendData) /\ WF_vars(ReadEcho)
    /\ WF_vars(sendEnd) /\ WF_vars(ReadTail)
    /\ WF_vars(spc = "closed" /\ ClientFail)
    /\ WF_vars(running /\ ReadFirst) /\ WF_vars(running /\ CancelStream)
    /\ WF_vars(running /\ sendInitAck)
    /\ WF_vars(running /\ HandlerRead) /\ WF_vars(running /\ HandlerSend)
    /\ WF_vars(running /\ cpc = "closed" /\ (HandlerReturn \/ ConnectionFail))

FairSpec == Spec /\ Fairness

-----------------------------------------------------------------------------
(* Properties.                                                               *)

FrameTypes == {"STREAM_INIT", "STREAM_INIT_ACK", "STREAM_DATA", "STREAM_END", "STREAM_CANCEL"}
Frames == [type : FrameTypes, id : 0..(IdSpace - 1), of : 0..MaxSessions,
           n : 0..FramesPerStream, route : Routes \cup {"none"}]

\* Every variable has its type; no direction holds more than its buffers.
TypeOK ==
    /\ calm \in BOOLEAN /\ window \in Windows
    /\ cpc \in {"idle", "ack", "open", "tail", "closed"}
    /\ session \in 0..MaxSessions /\ sentFrames \in 0..FramesPerStream
    /\ got \in Seq([of : 0..MaxSessions, n : 0..FramesPerStream])
    /\ Len(got) <= sentFrames
    /\ route \in Routes \cup {"none"}
    /\ ending \in {"none", "finished", "cancelled", "refused", "failed"}
    /\ abandoned \in 0..MaxSessions
    /\ up \in Seq(Frames) /\ Len(up) <= ChanCap
    /\ down \in Seq(Frames) /\ Len(down) <= ChanCap
    /\ spc \in {"reading", "cancel", "ack", "handler", "sending", "closed"}
    /\ current \in [id : 0..(IdSpace - 1), of : 0..MaxSessions]
    /\ returning \in BOOLEAN /\ running \in BOOLEAN /\ cutShort \in BOOLEAN

\* The echoes the client takes in a session are the data of that very session,
\* in order, also after sessions it gave up with echoes on their way: stream
\* ids could only be mixed up after IdSpace sessions were given up.
OwnEchoes ==
    abandoned < IdSpace =>
        \A i \in 1..Len(got) : got[i] = [of |-> session, n |-> i]

\* What a handler did not read before it returned is cancelled frame by frame
\* and never reaches the handler of a later session.
HandlerKeepsToItsSession ==
    spc = "sending" => \A i \in 1..Len(out) : out[i][2] = current.of

\* The client is refused only for a route the server does not know, or behind
\* a session that was given up or cut short: sessions that are finished leave
\* nothing behind on the connection.
RefusedOnlyBehindLeftovers ==
    ending = "refused" => route # "known" \/ abandoned > 0 \/ cutShort

-----------------------------------------------------------------------------
(* The inductive invariant behind them.                                      *)

Closing == {"STREAM_END", "STREAM_CANCEL"}

\* A handler has begun, or is about to, and did not read the end of its session.
HandlerOpen == spc \in {"ack", "handler"} \/ (spc = "sending" /\ ~returning)

\* Session s has been begun by the server, or its init is on its way.
Started(s) ==
    s = current.of \/ \E i \in 1..Len(up) : up[i].type = "STREAM_INIT" /\ up[i].of = s

\* Frames travel in the order of their sessions, with the ids of their sessions.
FramesInOrder ==
    /\ current.id = Id(current.of) /\ current.of <= session
    /\ \A i \in 1..Len(up) : up[i].id = Id(up[i].of) /\ up[i].of \in current.of..session
    /\ \A i, j \in 1..Len(up) : i < j => up[i].of <= up[j].of
    /\ \A i \in 1..Len(down) : down[i].id = Id(down[i].of) /\ down[i].of <= current.of
    /\ \A i, j \in 1..Len(down) : i < j => down[i].of <= down[j].of

\* An init comes first in its session and behind the last frame of the one
\* before: no handler is open when it is read.
InitsComeFirst ==
    /\ Started(session) /\ \A i \in 1..Len(up) : Started(up[i].of)
    /\ \A i \in 1..Len(up) : up[i].type = "STREAM_INIT" =>
          /\ up[i].of > current.of
          /\ \A j \in 1..(i - 1) : up[j].of < up[i].of
          /\ IF i = 1 THEN ~HandlerOpen ELSE up[i - 1].type \in Closing
    /\ cpc \in {"idle", "tail"} =>
          IF up = <<>> THEN ~HandlerOpen ELSE up[Len(up)].type \in Closing

\* What a handler sends: type, session and number of a frame.
Sends == {"STREAM_DATA", "STREAM_END", "STREAM_CANCEL"} \X (0..MaxSessions) \X (0..FramesPerStream)

\* A handler sends frames of its own session; an end is the last of them.
HandlersTurn ==
    /\ out \in Seq(Sends) /\ (spc = "sending" <=> out # <<>>)
    /\ \A i \in 1..Len(out) : out[i][2] = current.of
    /\ \A i \in 1..Len(out) : out[i][1] = "STREAM_END" => i = Len(out) /\ returning

\* A session is given up at most once.
ClientState ==
    /\ abandoned <= session
    /\ cpc \in {"ack", "open", "tail"} =>
          ending = "none" /\ session > 0 /\ abandoned < session
    /\ cpc = "ack" => sentFrames = 0 /\ got = <<>>
    /\ cpc = "tail" => Len(got) = sentFrames

\* Something of session s is left behind only if every session since was given
\* up.
LeftBehind(s) ==
    s + abandoned >= (IF cpc = "idle" THEN session + 1 ELSE session)

LeftoversAreAbandoned ==
    cpc # "closed" =>
        /\ \A i \in 1..Len(up) : LeftBehind(up[i].of)
        /\ \A i \in 1..Len(down) : LeftBehind(down[i].of)
        /\ spc \in {"cancel", "ack", "sending"} => LeftBehind(current.of)

\* Until the client has its acknowledgement, its session has one frame only.
OneFrameYet ==
    cpc = "ack" =>
        /\ \A i \in 1..Len(up) : up[i].of = session => i = Len(up)
        /\ current.of = session => up = <<>> /\ spc # "sending"
        /\ \A i \in 1..Len(down) : down[i].of = session =>
              i = Len(down) /\ spc \in {"handler", "reading", "closed"}

\* An acknowledged session has the connection for itself, and its end is the
\* last frame of it.
OneSessionOnly ==
    cpc \in {"open", "tail"} =>
        /\ current.of = session /\ spc # "ack"
        /\ \A i \in 1..Len(down) : down[i].of = session
        /\ \A i \in 1..Len(up) : up[i].type = "STREAM_END" => i = Len(up)
        /\ spc = "sending" /\ (\E i \in 1..Len(out) : out[i][1] = "STREAM_END") => up = <<>>
        /\ \A i \in 1..Len(down) : down[i].type = "STREAM_END" =>
              i = Len(down) /\ up = <<>> /\ spc \in {"reading", "closed"}

OnlyData(q, k) == \A i \in 1..k : q[i].type = "STREAM_DATA"
InHand == IF spc = "sending" THEN 1 ELSE 0

\* The data of an open session on its way is what the client did not get yet, in
\* order, up to the first cancel.
DataInOrder ==
    cpc = "open" =>
        /\ OnlyData(up, Len(up)) /\ \A i \in 1..Len(down) : down[i].type # "STREAM_END"
        /\ \A k \in 1..Len(down) : OnlyData(down, k) => down[k].n = Len(got) + k
        /\ spc = "sending" => ~returning /\ Len(out) = 1 /\ out[1][1] = "STREAM_DATA"
        /\ (HandlerOpen /\ OnlyData(down, Len(down))) =>
              /\ sentFrames = Len(got) + Len(down) + InHand + Len(up)
              /\ spc = "sending" => out[1][3] = Len(got) + Len(down) + 1
              /\ \A k \in 1..Len(up) : up[k].n = Len(got) + Len(down) + InHand + k

\* Unless stream ids were used up, what the client takes for its own is its own.
EchoesInOrder ==
    abandoned < IdSpace =>
        LeftoversAreAbandoned /\ OneFrameYet /\ OneSessionOnly /\ DataInOrder

\* A session with a known route on a connection without leftovers: the server
\* sends what the client waits for.
CleanSession ==
    (route = "known" /\ abandoned = 0 /\ ~cutShort) =>
        /\ cpc = "ack" =>
              /\ \A i \in 1..Len(down) : down[i].type = "STREAM_INIT_ACK"
              /\ IF up = <<>> THEN spc \in {"ack", "handler"} \/ (spc = "closed" /\ down = <<>>)
                 ELSE spc \in {"reading", "closed"} /\ up[Len(up)].type = "STREAM_INIT"
                                                    /\ up[Len(up)].route = "known"
        /\ cpc = "open" => spc \in {"handler", "sending"} /\ OnlyData(down, Len(down))
        /\ cpc = "tail" =>
              /\ \A i \in 1..Len(down) : down[i].type \in {"STREAM_DATA", "STREAM_END"}
              /\ up # <<>> => spc = "handler" /\ up[Len(up)].type = "STREAM_END" /\ Len(up) = 1
              /\ spc # "cancel"
              /\ spc = "sending" => \A i \in 1..Len(out) : out[i][1] # "STREAM_CANCEL"

\* Both sides are well formed, frames travel in order, and a refusal has a cause.
SessionInv ==
    /\ TypeOK /\ ClientState /\ FramesInOrder /\ InitsComeFirst /\ HandlersTurn
    /\ EchoesInOrder /\ OwnEchoes
    /\ CleanSession /\ RefusedOnlyBehindLeftovers

\* The client never lets both directions and the handler fill up.
WindowFits == window <= 2 * ChanCap + 1

\* Undisturbed, a session with a known route comes to its end, though both
\* sides may have to wait for room on the connection; one that the server does
\* not accept is refused.
SessionFinishes ==
    \A r \in Routes :
        (WindowFits /\ calm /\ cpc = "ack" /\ route = r)
            ~> ending = (IF r = "known" THEN "finished" ELSE "refused")

\* Whatever is cancelled or fails, a session comes to an end of some kind.  Only
\* a handler that returns before the end of its session can leave the client
\* waiting (the server does not end the stream in its place), a server that is
\* stopped (its coroutine may never close the socket), and stream ids that were
\* used up.
SessionEnds ==
    (WindowFits /\ cpc = "ack") ~>
        (cpc \in {"idle", "closed"} \/ cutShort \/ ~running \/ abandoned >= IdSpace)

\* Once the client has closed the connection, the server's coroutine for it
\* comes to its end, wherever it was, unless the server is stopped.
ServerLetsGo == (cpc = "closed") ~> (spc = "closed" \/ ~running)

\* The client and the server together keep the promise of RpcStreamSpec, as far
\* as OwnEchoes vouches for the data.
Promise == INSTANCE RpcStreamSpec WITH
    opened <- session,
    status <- IF session = 0 \/ ending = "finished" THEN "finished"
              ELSE IF cpc \in {"ack", "open", "tail"} THEN "open" ELSE "dropped",
    said <- sentFrames,
    got <- [i \in 1..Len(got) |-> IF abandoned >= IdSpace THEN i
                                   ELSE IF got[i].of = session THEN got[i].n ELSE 0]
KeepsStreamPromise == Promise!Spec
=============================================================================
