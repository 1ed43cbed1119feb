----------------------- MODULE RpcStreamSessionProofs -------------------------
(***************************************************************************)
(* Proofs about RpcStreamSession for every id space, every size of the     *)
(* socket buffers, every set of windows and any number of sessions and of  *)
(* data frames in a session.                                               *)
(***************************************************************************)
EXTENDS RpcStreamSession, SequenceTheorems, TLAPS

(* Sequences and ids.                                                        *)

\* What appending to a queue does.
LEMMA PutLast ==
    ASSUME NEW S, NEW s \in Seq(S), NEW e \in S
    PROVE  /\ Append(s, e) \in Seq(S) /\ Append(s, e) # <<>>
           /\ Len(s) \in Nat /\ Len(Append(s, e)) = Len(s) + 1
           /\ Append(s, e)[Len(s) + 1] = e
           /\ \A i \in 1..Len(s) : Append(s, e)[i] = s[i]
  OBVIOUS

\* What taking the head off a queue does.
LEMMA TakeFirst ==
    ASSUME NEW S, NEW s \in Seq(S), s # <<>>
    PROVE  /\ Len(s) \in Nat /\ Len(s) >= 1 /\ Head(s) = s[1] /\ s[1] \in S
           /\ Tail(s) \in Seq(S) /\ Len(Tail(s)) = Len(s) - 1
           /\ \A i \in 1..(Len(s) - 1) : Tail(s)[i] = s[i + 1]
           /\ Tail(s) = <<>> <=> Len(s) = 1
<1>1. /\ Len(s) \in Nat /\ Len(s) >= 1 /\ Head(s) = s[1] /\ s[1] \in S
      /\ Tail(s) \in Seq(S) /\ Len(Tail(s)) = Len(s) - 1
      /\ \A i \in 1..(Len(s) - 1) : Tail(s)[i] = s[i + 1]
  OBVIOUS
<1>2. ASSUME NEW t \in Seq(S) PROVE t = <<>> <=> Len(t) = 0
  BY EmptySeq
<1>3. Tail(s) = <<>> <=> Len(Tail(s)) = 0
  BY <1>1, <1>2
<1> QED
  BY <1>1, <1>3

\* An id is one of the id space.
LEMMA IdType ==
    ASSUME NEW s \in Nat
    PROVE  Id(s) \in 0..(IdSpace - 1)
  BY SessionAssumption DEF Id

\* Two sessions less than the id space apart have different ids.
LEMMA SameId ==
    ASSUME NEW a \in Nat, NEW b \in Nat, a <= b, b - a < IdSpace, Id(a) = Id(b)
    PROVE  a = b
<1>1. PICK N \in Nat \ {0} : N = IdSpace
  BY SessionAssumption
<1>2. PICK p \in Nat, q \in Nat, r \in Nat : a = N * p + r /\ b = N * q + r
  <2>1. a = N * (a \div N) + (a % N) /\ a \div N \in Nat /\ a % N \in Nat
    BY <1>1
  <2>2. b = N * (b \div N) + (b % N) /\ b \div N \in Nat /\ a % N = b % N
    BY <1>1 DEF Id
  <2> QED
    BY <2>1, <2>2
<1>3. N * p \in Int /\ N * q \in Int
  BY <1>1, <1>2
<1>4. N * q >= N * p /\ N * q - N * p < N
  BY <1>1, <1>2, <1>3
<1>5. ASSUME p < q PROVE FALSE
  <2>1. PICK k \in Nat : q = p + 1 + k
    <3>1. q - p - 1 \in Nat /\ q = p + 1 + (q - p - 1)
      BY <1>5
    <3> QED
      BY <3>1
  <2>2. N * q = N * p + N + N * k /\ N * k >= 0 /\ N * k \in Int
    BY <2>1
  <2> QED
    BY <1>3, <1>4, <2>2
<1>6. ASSUME q < p PROVE FALSE
  <2>1. PICK k \in Nat : p = q + 1 + k
    <3>1. p - q - 1 \in Nat /\ p = q + 1 + (p - q - 1)
      BY <1>6
    <3> QED
      BY <3>1
  <2>2. N * p = N * q + N + N * k /\ N * k >= 0 /\ N * k \in Int
    BY <2>1
  <2> QED
    BY <1>3, <1>4, <2>2
<1> QED
  BY <1>2, <1>5, <1>6

-----------------------------------------------------------------------------
(* Types.                                                                    *)

\* The lengths of the queues are numbers, and so are the counters.
LEMMA Numbers ==
    ASSUME TypeOK
    PROVE  /\ Len(up) \in Nat /\ Len(down) \in Nat /\ Len(got) \in Nat
           /\ session \in Nat /\ abandoned \in Nat /\ sentFrames \in Nat
           /\ current.of \in Nat /\ current.id \in Nat
           /\ \A i \in 1..Len(up) : up[i] \in Frames /\ up[i].of \in Nat /\ up[i].n \in Nat
           /\ \A i \in 1..Len(down) : down[i] \in Frames /\ down[i].of \in Nat /\ down[i].n \in Nat
           /\ up = <<>> <=> Len(up) = 0
           /\ down = <<>> <=> Len(down) = 0
<1> USE SessionAssumption
<1>1. /\ session \in Nat /\ abandoned \in Nat /\ sentFrames \in Nat
      /\ current.of \in Nat /\ current.id \in Nat
  BY DEF TypeOK
<1>2. /\ Len(up) \in Nat /\ Len(down) \in Nat /\ Len(got) \in Nat
      /\ up \in Seq(Frames) /\ down \in Seq(Frames)
  BY DEF TypeOK
<1>3. up = <<>> <=> Len(up) = 0
  BY <1>2, EmptySeq
<1>4. down = <<>> <=> Len(down) = 0
  BY <1>2, EmptySeq
<1>5. \A f \in Frames : f.of \in Nat /\ f.n \in Nat
  BY DEF Frames
<1>6. \A i \in 1..Len(up) : up[i] \in Frames
  BY <1>2
<1>7. \A i \in 1..Len(down) : down[i] \in Frames
  BY <1>2
<1> QED
  BY <1>1, <1>2, <1>3, <1>4, <1>5, <1>6, <1>7

\* What a send of the client does to the frames on their way to the server.
LEMMA PutIs ==
    ASSUME TypeOK, session' \in 0..MaxSessions,
           NEW type \in FrameTypes, NEW n \in 0..FramesPerStream, NEW r \in Routes \cup {"none"},
           Put(type, n, r)
    PROVE  /\ up' \in Seq(Frames) /\ up' # <<>> /\ Len(up') = Len(up) + 1 /\ Len(up') <= ChanCap
           /\ \A i \in 1..Len(up) : up'[i] = up[i]
           /\ up'[Len(up) + 1] =
                 [type |-> type, id |-> Id(session'), of |-> session', n |-> n, route |-> r]
<1> DEFINE f == Frame(type, Id(session'), session', n, r)
<1>1. session' \in Nat
  BY SessionAssumption
<1>2. f \in Frames
  BY <1>1, IdType DEF Frame, Frames
<1>3. f = [type |-> type, id |-> Id(session'), of |-> session', n |-> n, route |-> r]
  BY DEF Frame
<1>4. up \in Seq(Frames) /\ up' = Append(up, f) /\ Len(up) < ChanCap /\ ChanCap \in Nat
  BY SessionAssumption DEF Put, TypeOK
<1> HIDE DEF f
<1> QED
  BY <1>2, <1>3, <1>4, PutLast

\* What a send of the server does to the frames on their way to the client.
LEMMA EmitIs ==
    ASSUME TypeOK, NEW type \in FrameTypes, NEW s \in 0..MaxSessions,
           NEW n \in 0..FramesPerStream, Emit(type, s, n)
    PROVE  /\ down' \in Seq(Frames) /\ down' # <<>> /\ Len(down') = Len(down) + 1
           /\ Len(down') <= ChanCap
           /\ \A i \in 1..Len(down) : down'[i] = down[i]
           /\ down'[Len(down) + 1] =
                 [type |-> type, id |-> current.id, of |-> s, n |-> n, route |-> "none"]
<1> DEFINE f == Frame(type, current.id, s, n, "none")
<1>2. f \in Frames
  BY DEF Frame, Frames, TypeOK
<1>3. f = [type |-> type, id |-> current.id, of |-> s, n |-> n, route |-> "none"]
  BY DEF Frame
<1>4. down \in Seq(Frames) /\ down' = Append(down, f) /\ Len(down) < ChanCap /\ ChanCap \in Nat
  BY SessionAssumption DEF Emit, TypeOK
<1> HIDE DEF f
<1> QED
  BY <1>2, <1>3, <1>4, PutLast

\* What reading a frame at the server leaves.
LEMMA TakeUp ==
    ASSUME TypeOK, up # <<>>, up' = Tail(up)
    PROVE  /\ up[1] \in Frames /\ Head(up) = up[1] /\ Len(up) >= 1
           /\ up' \in Seq(Frames) /\ Len(up') = Len(up) - 1 /\ Len(up') <= ChanCap
           /\ \A i \in 1..Len(up') : up'[i] = up[i + 1] /\ i + 1 \in 1..Len(up)
           /\ up' = <<>> <=> Len(up) = 1
<1>1. up \in Seq(Frames) /\ Len(up) <= ChanCap /\ ChanCap \in Nat
  BY SessionAssumption DEF TypeOK
<1> QED
  BY <1>1, TakeFirst

\* What reading a frame at the client leaves.
LEMMA TakeDown ==
    ASSUME TypeOK, down # <<>>, down' = Tail(down)
    PROVE  /\ down[1] \in Frames /\ Head(down) = down[1] /\ Len(down) >= 1
           /\ down' \in Seq(Frames) /\ Len(down') = Len(down) - 1 /\ Len(down') <= ChanCap
           /\ \A i \in 1..Len(down') : down'[i] = down[i + 1] /\ i + 1 \in 1..Len(down)
           /\ down' = <<>> <=> Len(down) = 1
<1>1. down \in Seq(Frames) /\ Len(down) <= ChanCap /\ ChanCap \in Nat
  BY SessionAssumption DEF TypeOK
<1> QED
  BY <1>1, TakeFirst

\* The steps of the client keep the types and its own counters.
LEMMA TypeClient ==
    ASSUME TypeOK, ClientState, Client
    PROVE  TypeOK' /\ ClientState'
<1> USE SessionAssumption
<1>0. /\ "STREAM_INIT" \in FrameTypes /\ "STREAM_DATA" \in FrameTypes /\ "STREAM_END" \in FrameTypes
      /\ "STREAM_CANCEL" \in FrameTypes /\ 0 \in 0..FramesPerStream
      /\ "none" \in Routes \cup {"none"}
  BY DEF FrameTypes
<1>1. ASSUME NEW r \in Routes, sendInit(r)
      PROVE  TypeOK' /\ ClientState'
  <2>1. session' \in 0..MaxSessions /\ r \in Routes \cup {"none"} /\ session' = session + 1
    BY <1>1 DEF sendInit, TypeOK
  <2>2. up' \in Seq(Frames) /\ Len(up') <= ChanCap
    BY <1>0, <1>1, <2>1, PutIs DEF sendInit
  <2>3. got' = <<>> /\ got' \in Seq([of : 0..MaxSessions, n : 0..FramesPerStream]) /\ Len(got') = 0
    BY <1>1 DEF sendInit
  <2> QED
    BY <1>1, <2>1, <2>2, <2>3 DEF sendInit, TypeOK, ClientState, serverVars, settings
<1>2. CASE ReadAck
  <2>1. down' \in Seq(Frames) /\ Len(down') <= ChanCap
    BY <1>2, TakeDown DEF ReadAck
  <2>2. (cpc' = "open" /\ ending' = ending) \/ Leave("refused")
    BY <1>2 DEF ReadAck
  <2> QED
    BY <1>2, <2>1, <2>2 DEF ReadAck, Leave, TypeOK, ClientState, serverVars, settings
<1>3. CASE sendData
  <2>1. session' \in 0..MaxSessions /\ sentFrames' \in 0..FramesPerStream
    BY <1>3 DEF sendData, MaySend, TypeOK
  <2>2. up' \in Seq(Frames) /\ Len(up') <= ChanCap
    BY <1>0, <1>3, <2>1, PutIs DEF sendData
  <2>3. Len(got) \in Nat /\ sentFrames \in Nat
    BY Numbers
  <2> QED
    BY <1>3, <2>1, <2>2, <2>3 DEF sendData, TypeOK, ClientState, serverVars, settings
<1>4. CASE ReadEcho
  <2>1. down' \in Seq(Frames) /\ Len(down') <= ChanCap /\ Head(down) \in Frames
    BY <1>4, TakeDown DEF ReadEcho
  <2>2. PICK g : g = [of |-> Head(down).of, n |-> Head(down).n]
    OBVIOUS
  <2>3. g \in [of : 0..MaxSessions, n : 0..FramesPerStream]
    BY <2>1, <2>2 DEF Frames
  <2>4. got \in Seq([of : 0..MaxSessions, n : 0..FramesPerStream]) /\ Len(got) < sentFrames
    BY <1>4 DEF ReadEcho, TypeOK
  <2>5. got' = got \/ got' = Append(got, g)
    BY <1>4, <2>2 DEF ReadEcho
  <2>6. /\ got' \in Seq([of : 0..MaxSessions, n : 0..FramesPerStream])
        /\ Len(got') <= sentFrames
    <3>1. /\ Append(got, g) \in Seq([of : 0..MaxSessions, n : 0..FramesPerStream])
          /\ Len(Append(got, g)) = Len(got) + 1
      BY <2>3, <2>4, PutLast
    <3>2. Len(got) \in Nat /\ sentFrames \in Nat
      BY Numbers
    <3>3. CASE got' = got
      BY <2>4, <3>2, <3>3
    <3>4. CASE got' = Append(got, g)
      <4>1. Len(got') = Len(got) + 1
        BY <3>1, <3>4
      <4> QED
        BY <2>4, <3>1, <3>2, <3>4, <4>1
    <3> QED
      BY <2>5, <3>3, <3>4
  <2> QED
    BY <1>4, <2>1, <2>6 DEF ReadEcho, Leave, TypeOK, ClientState, serverVars, settings
<1>5. CASE sendEnd
  <2>1. session' \in 0..MaxSessions
    BY <1>5 DEF sendEnd, TypeOK
  <2>2. up' \in Seq(Frames) /\ Len(up') <= ChanCap
    BY <1>0, <1>5, <2>1, PutIs DEF sendEnd
  <2>3. Len(got) = sentFrames
    BY <1>5, Numbers DEF sendEnd, TypeOK
  <2> QED
    BY <1>5, <2>1, <2>2, <2>3 DEF sendEnd, TypeOK, ClientState, serverVars, settings
<1>6. CASE ReadTail
  <2>1. down' \in Seq(Frames) /\ Len(down') <= ChanCap
    BY <1>6, TakeDown DEF ReadTail
  <2>2. (cpc' = "idle" /\ ending' = "finished") \/ Leave("refused") \/ UNCHANGED <<cpc, ending>>
    BY <1>6 DEF ReadTail
  <2>3. UNCHANGED <<session, sentFrames, got, route, abandoned, up, serverVars>> /\ cpc = "tail"
    BY <1>6 DEF ReadTail
  <2> QED
    BY <2>1, <2>2, <2>3 DEF Leave, TypeOK, ClientState, serverVars, settings
<1>7. CASE sendCancel
  <2>1. session' \in 0..MaxSessions /\ abandoned' \in 0..MaxSessions
    BY <1>7 DEF sendCancel, TypeOK, ClientState
  <2>2. up' \in Seq(Frames) /\ Len(up') <= ChanCap
    BY <1>0, <1>7, <2>1, PutIs DEF sendCancel
  <2>3. abandoned' <= session
    BY <1>7 DEF sendCancel, TypeOK, ClientState
  <2> QED
    BY <1>7, <2>1, <2>2, <2>3 DEF sendCancel, TypeOK, ClientState, serverVars, settings
<1>8. CASE ClientFail
  BY <1>8 DEF ClientFail, Leave, TypeOK, ClientState, serverVars, settings
<1>9. CASE CloseClient
  BY <1>9 DEF CloseClient, TypeOK, ClientState, serverVars, settings
<1> QED
  BY <1>1, <1>2, <1>3, <1>4, <1>5, <1>6, <1>7, <1>8, <1>9 DEF Client

\* What the echo handler sends in answer to a frame.
LEMMA EchoTurnIs ==
    ASSUME TypeOK, NEW f \in Frames, f.of = current.of
    PROVE  /\ EchoTurn(f) \in Seq(Sends)
           /\ \A i \in 1..Len(EchoTurn(f)) : EchoTurn(f)[i][2] = current.of
           /\ f.type = "STREAM_DATA" => EchoTurn(f) = <<<<"STREAM_DATA", current.of, f.n>>>>
           /\ f.type = "STREAM_END" =>
                 EchoTurn(f) = <<<<"STREAM_DATA", current.of, 0>>, <<"STREAM_END", current.of, 0>>>>
           /\ f.type = "STREAM_CANCEL" => EchoTurn(f) = <<>>
           /\ f.type \notin {"STREAM_DATA", "STREAM_END", "STREAM_CANCEL"} =>
                 EchoTurn(f) = <<<<"STREAM_CANCEL", current.of, 0>>>>
<1>1. current.of \in 0..MaxSessions /\ f.n \in 0..FramesPerStream /\ 0 \in 0..FramesPerStream
  BY SessionAssumption DEF TypeOK, Frames
<1>2. CASE f.type = "STREAM_DATA"
  <2>1. EchoTurn(f) = <<<<"STREAM_DATA", current.of, f.n>>>>
    BY <1>2 DEF EchoTurn
  <2>2. <<"STREAM_DATA", current.of, f.n>> \in Sends
    BY <1>1 DEF Sends
  <2> QED
    BY <1>2, <2>1, <2>2
<1>3. CASE f.type = "STREAM_END"
  <2>1. EchoTurn(f) = <<<<"STREAM_DATA", current.of, 0>>, <<"STREAM_END", current.of, 0>>>>
    BY <1>3 DEF EchoTurn
  <2>2. <<"STREAM_DATA", current.of, 0>> \in Sends /\ <<"STREAM_END", current.of, 0>> \in Sends
    BY <1>1 DEF Sends
  <2> QED
    BY <1>3, <2>1, <2>2
<1>4. CASE f.type = "STREAM_CANCEL"
  <2>1. EchoTurn(f) = <<>>
    BY <1>4 DEF EchoTurn
  <2> QED
    BY <1>4, <2>1
<1>5. CASE f.type \notin {"STREAM_DATA", "STREAM_END", "STREAM_CANCEL"}
  <2>1. EchoTurn(f) = <<<<"STREAM_CANCEL", current.of, 0>>>>
    BY <1>5 DEF EchoTurn
  <2>2. <<"STREAM_CANCEL", current.of, 0>> \in Sends
    BY <1>1 DEF Sends
  <2> QED
    BY <1>5, <2>1, <2>2
<1> QED
  BY <1>2, <1>3, <1>4, <1>5

\* The first frame an open handler finds is one of its own session.
LEMMA HandlerFinds ==
    ASSUME TypeOK, FramesInOrder, InitsComeFirst, HandlerOpen, up # <<>>
    PROVE  up[1].of = current.of /\ up[1].type # "STREAM_INIT"
<1>1. Len(up) \in Nat /\ 1 \in 1..Len(up)
  BY Numbers
<1>2. up[1].type # "STREAM_INIT"
  BY <1>1 DEF InitsComeFirst
<1>3. ASSUME NEW k \in 1..Len(up), up[k].type = "STREAM_INIT", up[k].of = up[1].of
      PROVE  FALSE
  <2>1. 1 \in 1..(k - 1)
    BY <1>1, <1>2, <1>3
  <2>2. up[1].of < up[k].of /\ up[1].of \in Nat
    BY <1>1, <1>3, <2>1, Numbers DEF InitsComeFirst
  <2> QED
    BY <1>3, <2>2
<1> QED
  BY <1>1, <1>2, <1>3 DEF InitsComeFirst, Started

\* The frame a handler sends next, and what it leaves.
LEMMA SendFirst ==
    ASSUME TypeOK, HandlersTurn, spc = "sending"
    PROVE  /\ out[1][1] \in {"STREAM_DATA", "STREAM_END", "STREAM_CANCEL"}
           /\ out[1][1] \in FrameTypes /\ out[1][2] = current.of
           /\ out[1][3] \in 0..FramesPerStream /\ Head(out) = out[1]
           /\ Len(out) \in Nat /\ Len(out) >= 1
           /\ Tail(out) \in Seq(Sends) /\ Len(Tail(out)) = Len(out) - 1
           /\ \A i \in 1..(Len(out) - 1) : Tail(out)[i] = out[i + 1]
           /\ Tail(out) = <<>> <=> Len(out) = 1
<1>1. out \in Seq(Sends) /\ out # <<>>
  BY DEF HandlersTurn
<1>2. /\ Head(out) = out[1] /\ Len(out) \in Nat /\ Len(out) >= 1 /\ out[1] \in Sends
      /\ Tail(out) \in Seq(Sends) /\ Len(Tail(out)) = Len(out) - 1
      /\ \A i \in 1..(Len(out) - 1) : Tail(out)[i] = out[i + 1]
      /\ Tail(out) = <<>> <=> Len(out) = 1
  BY <1>1, TakeFirst
<1>3. /\ out[1][1] \in {"STREAM_DATA", "STREAM_END", "STREAM_CANCEL"}
      /\ out[1][3] \in 0..FramesPerStream
  BY <1>2 DEF Sends
<1>4. out[1][2] = current.of
  <2>1. 1 \in 1..Len(out)
    BY <1>2
  <2> QED
    BY <2>1, Zenon DEF HandlersTurn
<1>5. out[1][1] \in FrameTypes
  BY <1>3 DEF FrameTypes
<1> QED
  BY <1>2, <1>3, <1>4, <1>5

\* The steps of the server keep the types and its own state.
LEMMA TypeServer ==
    ASSUME TypeOK, FramesInOrder, InitsComeFirst, HandlersTurn, Server \/ Stop
    PROVE  TypeOK' /\ HandlersTurn'
<1> USE SessionAssumption
<1>0. /\ "STREAM_INIT_ACK" \in FrameTypes /\ "STREAM_CANCEL" \in FrameTypes
      /\ 0 \in 0..FramesPerStream /\ current.of \in 0..MaxSessions
      /\ Loop \in {"reading", "closed"}
  BY DEF FrameTypes, TypeOK, Loop
<1>1. CASE ReadFirst
  <2>1. up' \in Seq(Frames) /\ Len(up') <= ChanCap /\ Head(up) \in Frames
    BY <1>1, TakeUp DEF ReadFirst
  <2>2. current' \in [id : 0..(IdSpace - 1), of : 0..MaxSessions]
    BY <1>1, <2>1 DEF ReadFirst, Frames
  <2>3. spc' \in {"ack", "cancel"} /\ out' = <<>> /\ <<>> \in Seq(Sends) /\ Len(<<>>) = 0
    BY <1>1 DEF ReadFirst, AnswerTo, HandlersTurn
  <2>4. TypeOK'
    BY <1>1, <2>1, <2>2, <2>3 DEF ReadFirst, TypeOK, clientVars, settings
  <2> QED
    BY <2>3, <2>4 DEF HandlersTurn
<1>2. CASE CancelStream
  <2>1. down' \in Seq(Frames) /\ Len(down') <= ChanCap
    BY <1>0, <1>2, EmitIs DEF CancelStream
  <2> QED
    BY <1>0, <1>2, <2>1 DEF CancelStream, TypeOK, HandlersTurn, clientVars, settings
<1>3. CASE sendInitAck
  <2>1. down' \in Seq(Frames) /\ Len(down') <= ChanCap
    BY <1>0, <1>3, EmitIs DEF sendInitAck
  <2> QED
    BY <1>0, <1>3, <2>1 DEF sendInitAck, TypeOK, HandlersTurn, clientVars, settings
<1>4. CASE HandlerRead
  <2>1. /\ up' \in Seq(Frames) /\ Len(up') <= ChanCap /\ up[1] \in Frames /\ Head(up) = up[1]
        /\ up # <<>> /\ HandlerOpen
    BY <1>4, TakeUp DEF HandlerRead, HandlerOpen
  <2>2. up[1].of = current.of
    BY <2>1, HandlerFinds
  <2>3. /\ out' \in Seq(Sends) /\ \A i \in 1..Len(out') : out'[i][2] = current.of
        /\ \A i \in 1..Len(out') : out'[i][1] = "STREAM_END" => i = Len(out') /\ returning'
    <3>1. out' = EchoTurn(up[1]) /\ returning' = (up[1].type # "STREAM_DATA")
      BY <1>4, <2>1 DEF HandlerRead
    <3>0. out' \in Seq(Sends) /\ \A i \in 1..Len(out') : out'[i][2] = current.of
      BY <2>1, <2>2, <3>1, EchoTurnIs
    <3>2. CASE up[1].type = "STREAM_DATA"
      <4>1. EchoTurn(up[1]) = <<<<"STREAM_DATA", current.of, up[1].n>>>>
        BY <2>1, <2>2, <3>2, EchoTurnIs
      <4>2. Len(out') = 1 /\ out'[1][1] = "STREAM_DATA"
        BY <3>1, <4>1
      <4> QED
        BY <3>0, <4>2
    <3>3. CASE up[1].type = "STREAM_END"
      <4>1. EchoTurn(up[1]) = <<<<"STREAM_DATA", current.of, 0>>, <<"STREAM_END", current.of, 0>>>>
        BY <2>1, <2>2, <3>3, EchoTurnIs
      <4>2. returning'
        BY <3>1, <3>3
      <4>3. \A i \in 1..Len(out') : i = 1 \/ i = Len(out')
        BY <3>1, <4>1
      <4>4. out'[1][1] = "STREAM_DATA"
        BY <3>1, <4>1
      <4> QED
        BY <3>0, <4>2, <4>3, <4>4
    <3>4. CASE up[1].type = "STREAM_CANCEL"
      <4>1. EchoTurn(up[1]) = <<>>
        BY <2>1, <2>2, <3>4, EchoTurnIs
      <4>2. Len(out') = 0
        BY <3>1, <4>1
      <4> QED
        BY <3>0, <4>2
    <3>5. CASE up[1].type \notin {"STREAM_DATA", "STREAM_END", "STREAM_CANCEL"}
      <4>1. EchoTurn(up[1]) = <<<<"STREAM_CANCEL", current.of, 0>>>>
        BY <2>1, <2>2, <3>5, EchoTurnIs
      <4>2. Len(out') = 1 /\ out'[1][1] = "STREAM_CANCEL"
        BY <3>1, <4>1
      <4> QED
        BY <3>0, <4>2
    <3> QED
      BY <3>2, <3>3, <3>4, <3>5
  <2>4. TypeOK'
    BY <1>0, <1>4, <2>1 DEF HandlerRead, TypeOK, clientVars, settings
  <2>5. current' = current /\ (spc' = "sending" <=> out' # <<>>)
    BY <1>0, <1>4 DEF HandlerRead
  <2> QED
    BY <2>3, <2>4, <2>5 DEF HandlersTurn
<1>5. CASE HandlerSend
  <2>1. /\ Emit(out[1][1], out[1][2], out[1][3]) /\ out' = Tail(out) /\ spc = "sending"
        /\ returning' = returning /\ current' = current
    BY <1>5, SendFirst DEF HandlerSend
  <2>2. /\ out[1][1] \in FrameTypes /\ out[1][2] \in 0..MaxSessions
        /\ out[1][3] \in 0..FramesPerStream
    BY <1>0, <2>1, SendFirst
  <2>3. down' \in Seq(Frames) /\ Len(down') <= ChanCap
    BY <2>1, <2>2, EmitIs
  <2>4. spc' = (IF out' # <<>> THEN "sending" ELSE IF returning THEN Loop ELSE "handler")
    BY <1>5 DEF HandlerSend
  <2>5. TypeOK'
    BY <1>0, <1>5, <2>3, <2>4 DEF HandlerSend, TypeOK, clientVars, settings
  <2>6. /\ out' \in Seq(Sends) /\ Len(out') = Len(out) - 1 /\ Len(out) \in Nat
        /\ \A i \in 1..Len(out') : out'[i] = out[i + 1] /\ i + 1 \in 1..Len(out)
    BY <2>1, SendFirst
  <2>7. \A i \in 1..Len(out') : out'[i][2] = current.of
    BY <2>6 DEF HandlersTurn
  <2>8. ASSUME NEW i \in 1..Len(out'), out'[i][1] = "STREAM_END"
        PROVE  i = Len(out') /\ returning
    <3>1. i + 1 \in 1..Len(out) /\ out[i + 1][1] = "STREAM_END"
      BY <2>6, <2>8
    <3>2. i + 1 = Len(out) /\ returning
      BY <3>1 DEF HandlersTurn
    <3> QED
      BY <2>6, <3>2
  <2> QED
    BY <1>0, <2>1, <2>4, <2>5, <2>6, <2>7, <2>8 DEF HandlersTurn
<1>6. CASE HandlerReturn
  BY <1>0, <1>6 DEF HandlerReturn, TypeOK, HandlersTurn, clientVars, settings
<1>7. CASE ConnectionFail
  BY <1>7 DEF ConnectionFail, TypeOK, HandlersTurn, clientVars, settings
<1>8. CASE Stop
  <2>1. TypeOK'
    <3>1. UNCHANGED <<calm, window, cpc, session, sentFrames, got, route, ending, abandoned,
                      up, down, spc, current, out, returning, cutShort>>
      BY <1>8 DEF Stop, clientVars, settings
    <3>2. running' \in BOOLEAN
      BY <1>8 DEF Stop
    <3> QED
      BY <3>1, <3>2 DEF TypeOK
  <2>2. UNCHANGED <<out, spc, current, returning>>
    BY <1>8 DEF Stop
  <2> QED
    BY <2>1, <2>2 DEF HandlersTurn
<1> QED
  BY <1>1, <1>2, <1>3, <1>4, <1>5, <1>6, <1>7, <1>8 DEF Server

-----------------------------------------------------------------------------
(* The order of the frames.                                                  *)

\* The client sent a frame of its session.
Said ==
    /\ up' # <<>> /\ Len(up') = Len(up) + 1 /\ \A i \in 1..Len(up) : up'[i] = up[i]
    /\ up'[Len(up) + 1].of = session' /\ up'[Len(up) + 1].id = Id(session')

\* A send of the client, field by field.
LEMMA PutSays ==
    ASSUME TypeOK, session' \in 0..MaxSessions,
           NEW type \in FrameTypes, NEW n \in 0..FramesPerStream,
           NEW r \in Routes \cup {"none"}, Put(type, n, r)
    PROVE  /\ Said /\ up'[Len(up) + 1].type = type /\ up'[Len(up) + 1].n = n
           /\ up'[Len(up) + 1].route = r
<1>1. PICK f : f = [type |-> type, id |-> Id(session'), of |-> session', n |-> n, route |-> r]
  OBVIOUS
<1>2. f.type = type /\ f.of = session' /\ f.id = Id(session') /\ f.n = n /\ f.route = r
  BY <1>1
<1>3. /\ up' # <<>> /\ Len(up') = Len(up) + 1 /\ \A i \in 1..Len(up) : up'[i] = up[i]
      /\ up'[Len(up) + 1] = f
  BY <1>1, PutIs
<1> QED
  BY <1>2, <1>3 DEF Said

\* The server sent a frame of its session.
Told(type, n) ==
    /\ Len(down') = Len(down) + 1 /\ \A i \in 1..Len(down) : down'[i] = down[i]
    /\ down'[Len(down) + 1].of = current.of /\ down'[Len(down) + 1].id = current.id
    /\ down'[Len(down) + 1].type = type /\ down'[Len(down) + 1].n = n

\* A send of the server, field by field.
LEMMA EmitSays ==
    ASSUME TypeOK, NEW type \in FrameTypes, NEW n \in 0..FramesPerStream,
           Emit(type, current.of, n)
    PROVE  Told(type, n)
<1>0. current.of \in 0..MaxSessions
  BY DEF TypeOK
<1>1. PICK f : f = [type |-> type, id |-> current.id, of |-> current.of, n |-> n, route |-> "none"]
  OBVIOUS
<1>2. f.type = type /\ f.of = current.of /\ f.id = current.id /\ f.n = n
  BY <1>1
<1>3. /\ Len(down') = Len(down) + 1 /\ \A i \in 1..Len(down) : down'[i] = down[i]
      /\ down'[Len(down) + 1] = f
  BY <1>0, <1>1, EmitIs
<1> QED
  BY <1>2, <1>3 DEF Told

\* Every step of the client sends a frame, reads one or does neither.
LEMMA ClientSends ==
    ASSUME TypeOK, ClientState, Client
    PROVE  /\ UNCHANGED serverVars
           /\ \/ /\ Said /\ UNCHANGED down /\ session <= session'
                 /\ \/ /\ cpc = "idle" /\ cpc' = "ack" /\ session' = session + 1
                       /\ up'[Len(up) + 1].type = "STREAM_INIT"
                    \/ /\ cpc = "open" /\ cpc' = "open" /\ session' = session
                       /\ up'[Len(up) + 1].type = "STREAM_DATA"
                    \/ /\ cpc' \in {"idle", "tail"} /\ session' = session
                       /\ up'[Len(up) + 1].type \in Closing
              \/ /\ UNCHANGED <<up, session>>
                 /\ (down # <<>> /\ down' = Tail(down)) \/ UNCHANGED down
                 /\ cpc' \in {"idle", "tail"} => cpc \in {"idle", "tail"}
<1> USE SessionAssumption
<1>0. /\ "STREAM_INIT" \in FrameTypes /\ "STREAM_DATA" \in FrameTypes /\ "STREAM_END" \in FrameTypes
      /\ "STREAM_CANCEL" \in FrameTypes /\ 0 \in 0..FramesPerStream
      /\ "none" \in Routes \cup {"none"} /\ session \in Nat
  BY Numbers DEF FrameTypes
<1>1. ASSUME NEW type \in FrameTypes, NEW n \in 0..FramesPerStream,
             NEW r \in Routes \cup {"none"}, Put(type, n, r)
      PROVE  Said /\ up'[Len(up) + 1].type = type
  <2>1. session' \in 0..MaxSessions
    BY TypeClient DEF TypeOK
  <2> QED
    BY <1>1, <2>1, PutSays
<1>2. ASSUME NEW r \in Routes, sendInit(r)
      PROVE  /\ Said /\ UNCHANGED <<down, serverVars>> /\ session' = session + 1
             /\ cpc = "idle" /\ cpc' = "ack" /\ up'[Len(up) + 1].type = "STREAM_INIT"
  BY <1>0, <1>1, <1>2 DEF sendInit
<1>3. CASE sendData
  <2>1. sentFrames' \in 0..FramesPerStream
    BY TypeClient DEF TypeOK
  <2> QED
    BY <1>0, <1>1, <1>3, <2>1 DEF sendData
<1>4. CASE sendEnd
  BY <1>0, <1>1, <1>4 DEF sendEnd, Closing
<1>5. CASE sendCancel
  BY <1>0, <1>1, <1>5 DEF sendCancel, Closing
<1>6. CASE ReadAck \/ ReadEcho \/ ReadTail \/ ClientFail \/ CloseClient
  BY <1>6 DEF ReadAck, ReadEcho, ReadTail, ClientFail, CloseClient, Leave
<1> QED
  BY <1>0, <1>2, <1>3, <1>4, <1>5, <1>6 DEF Client

\* Every step of the server reads a frame, sends one of its session or does
\* neither.
LEMMA ServerSends ==
    ASSUME TypeOK, FramesInOrder, InitsComeFirst, HandlersTurn, Server \/ Stop
    PROVE  /\ UNCHANGED clientVars
           /\ \/ /\ spc = "reading" /\ up # <<>> /\ up' = Tail(up) /\ UNCHANGED down
                 /\ current' = [id |-> up[1].id, of |-> up[1].of]
                 /\ spc' = AnswerTo(up[1])
              \/ /\ spc = "handler" /\ up # <<>> /\ up' = Tail(up) /\ UNCHANGED <<down, current>>
                 /\ HandlerOpen /\ (HandlerOpen' => up[1].type = "STREAM_DATA")
              \/ /\ UNCHANGED <<up, current>> /\ (HandlerOpen' => HandlerOpen)
                 /\ Len(down') = Len(down) + 1 /\ \A i \in 1..Len(down) : down'[i] = down[i]
                 /\ down'[Len(down) + 1].of = current.of
                 /\ down'[Len(down) + 1].id = current.id
              \/ UNCHANGED <<up, down, current>> /\ (HandlerOpen' => HandlerOpen)
<1> USE SessionAssumption
<1>0. /\ "STREAM_INIT_ACK" \in FrameTypes /\ "STREAM_CANCEL" \in FrameTypes
      /\ 0 \in 0..FramesPerStream /\ current.of \in 0..MaxSessions
      /\ Loop \in {"reading", "closed"}
  BY DEF FrameTypes, TypeOK, Loop
<1>1. ASSUME NEW type \in FrameTypes, NEW n \in 0..FramesPerStream, Emit(type, current.of, n)
      PROVE  /\ Len(down') = Len(down) + 1 /\ \A i \in 1..Len(down) : down'[i] = down[i]
             /\ down'[Len(down) + 1].of = current.of /\ down'[Len(down) + 1].id = current.id
             /\ down'[Len(down) + 1].type = type /\ down'[Len(down) + 1].n = n
  BY <1>1, EmitSays DEF Told
<1>2. CASE ReadFirst
  <2>1. Head(up) = up[1]
    BY <1>2, TakeUp DEF ReadFirst
  <2> QED
    BY <1>2, <2>1 DEF ReadFirst
<1>3. CASE CancelStream
  BY <1>0, <1>1, <1>3 DEF CancelStream, HandlerOpen
<1>4. CASE sendInitAck
  BY <1>0, <1>1, <1>4 DEF sendInitAck, HandlerOpen
<1>5. CASE HandlerRead
  <2>1. Head(up) = up[1]
    BY <1>5, TakeUp DEF HandlerRead
  <2> QED
    BY <1>0, <1>5, <2>1 DEF HandlerRead, HandlerOpen
<1>6. CASE HandlerSend
  <2>1. /\ Emit(out[1][1], current.of, out[1][3]) /\ spc = "sending"
        /\ out[1][1] \in FrameTypes /\ out[1][3] \in 0..FramesPerStream
    BY <1>6, SendFirst DEF HandlerSend
  <2>2. HandlerOpen' => HandlerOpen
    BY <1>0, <1>6 DEF HandlerSend, HandlerOpen
  <2> QED
    BY <1>1, <1>6, <2>1, <2>2 DEF HandlerSend
<1>7. CASE HandlerReturn \/ ConnectionFail \/ Stop
  BY <1>0, <1>7 DEF HandlerReturn, ConnectionFail, Stop, HandlerOpen
<1> QED
  BY <1>2, <1>3, <1>4, <1>5, <1>6, <1>7 DEF Server

\* A frame the client sends keeps the order.
LEMMA SaidInOrder ==
    ASSUME TypeOK, FramesInOrder, InitsComeFirst, Said, UNCHANGED <<down, serverVars>>,
           \/ /\ cpc = "idle" /\ cpc' = "ack" /\ session' = session + 1
              /\ up'[Len(up) + 1].type = "STREAM_INIT"
           \/ /\ cpc = "open" /\ cpc' = "open" /\ session' = session
              /\ up'[Len(up) + 1].type = "STREAM_DATA"
           \/ /\ cpc' \in {"idle", "tail"} /\ session' = session
              /\ up'[Len(up) + 1].type \in Closing
    PROVE  FramesInOrder' /\ InitsComeFirst'
<1>1. PICK n \in Nat : n = Len(up)
  BY Numbers
<1>2. /\ Len(up') = n + 1 /\ up' # <<>> /\ \A i \in 1..n : up'[i] = up[i]
      /\ up'[n + 1].of = session' /\ up'[n + 1].id = Id(session')
  BY <1>1 DEF Said
<1>3. /\ current' = current /\ down' = down /\ (HandlerOpen' <=> HandlerOpen)
      /\ session \in Nat /\ session' \in Nat /\ session <= session' /\ current.of \in Nat
      /\ (up = <<>> <=> n = 0)
  BY <1>1, Numbers DEF serverVars, HandlerOpen
<1>4. \A i \in 1..n : up[i].of \in Nat
  BY <1>1, Numbers
<1>5. FramesInOrder'
  <2>1. \A i \in 1..n : up[i].id = Id(up[i].of) /\ up[i].of \in current.of..session
    BY <1>1 DEF FramesInOrder
  <2>2. \A i \in 1..(n + 1) : up'[i].id = Id(up'[i].of) /\ up'[i].of \in current.of..session'
    <3>1. current.of <= session
      BY DEF FramesInOrder
    <3>2. ASSUME NEW i \in 1..n
          PROVE  up'[i].id = Id(up'[i].of) /\ up'[i].of \in current.of..session'
      <4>1. up'[i] = up[i] /\ up[i].of \in Nat /\ up[i].of \in current.of..session
        BY <1>2, <1>4, <2>1
      <4> QED
        BY <1>3, <2>1, <4>1
    <3>3. up'[n + 1].id = Id(up'[n + 1].of) /\ up'[n + 1].of \in current.of..session'
      BY <1>2, <1>3, <3>1
    <3>4. \A i \in 1..(n + 1) : i \in 1..n \/ i = n + 1
      OBVIOUS
    <3> QED
      BY <3>2, <3>3, <3>4
  <2>3. \A i, j \in 1..(n + 1) : i < j => up'[i].of <= up'[j].of
    <3>1. \A i, j \in 1..n : i < j => up[i].of <= up[j].of
      BY <1>1 DEF FramesInOrder
    <3> SUFFICES ASSUME NEW i \in 1..(n + 1), NEW j \in 1..(n + 1), i < j
                 PROVE  up'[i].of <= up'[j].of
      OBVIOUS
    <3>2. i \in 1..n /\ up'[i] = up[i] /\ up[i].of <= session /\ up[i].of \in Nat
      BY <1>2, <1>3, <1>4, <2>1
    <3>3. CASE j \in 1..n
      BY <1>2, <3>1, <3>2, <3>3
    <3>4. CASE j = n + 1
      BY <1>2, <1>3, <3>2, <3>4
    <3> QED
      BY <3>3, <3>4
  <2>4. current'.id = Id(current'.of) /\ current'.of <= session'
    BY <1>3 DEF FramesInOrder
  <2> QED
    BY <1>2, <1>3, <2>2, <2>3, <2>4 DEF FramesInOrder
<1>6. ASSUME NEW s, Started(s) PROVE Started(s)'
  <2>1. CASE s = current.of
    BY <1>3, <2>1 DEF Started
  <2>2. ASSUME NEW i \in 1..n, up[i].type = "STREAM_INIT", up[i].of = s PROVE Started(s)'
    <3>1. i \in 1..Len(up') /\ up'[i] = up[i]
      BY <1>2
    <3> QED
      BY <2>2, <3>1 DEF Started
  <2> QED
    BY <1>1, <1>6, <2>1, <2>2 DEF Started
<1>7. Started(session)'
  <2>1. CASE session' = session
    <3>1. Started(session)
      BY DEF InitsComeFirst
    <3> QED
      BY <1>6, <2>1, <3>1 DEF Started
  <2>2. CASE up'[n + 1].type = "STREAM_INIT"
    <3>1. n + 1 \in 1..Len(up')
      BY <1>2
    <3> QED
      BY <1>2, <2>2, <3>1 DEF Started
  <2> QED
    BY <1>1, <2>1, <2>2
<1>8. \A i \in 1..Len(up') : Started(up[i].of)'
  <2> SUFFICES ASSUME NEW i \in 1..Len(up') PROVE Started(up[i].of)'
    OBVIOUS
  <2>1. CASE i \in 1..n
    <3>1. Started(up[i].of) /\ up'[i] = up[i]
      BY <1>1, <1>2, <2>1 DEF InitsComeFirst
    <3>2. PICK s : s = up[i].of
      OBVIOUS
    <3>3. Started(s)
      BY <3>1, <3>2
    <3>4. Started(s)'
      BY <1>6, <3>3
    <3> QED
      BY <3>1, <3>2, <3>4 DEF Started
  <2>2. CASE i = n + 1
    BY <1>2, <1>7, <2>2 DEF Started
  <2> QED
    BY <1>2, <2>1, <2>2
<1>9. ASSUME NEW i \in 1..Len(up'), up'[i].type = "STREAM_INIT"
      PROVE  /\ up'[i].of > current'.of
             /\ \A j \in 1..(i - 1) : up'[j].of < up'[i].of
             /\ IF i = 1 THEN ~HandlerOpen' ELSE up'[i - 1].type \in Closing
  <2>1. CASE i \in 1..n
    <3>1. /\ up[i].of > current.of
          /\ \A j \in 1..(i - 1) : up[j].of < up[i].of
          /\ IF i = 1 THEN ~HandlerOpen ELSE up[i - 1].type \in Closing
      BY <1>1, <1>2, <1>9, <2>1 DEF InitsComeFirst
    <3>2. \A j \in 1..(i - 1) : j \in 1..n /\ up'[j] = up[j]
      BY <1>2, <2>1
    <3>3. up'[i] = up[i]
      BY <1>2, <2>1
    <3>4. i # 1 => i - 1 \in 1..n /\ up'[i - 1] = up[i - 1]
      BY <1>2, <2>1
    <3> QED
      BY <1>3, <3>1, <3>2, <3>3, <3>4
  <2>2. CASE i = n + 1
    <3>1. cpc = "idle" /\ session' = session + 1
      BY <1>1, <1>9, <2>2 DEF Closing
    <3>2. \A j \in 1..n : up'[j].of <= session /\ up'[j].of \in Nat
      BY <1>1, <1>2, <1>3, <1>4 DEF FramesInOrder
    <3>3. current.of <= session
      BY DEF FramesInOrder
    <3>4. /\ up'[i].of > current'.of
          /\ \A j \in 1..(i - 1) : up'[j].of < up'[i].of
      BY <1>2, <1>3, <2>2, <3>1, <3>2, <3>3
    <3>5. IF n = 0 THEN ~HandlerOpen ELSE up[n].type \in Closing
      BY <1>1, <1>3, <3>1 DEF InitsComeFirst
    <3>6. n # 0 => up'[n] = up[n]
      BY <1>2
    <3> QED
      BY <1>3, <2>2, <3>4, <3>5, <3>6
  <2> QED
    BY <1>2, <2>1, <2>2
<1>10. cpc' \in {"idle", "tail"} =>
          IF up' = <<>> THEN ~HandlerOpen' ELSE up'[Len(up')].type \in Closing
  BY <1>1, <1>2
<1> QED
  BY <1>5, <1>7, <1>8, <1>9, <1>10 DEF InitsComeFirst

\* Frames of the server that come or go keep the order.
LEMMA DownInOrder ==
    ASSUME TypeOK, FramesInOrder, UNCHANGED <<up, session, current>>,
           \/ down' = down
           \/ down # <<>> /\ down' = Tail(down)
           \/ /\ Len(down') = Len(down) + 1 /\ \A i \in 1..Len(down) : down'[i] = down[i]
              /\ down'[Len(down) + 1].of = current.of
              /\ down'[Len(down) + 1].id = current.id
    PROVE  FramesInOrder'
<1>1. PICK n \in Nat : n = Len(down)
  BY Numbers
<1>2. /\ \A i \in 1..n : down[i].of \in Nat /\ down[i].id = Id(down[i].of) /\ down[i].of <= current.of
      /\ \A i, j \in 1..n : i < j => down[i].of <= down[j].of
      /\ current.id = Id(current.of) /\ current.of \in Nat
  BY <1>1, Numbers DEF FramesInOrder
<1>3. /\ \A i \in 1..Len(down') : down'[i].id = Id(down'[i].of) /\ down'[i].of <= current.of
      /\ \A i, j \in 1..Len(down') : i < j => down'[i].of <= down'[j].of
  <2>1. CASE down' = down
    BY <1>1, <1>2, <2>1
  <2>2. CASE down # <<>> /\ down' = Tail(down)
    <3>1. Len(down') = n - 1 /\ \A i \in 1..Len(down') : down'[i] = down[i + 1] /\ i + 1 \in 1..n
      BY <1>1, <2>2, TakeDown
    <3>2. \A i \in 1..Len(down') : down'[i].id = Id(down'[i].of) /\ down'[i].of <= current.of
      BY <1>2, <3>1
    <3>3. ASSUME NEW i \in 1..Len(down'), NEW j \in 1..Len(down'), i < j
          PROVE  down'[i].of <= down'[j].of
      <4>1. i + 1 \in 1..n /\ j + 1 \in 1..n /\ i + 1 < j + 1
        BY <3>1, <3>3
      <4>2. down[i + 1].of <= down[j + 1].of
        BY <1>2, <4>1
      <4> QED
        BY <3>1, <4>2
    <3> QED
      BY <3>2, <3>3
  <2>3. CASE /\ Len(down') = n + 1 /\ \A i \in 1..n : down'[i] = down[i]
             /\ down'[n + 1].of = current.of /\ down'[n + 1].id = current.id
    BY <1>2, <2>3
  <2> QED
    BY <1>1, <2>1, <2>2, <2>3
<1> QED
  BY <1>3 DEF FramesInOrder

\* The steps of the client keep the order of the frames.
LEMMA OrderClient ==
    ASSUME TypeOK, ClientState, FramesInOrder, InitsComeFirst, Client
    PROVE  FramesInOrder' /\ InitsComeFirst'
<1>1. CASE Said /\ UNCHANGED down
  <2>1. up' # up
    BY <1>1, Numbers DEF Said
  <2>2. /\ UNCHANGED serverVars
        /\ \/ /\ cpc = "idle" /\ cpc' = "ack" /\ session' = session + 1
              /\ up'[Len(up) + 1].type = "STREAM_INIT"
           \/ /\ cpc = "open" /\ cpc' = "open" /\ session' = session
              /\ up'[Len(up) + 1].type = "STREAM_DATA"
           \/ /\ cpc' \in {"idle", "tail"} /\ session' = session
              /\ up'[Len(up) + 1].type \in Closing
    BY <2>1, ClientSends
  <2> QED
    BY <1>1, <2>2, SaidInOrder
<1>2. CASE /\ UNCHANGED <<up, session>>
           /\ (down # <<>> /\ down' = Tail(down)) \/ UNCHANGED down
           /\ cpc' \in {"idle", "tail"} => cpc \in {"idle", "tail"}
  <2>1. current' = current /\ (HandlerOpen' <=> HandlerOpen) /\ up' = up /\ session' = session
    BY <1>2, ClientSends DEF serverVars, HandlerOpen
  <2>2. FramesInOrder'
    BY <1>2, <2>1, DownInOrder
  <2>3. InitsComeFirst'
    BY <1>2, <2>1 DEF InitsComeFirst, Started
  <2> QED
    BY <2>2, <2>3
<1> QED
  BY <1>1, <1>2, ClientSends

\* A frame the server reads keeps the order: the rest of its session follows, or
\* the init of the next one after the session was closed.
LEMMA TakenInOrder ==
    ASSUME TypeOK, FramesInOrder, InitsComeFirst, up # <<>>, up' = Tail(up),
           UNCHANGED <<down, cpc, session>>,
           current'.of = up[1].of, current'.id = Id(up[1].of),
           HandlerOpen' => up[1].type \notin Closing
    PROVE  FramesInOrder' /\ InitsComeFirst'
<1>1. PICK n \in Nat : n = Len(up) /\ n >= 1
  BY Numbers
<1>2. Len(up') = n - 1 /\ \A i \in 1..(n - 1) : up'[i] = up[i + 1] /\ i + 1 \in 1..n
  BY <1>1, TakeUp
<1>3. /\ \A i \in 1..n : up[i].of \in Nat /\ up[i].id = Id(up[i].of)
                         /\ current.of <= up[i].of /\ up[i].of <= session
      /\ \A i, j \in 1..n : i < j => up[i].of <= up[j].of
      /\ \A i \in 1..n : up[1].of <= up[i].of
      /\ session \in Nat /\ current.of \in Nat /\ 1 \in 1..n
      /\ (up' = <<>> <=> n = 1)
  <2>1. /\ \A i \in 1..n : up[i].of \in Nat
        /\ session \in Nat /\ current.of \in Nat /\ 1 \in 1..n
    BY <1>1, Numbers
  <2>2. /\ \A i \in 1..n : up[i].id = Id(up[i].of) /\ up[i].of \in current.of..session
        /\ \A i, j \in 1..n : i < j => up[i].of <= up[j].of
    BY <1>1 DEF FramesInOrder
  <2>3. up' = <<>> <=> n = 1
    BY <1>1, TakeUp
  <2>4. \A i \in 1..n : current.of <= up[i].of /\ up[i].of <= session
    BY <2>1, <2>2
  <2>5. \A i \in 1..n : up[1].of <= up[i].of
    BY <2>1, <2>2
  <2> QED
    BY <2>1, <2>2, <2>3, <2>4, <2>5
<1>4. FramesInOrder'
  <2>1. \A i \in 1..(n - 1) : up'[i].id = Id(up'[i].of) /\ up'[i].of \in up[1].of..session
    BY <1>2, <1>3
  <2>2. \A i, j \in 1..(n - 1) : i < j => up'[i].of <= up'[j].of
    BY <1>1, <1>2, <1>3
  <2>3. \A i \in 1..Len(down) : down[i].id = Id(down[i].of) /\ down[i].of <= up[1].of
    <3>1. \A i \in 1..Len(down) : down[i].id = Id(down[i].of) /\ down[i].of <= current.of /\ down[i].of \in Nat
      BY Numbers DEF FramesInOrder
    <3> QED
      BY <1>3, <3>1
  <2> QED
    BY <1>2, <1>3, <2>1, <2>2, <2>3 DEF FramesInOrder
<1>5. ASSUME NEW s, Started(s), s = session \/ \E i \in 1..n : s = up[i].of PROVE Started(s)'
  <2>1. CASE s = up[1].of
    BY <2>1 DEF Started
  <2>2. CASE s = current.of
    BY <1>3, <1>5, <2>1, <2>2
  <2>3. ASSUME NEW i \in 1..n, i # 1, up[i].type = "STREAM_INIT", up[i].of = s PROVE Started(s)'
    <3>1. i - 1 \in 1..(n - 1) /\ i - 1 + 1 = i
      BY <2>3
    <3>2. i - 1 \in 1..Len(up') /\ up'[i - 1] = up[i]
      BY <1>2, <3>1
    <3> QED
      BY <2>3, <3>2 DEF Started
  <2> QED
    BY <1>1, <1>5, <2>1, <2>2, <2>3 DEF Started
<1>6. Started(session)'
  <2>1. Started(session)
    BY DEF InitsComeFirst
  <2> QED
    BY <1>5, <2>1 DEF Started
<1>7. \A i \in 1..Len(up') : Started(up[i].of)'
  <2> SUFFICES ASSUME NEW i \in 1..(n - 1) PROVE Started(up[i].of)'
    BY <1>2
  <2>1. i + 1 \in 1..n /\ up'[i] = up[i + 1]
    BY <1>2
  <2>2. Started(up[i + 1].of)
    BY <1>1, <2>1 DEF InitsComeFirst
  <2>3. PICK s : s = up[i + 1].of
    OBVIOUS
  <2>4. Started(s)'
    BY <1>5, <2>1, <2>2, <2>3
  <2> QED
    BY <2>1, <2>3, <2>4 DEF Started
<1>8. ASSUME NEW i \in 1..Len(up'), up'[i].type = "STREAM_INIT"
      PROVE  /\ up'[i].of > current'.of
             /\ \A j \in 1..(i - 1) : up'[j].of < up'[i].of
             /\ IF i = 1 THEN ~HandlerOpen' ELSE up'[i - 1].type \in Closing
  <2>1. i + 1 \in 1..n /\ up'[i] = up[i + 1] /\ i \in 1..(n - 1) /\ i \in Nat
    BY <1>2
  <2>2. /\ \A j \in 1..i : up[j].of < up[i + 1].of
        /\ up[i].type \in Closing
    <3>1. i + 1 - 1 = i /\ i + 1 # 1
      BY <2>1
    <3> QED
      BY <1>1, <1>8, <2>1, <3>1 DEF InitsComeFirst
  <2>3. up'[i].of > current'.of
    BY <1>3, <2>1, <2>2
  <2>4. \A j \in 1..(i - 1) : up'[j].of < up'[i].of
    <3>1. \A j \in 1..(i - 1) : j + 1 \in 1..i /\ up'[j] = up[j + 1]
      BY <1>2, <2>1
    <3> QED
      BY <2>1, <2>2, <3>1
  <2>5. i # 1 => up'[i - 1] = up[i]
    <3> SUFFICES ASSUME i # 1 PROVE up'[i - 1] = up[i]
      OBVIOUS
    <3>1. i - 1 \in 1..(n - 1) /\ i - 1 + 1 = i
      BY <2>1
    <3> QED
      BY <1>2, <3>1
  <2> QED
    BY <2>2, <2>3, <2>4, <2>5
<1>9. cpc' \in {"idle", "tail"} =>
         IF up' = <<>> THEN ~HandlerOpen' ELSE up'[Len(up')].type \in Closing
  <2> SUFFICES ASSUME cpc \in {"idle", "tail"}
               PROVE  IF up' = <<>> THEN ~HandlerOpen' ELSE up'[Len(up')].type \in Closing
    OBVIOUS
  <2>1. up[n].type \in Closing
    BY <1>1 DEF InitsComeFirst
  <2>2. CASE n = 1
    BY <1>3, <2>1, <2>2
  <2>3. CASE n # 1
    <3>1. n - 1 \in 1..(n - 1) /\ n - 1 + 1 = n
      BY <1>1, <2>3
    <3>2. up'[n - 1] = up[n] /\ Len(up') = n - 1
      BY <1>2, <3>1
    <3> QED
      BY <1>3, <2>1, <2>3, <3>2
  <2> QED
    BY <2>2, <2>3
<1> QED
  BY <1>4, <1>6, <1>7, <1>8, <1>9 DEF InitsComeFirst

\* The steps of the server keep the order of the frames.
LEMMA OrderServer ==
    ASSUME TypeOK, FramesInOrder, InitsComeFirst, HandlersTurn, Server \/ Stop
    PROVE  FramesInOrder' /\ InitsComeFirst'
<1>0. session' = session /\ cpc' = cpc
  BY ServerSends DEF clientVars
<1>1. CASE /\ spc = "reading" /\ up # <<>> /\ up' = Tail(up) /\ UNCHANGED down
           /\ current' = [id |-> up[1].id, of |-> up[1].of]
           /\ spc' = AnswerTo(up[1])
  <2>1. up[1].id = Id(up[1].of)
    BY <1>1, Numbers DEF FramesInOrder
  <2>2. current'.of = up[1].of /\ current'.id = Id(up[1].of)
    BY <1>1, <2>1
  <2>3. HandlerOpen' => up[1].type \notin Closing
    BY <1>1 DEF HandlerOpen, AnswerTo, Closing
  <2> QED
    BY <1>0, <1>1, <2>2, <2>3, TakenInOrder
<1>2. CASE /\ spc = "handler" /\ up # <<>> /\ up' = Tail(up) /\ UNCHANGED <<down, current>>
           /\ HandlerOpen /\ (HandlerOpen' => up[1].type = "STREAM_DATA")
  <2>1. up[1].of = current.of
    BY <1>2, HandlerFinds
  <2>2. current'.of = up[1].of /\ current'.id = Id(up[1].of)
    BY <1>2, <2>1 DEF FramesInOrder
  <2>3. HandlerOpen' => up[1].type \notin Closing
    BY <1>2 DEF Closing
  <2> QED
    BY <1>0, <1>2, <2>2, <2>3, TakenInOrder
<1>3. CASE /\ UNCHANGED <<up, current>> /\ (HandlerOpen' => HandlerOpen)
           /\ \/ down' = down
              \/ /\ Len(down') = Len(down) + 1 /\ \A i \in 1..Len(down) : down'[i] = down[i]
                 /\ down'[Len(down) + 1].of = current.of
                 /\ down'[Len(down) + 1].id = current.id
  <2>1. FramesInOrder'
    BY <1>0, <1>3, DownInOrder
  <2>2. InitsComeFirst'
    BY <1>0, <1>3 DEF InitsComeFirst, Started
  <2> QED
    BY <2>1, <2>2
<1> QED
  BY <1>1, <1>2, <1>3, ServerSends

\* What both sides keep whatever ids the sessions have.
OrderInv == TypeOK /\ ClientState /\ FramesInOrder /\ InitsComeFirst /\ HandlersTurn

\* A fresh connection is in order.
LEMMA OrderInit == Init => OrderInv
<1> SUFFICES ASSUME Init PROVE OrderInv
  OBVIOUS
<1> USE SessionAssumption
<1>1. /\ up = <<>> /\ down = <<>> /\ out = <<>> /\ got = <<>> /\ Len(<<>>) = 0
      /\ current = [id |-> 0, of |-> 0] /\ session = 0 /\ spc = "reading" /\ cpc = "idle"
  BY DEF Init, NoStream
<1>2. <<>> \in Seq(Frames) /\ <<>> \in Seq(Sends) /\ <<>> \in Seq([of : 0..MaxSessions, n : 0..FramesPerStream])
  OBVIOUS
<1>3. Id(0) = 0
  BY DEF Id
<1>4. TypeOK
  <2>1. /\ calm \in BOOLEAN /\ returning \in BOOLEAN /\ running \in BOOLEAN
        /\ cutShort \in BOOLEAN /\ window \in Windows
    BY Zenon DEF Init
  <2>2. /\ session \in 0..MaxSessions /\ sentFrames \in 0..FramesPerStream
        /\ abandoned \in 0..MaxSessions /\ Len(got) <= sentFrames
        /\ Len(up) <= ChanCap /\ Len(down) <= ChanCap
    BY <1>1 DEF Init
  <2>3. current \in [id : 0..(IdSpace - 1), of : 0..MaxSessions]
    BY <1>1
  <2> QED
    BY <1>1, <1>2, <2>1, <2>2, <2>3, Zenon DEF Init, TypeOK
<1>5. ClientState /\ HandlersTurn
  BY <1>1, <1>2 DEF Init, ClientState, HandlersTurn
<1>6. FramesInOrder /\ InitsComeFirst
  BY <1>1, <1>3 DEF FramesInOrder, InitsComeFirst, Started, HandlerOpen
<1> QED
  BY <1>4, <1>5, <1>6 DEF OrderInv

\* A step that changes nothing keeps it.
LEMMA OrderStutter == OrderInv /\ UNCHANGED vars => OrderInv'
<1> SUFFICES ASSUME OrderInv, UNCHANGED vars PROVE OrderInv'
  OBVIOUS
<1> USE DEF vars, clientVars, serverVars, settings
<1>1. TypeOK'
  BY DEF OrderInv, TypeOK
<1>2. ClientState' /\ HandlersTurn'
  BY DEF OrderInv, ClientState, HandlersTurn
<1>3. FramesInOrder' /\ InitsComeFirst'
  BY DEF OrderInv, FramesInOrder, InitsComeFirst, Started, HandlerOpen
<1> QED
  BY <1>1, <1>2, <1>3 DEF OrderInv

\* Every step keeps it.
LEMMA OrderStep == OrderInv /\ [Next]_vars => OrderInv'
<1> SUFFICES ASSUME OrderInv, [Next]_vars PROVE OrderInv'
  OBVIOUS
<1>1. TypeOK /\ ClientState /\ FramesInOrder /\ InitsComeFirst /\ HandlersTurn
  BY DEF OrderInv
<1>2. CASE Client
  <2>1. TypeOK' /\ ClientState'
    BY <1>1, <1>2, TypeClient
  <2>2. FramesInOrder' /\ InitsComeFirst'
    BY <1>1, <1>2, OrderClient
  <2>3. UNCHANGED serverVars
    BY <1>1, <1>2, ClientSends
  <2>4. HandlersTurn'
    BY <1>1, <2>3 DEF HandlersTurn, serverVars
  <2> QED
    BY <2>1, <2>2, <2>4 DEF OrderInv
<1>3. CASE Server \/ Stop
  <2>1. TypeOK' /\ HandlersTurn'
    BY <1>1, <1>3, TypeServer
  <2>2. FramesInOrder' /\ InitsComeFirst'
    BY <1>1, <1>3, OrderServer
  <2>3. UNCHANGED clientVars
    BY <1>1, <1>3, ServerSends
  <2>4. ClientState'
    BY <1>1, <2>3 DEF ClientState, clientVars
  <2> QED
    BY <2>1, <2>2, <2>4 DEF OrderInv
<1> QED
  BY <1>2, <1>3, OrderStutter DEF Next

\* The order of the frames holds throughout.
LEMMA Ordered == Spec => []OrderInv
  BY OrderInit, OrderStep, PTL DEF Spec

\* Every variable keeps its type and no direction holds more frames than its
\* buffers: in particular no more sessions are given up than were begun, and no
\* more echoes are taken than frames were sent.
THEOREM SessionTypeCorrect == Spec => []TypeOK
<1>1. OrderInv => TypeOK
  BY DEF OrderInv
<1> QED
  BY Ordered, <1>1, PTL

\* handleConnection calls a handler for one session and the handler answers
\* frames of that session only, whatever the client and earlier handlers left on
\* the connection.
THEOREM HandlerKeepsItsSession == Spec => []HandlerKeepsToItsSession
<1>1. OrderInv => HandlerKeepsToItsSession
  BY DEF OrderInv, HandlersTurn, HandlerKeepsToItsSession
<1> QED
  BY Ordered, <1>1, PTL

-----------------------------------------------------------------------------
(* Whose echoes a client takes.                                              *)

\* The echoes taken so far are the session's data in order.
Echoes == \A i \in 1..Len(got) : got[i] = [of |-> session, n |-> i]

\* What holds as long as stream ids were not used up.
EchoInv == LeftoversAreAbandoned /\ OneFrameYet /\ OneSessionOnly /\ DataInOrder /\ Echoes

\* A client that has closed the connection takes nothing any more.
LEMMA EchoClosed ==
    ASSUME Echoes, cpc' = "closed", UNCHANGED <<got, session>>
    PROVE  EchoInv'
  BY DEF EchoInv, Echoes, LeftoversAreAbandoned, OneFrameYet, OneSessionOnly, DataInOrder

\* A new session: what is left behind is of sessions given up.
LEMMA EchoSendInit ==
    ASSUME OrderInv, EchoInv, NEW r \in Routes, sendInit(r)
    PROVE  EchoInv'
<1>0. TypeOK /\ ClientState /\ FramesInOrder
  BY DEF OrderInv
<1>1. PICK n \in Nat : n = Len(up)
  BY <1>0, Numbers
<1>2. /\ Len(up') = n + 1 /\ (\A i \in 1..n : up'[i] = up[i]) /\ up'[n + 1].of = session'
      /\ session' = session + 1 /\ cpc = "idle" /\ cpc' = "ack" /\ got' = <<>>
      /\ UNCHANGED <<down, spc, current, abandoned>>
  <2>1. session' \in 0..MaxSessions /\ "STREAM_INIT" \in FrameTypes /\ 0 \in 0..FramesPerStream
        /\ r \in Routes \cup {"none"}
    BY <1>0, SessionAssumption DEF sendInit, TypeOK, FrameTypes
  <2>2. Said
    BY <1>0, <2>1, PutSays DEF sendInit
  <2> QED
    BY <1>1, <2>2 DEF Said, sendInit, serverVars
<1>3. /\ session \in Nat /\ abandoned \in Nat /\ current.of \in Nat /\ current.of <= session
      /\ \A i \in 1..n : up[i].of \in Nat /\ up[i].of <= session
      /\ \A i \in 1..Len(down) : down[i].of \in Nat /\ down[i].of <= current.of
  BY <1>0, <1>1, Numbers DEF FramesInOrder
<1>4. /\ \A i \in 1..n : up[i].of + abandoned >= session + 1
      /\ \A i \in 1..Len(down) : down[i].of + abandoned >= session + 1
      /\ spc \in {"cancel", "ack", "sending"} => current.of + abandoned >= session + 1
  BY <1>1, <1>2 DEF EchoInv, LeftoversAreAbandoned, LeftBehind
<1>5. LeftoversAreAbandoned'
  BY <1>2, <1>3, <1>4 DEF LeftoversAreAbandoned, LeftBehind
<1>6. OneFrameYet'
  BY <1>2, <1>3 DEF OneFrameYet
<1>7. Echoes' /\ OneSessionOnly' /\ DataInOrder'
  BY <1>2 DEF Echoes, OneSessionOnly, DataInOrder
<1> QED
  BY <1>5, <1>6, <1>7 DEF EchoInv

\* The acknowledgement with the session's id is the session's own, and then
\* nothing else is on the connection.
LEMMA EchoReadAck ==
    ASSUME OrderInv, EchoInv, abandoned < IdSpace, ReadAck
    PROVE  EchoInv'
<1>0. TypeOK /\ ClientState /\ FramesInOrder
  BY DEF OrderInv
<1>1. CASE ~Own(Head(down), "STREAM_INIT_ACK")
  BY <1>1, EchoClosed DEF ReadAck, Leave, EchoInv
<1>2. CASE Own(Head(down), "STREAM_INIT_ACK")
  <2>1. /\ cpc = "ack" /\ cpc' = "open" /\ down # <<>> /\ down' = Tail(down)
        /\ UNCHANGED <<session, sentFrames, got, abandoned, up, spc, current, out, returning>>
    BY <1>2 DEF ReadAck, serverVars
  <2>2. PICK n \in Nat : n = Len(down) /\ n >= 1
    BY <1>0, <2>1, Numbers
  <2>3. Head(down) = down[1] /\ (down' = <<>> <=> n = 1) /\ 1 \in 1..n
    BY <1>0, <2>1, <2>2, TakeDown
  <2>4. /\ down[1].id = Id(session) /\ down[1].id = Id(down[1].of) /\ down[1].of <= current.of
        /\ current.of <= session /\ down[1].of \in Nat /\ current.of \in Nat /\ session \in Nat
        /\ abandoned \in Nat /\ IdSpace \in Nat
    BY <1>0, <1>2, <2>2, <2>3, Numbers, SessionAssumption DEF Own, FramesInOrder
  <2>5. down[1].of + abandoned >= session
    BY <2>1, <2>2, <2>3 DEF EchoInv, LeftoversAreAbandoned, LeftBehind
  <2>6. down[1].of = session
    <3>1. down[1].of <= session /\ session - down[1].of < IdSpace
      BY <2>4, <2>5
    <3> QED
      BY <2>4, <3>1, SameId
  <2>7. n = 1 /\ spc \in {"handler", "reading", "closed"} /\ current.of = session /\ up = <<>>
    BY <2>1, <2>2, <2>3, <2>4, <2>6 DEF EchoInv, OneFrameYet
  <2>8. /\ up' = <<>> /\ down' = <<>> /\ got' = <<>> /\ sentFrames' = 0 /\ Len(<<>>) = 0
        /\ current'.of = session' /\ spc' \in {"handler", "reading", "closed"}
    BY <1>0, <2>1, <2>3, <2>7 DEF ClientState
  <2>. Len(up') = 0 /\ Len(down') = 0 /\ Len(got') = 0 /\ cpc' = "open"
    BY <2>1, <2>8
  <2>9. /\ LeftoversAreAbandoned' /\ OneFrameYet' /\ Echoes'
        /\ OneSessionOnly'
    BY <2>8 DEF LeftoversAreAbandoned, OneFrameYet, OneSessionOnly, Echoes, LeftBehind
  <2>10. DataInOrder'
    <3>1. InHand' = 0 /\ spc' # "sending" /\ 0 = 0 + 0 + 0 + 0
      BY <2>8 DEF InHand
    <3> QED
      BY <2>8, <3>1 DEF DataInOrder, OnlyData
  <2> QED
    BY <2>9, <2>10 DEF EchoInv
<1> QED
  BY <1>1, <1>2

\* The next of the session's data leaves.
LEMMA EchoSendData ==
    ASSUME OrderInv, EchoInv, sendData
    PROVE  EchoInv'
<1>0. TypeOK /\ ClientState /\ FramesInOrder
  BY DEF OrderInv
<1>1. PICK n \in Nat : n = Len(up)
  BY <1>0, Numbers
<1>2. PICK d \in Nat : d = Len(down)
  BY <1>0, Numbers
<1>3. /\ Len(up') = n + 1 /\ (\A i \in 1..n : up'[i] = up[i]) /\ up'[n + 1].of = session
      /\ up'[n + 1].type = "STREAM_DATA" /\ up'[n + 1].n = sentFrames + 1
      /\ sentFrames' = sentFrames + 1 /\ cpc = "open" /\ cpc' = "open" /\ up' # <<>>
      /\ UNCHANGED <<session, got, down, spc, current, abandoned, out, returning>>
  <2>1. /\ session' \in 0..MaxSessions /\ "STREAM_DATA" \in FrameTypes
        /\ sentFrames' \in 0..FramesPerStream /\ "none" \in Routes \cup {"none"}
    BY <1>0, SessionAssumption DEF sendData, MaySend, TypeOK, FrameTypes
  <2>2. Said /\ up'[n + 1].type = "STREAM_DATA" /\ up'[n + 1].n = sentFrames'
    BY <1>0, <1>1, <2>1, PutSays DEF sendData
  <2> QED
    BY <1>1, <2>2 DEF Said, sendData, serverVars
<1>4. session \in Nat /\ abandoned \in Nat /\ sentFrames \in Nat /\ Len(got) \in Nat
  BY <1>0, Numbers
<1>5. LeftoversAreAbandoned'
  <2>1. /\ \A i \in 1..n : up[i].of + abandoned >= session
        /\ \A i \in 1..Len(down) : down[i].of + abandoned >= session
        /\ spc \in {"cancel", "ack", "sending"} => current.of + abandoned >= session
    BY <1>1, <1>3 DEF EchoInv, LeftoversAreAbandoned, LeftBehind
  <2> QED
    BY <1>3, <1>4, <2>1 DEF LeftoversAreAbandoned, LeftBehind
<1>6. /\ \A i \in 1..n : up[i].type = "STREAM_DATA"
      /\ \A i \in 1..Len(down) : down[i].type # "STREAM_END"
      /\ \A k \in 1..Len(down) : OnlyData(down, k) => down[k].n = Len(got) + k
      /\ spc = "sending" => ~returning /\ Len(out) = 1 /\ out[1][1] = "STREAM_DATA"
      /\ (HandlerOpen /\ OnlyData(down, d)) =>
            /\ sentFrames = Len(got) + d + InHand + n
            /\ spc = "sending" => out[1][3] = Len(got) + d + 1
            /\ \A k \in 1..n : up[k].n = Len(got) + d + InHand + k
  BY <1>1, <1>2, <1>3 DEF EchoInv, DataInOrder, OnlyData
<1>7. OneSessionOnly'
  <2>1. current.of = session /\ spc # "ack" /\ \A i \in 1..Len(down) : down[i].of = session
    BY <1>3 DEF EchoInv, OneSessionOnly
  <2>2. \A i \in 1..(n + 1) : up'[i].type = "STREAM_DATA"
    BY <1>3, <1>6
  <2>3. ~ (spc = "sending" /\ (\E i \in 1..Len(out) : out[i][1] = "STREAM_END"))
    BY <1>6
  <2> QED
    BY <1>3, <1>6, <2>1, <2>2, <2>3 DEF OneSessionOnly
<1>8. DataInOrder'
  <2>1. OnlyData(up', Len(up'))
    BY <1>3, <1>6 DEF OnlyData
  <2>2. (HandlerOpen' <=> HandlerOpen) /\ InHand' = InHand /\ InHand \in 0..1
    BY <1>3 DEF HandlerOpen, InHand
  <2>3. ASSUME HandlerOpen, OnlyData(down, d)
        PROVE  /\ sentFrames' = Len(got) + d + InHand + (n + 1)
               /\ spc = "sending" => out[1][3] = Len(got) + d + 1
               /\ \A k \in 1..(n + 1) : up'[k].n = Len(got) + d + InHand + k
    <3>1. PICK g \in Nat, h \in 0..1 : g = Len(got) /\ h = InHand
      BY <1>4, <2>2
    <3>2. /\ sentFrames = g + d + h + n
          /\ spc = "sending" => out[1][3] = g + d + 1
          /\ \A k \in 1..n : up[k].n = g + d + h + k
      BY <1>6, <2>3, <3>1
    <3>3. sentFrames' = g + d + h + (n + 1)
      BY <1>3, <1>4, <3>2
    <3>4. \A k \in 1..(n + 1) : up'[k].n = g + d + h + k
      <4>1. up'[n + 1].n = g + d + h + (n + 1)
        BY <1>3, <1>4, <3>2
      <4>2. \A k \in 1..n : up'[k].n = g + d + h + k
        BY <1>3, <3>2
      <4>3. \A k \in 1..(n + 1) : k \in 1..n \/ k = n + 1
        OBVIOUS
      <4> QED
        BY <4>1, <4>2, <4>3
    <3> QED
      BY <3>1, <3>2, <3>3, <3>4
  <2> QED
    BY <1>2, <1>3, <1>6, <2>1, <2>2, <2>3 DEF DataInOrder, OnlyData
<1>9. OneFrameYet' /\ Echoes'
  BY <1>3 DEF EchoInv, OneFrameYet, Echoes
<1> QED
  BY <1>5, <1>7, <1>8, <1>9 DEF EchoInv

\* An echo the client takes is the next of its own session.
LEMMA EchoReadEcho ==
    ASSUME OrderInv, EchoInv, ReadEcho
    PROVE  EchoInv'
<1>0. TypeOK /\ ClientState /\ FramesInOrder
  BY DEF OrderInv
<1>1. CASE ~Own(Head(down), "STREAM_DATA")
  BY <1>1, EchoClosed DEF ReadEcho, Leave, EchoInv
<1>2. CASE Own(Head(down), "STREAM_DATA")
  <2>1. /\ cpc = "open" /\ cpc' = "open" /\ down # <<>> /\ down' = Tail(down)
        /\ got' = Append(got, [of |-> Head(down).of, n |-> Head(down).n])
        /\ UNCHANGED <<session, sentFrames, abandoned, up, spc, current, out, returning>>
    BY <1>2 DEF ReadEcho, serverVars
  <2>2. PICK d \in Nat : d = Len(down) /\ d >= 1
    BY <1>0, <2>1, Numbers
  <2>3. /\ Head(down) = down[1] /\ 1 \in 1..d /\ Len(down') = d - 1
        /\ \A i \in 1..(d - 1) : down'[i] = down[i + 1] /\ i + 1 \in 1..d
    BY <1>0, <2>1, <2>2, TakeDown
  <2>4. PICK g \in Nat : g = Len(got)
    BY <1>0, Numbers
  <2>5. /\ OnlyData(up, Len(up))
        /\ \A i \in 1..d : down[i].type # "STREAM_END"
        /\ \A k \in 1..d : OnlyData(down, k) => down[k].n = g + k
        /\ spc = "sending" => ~returning /\ Len(out) = 1 /\ out[1][1] = "STREAM_DATA"
        /\ (HandlerOpen /\ OnlyData(down, d)) =>
              /\ sentFrames = g + d + InHand + Len(up)
              /\ spc = "sending" => out[1][3] = g + d + 1
              /\ \A k \in 1..Len(up) : up[k].n = g + d + InHand + k
    BY <2>1, <2>2, <2>4 DEF EchoInv, DataInOrder
  <2>6. /\ current.of = session /\ spc # "ack"
        /\ \A i \in 1..d : down[i].of = session
        /\ \A i \in 1..Len(up) : up[i].type = "STREAM_END" => i = Len(up)
        /\ spc = "sending" /\ (\E i \in 1..Len(out) : out[i][1] = "STREAM_END") => up = <<>>
    BY <2>1, <2>2 DEF EchoInv, OneSessionOnly
  <2>7. down[1].type = "STREAM_DATA" /\ OnlyData(down, 1)
    BY <1>2, <2>3 DEF Own, OnlyData
  <2>8. down[1].n = g + 1 /\ down[1].of = session
    BY <2>3, <2>5, <2>6, <2>7
  <2>9. /\ Len(got') = g + 1 /\ got'[g + 1] = [of |-> session, n |-> g + 1]
        /\ \A i \in 1..g : got'[i] = got[i]
    <3>1. got \in Seq([of : 0..MaxSessions, n : 0..FramesPerStream])
      BY <1>0 DEF TypeOK
    <3>2. down[1] \in Frames
      BY <1>0, <2>2, <2>3, Numbers
    <3>3. PICK e \in [of : 0..MaxSessions, n : 0..FramesPerStream] :
             e = [of |-> down[1].of, n |-> down[1].n]
      BY <3>2 DEF Frames
    <3>4. got' = Append(got, e)
      BY <2>1, <2>3, <3>3
    <3>5. Len(got') = g + 1 /\ got'[g + 1] = e /\ \A i \in 1..g : got'[i] = got[i]
      BY <2>4, <3>1, <3>4, PutLast
    <3> QED
      BY <2>8, <3>3, <3>5
  <2>10. Echoes'
    <3>1. \A i \in 1..g : got[i] = [of |-> session, n |-> i]
      BY <2>4 DEF EchoInv, Echoes
    <3>2. \A i \in 1..(g + 1) : i \in 1..g \/ i = g + 1
      OBVIOUS
    <3> QED
      BY <2>1, <2>9, <3>1, <3>2 DEF Echoes
  <2>11. LeftoversAreAbandoned'
    <3>1. /\ \A i \in 1..Len(up) : up[i].of + abandoned >= session
          /\ \A i \in 1..d : down[i].of + abandoned >= session
          /\ spc \in {"cancel", "ack", "sending"} => current.of + abandoned >= session
      BY <2>1, <2>2 DEF EchoInv, LeftoversAreAbandoned, LeftBehind
    <3> QED
      BY <2>1, <2>3, <3>1 DEF LeftoversAreAbandoned, LeftBehind
  <2>12. OneFrameYet'
    BY <2>1 DEF OneFrameYet
  <2>13. OneSessionOnly'
    BY <2>1, <2>3, <2>5, <2>6 DEF OneSessionOnly
  <2>14. ASSUME NEW k \in 0..(d - 1), OnlyData(down', k) PROVE OnlyData(down, k + 1)
    <3> SUFFICES ASSUME NEW i \in 1..(k + 1) PROVE down[i].type = "STREAM_DATA"
      BY DEF OnlyData
    <3>1. CASE i = 1
      BY <2>7, <3>1
    <3>2. CASE i # 1
      <4>1. i - 1 \in 1..k /\ i - 1 \in 1..(d - 1) /\ i - 1 + 1 = i
        BY <3>2
      <4>2. down'[i - 1] = down[i]
        BY <2>3, <4>1
      <4> QED
        BY <2>14, <4>1, <4>2 DEF OnlyData
    <3> QED
      BY <3>1, <3>2
  <2>15. DataInOrder'
    <3>1. (HandlerOpen' <=> HandlerOpen) /\ InHand' = InHand /\ InHand \in 0..1
      BY <2>1 DEF HandlerOpen, InHand
    <3>2. ASSUME NEW k \in 1..(d - 1), OnlyData(down', k) PROVE down'[k].n = g + 1 + k
      <4>1. k + 1 \in 1..d /\ k \in 0..(d - 1) /\ down'[k] = down[k + 1]
        BY <2>3
      <4>2. down[k + 1].n = g + (k + 1)
        BY <2>5, <2>14, <3>2, <4>1
      <4> QED
        BY <4>1, <4>2
    <3>3. ASSUME HandlerOpen, OnlyData(down', d - 1)
          PROVE  /\ sentFrames = (g + 1) + (d - 1) + InHand + Len(up)
                 /\ spc = "sending" => out[1][3] = (g + 1) + (d - 1) + 1
                 /\ \A k \in 1..Len(up) : up[k].n = (g + 1) + (d - 1) + InHand + k
      <4>1. d - 1 \in 0..(d - 1) /\ d - 1 + 1 = d /\ (g + 1) + (d - 1) = g + d
        BY <2>2
      <4>2. OnlyData(down, d)
        BY <2>14, <3>3, <4>1
      <4> QED
        BY <2>5, <3>3, <4>1, <4>2
    <3>4. \A i \in 1..(d - 1) : down'[i].type # "STREAM_END"
      BY <2>3, <2>5
    <3>5. Len(down') = d - 1 /\ Len(got') = g + 1
      BY <2>3, <2>9
    <3> QED
      BY <2>1, <2>5, <3>1, <3>2, <3>3, <3>4, <3>5 DEF DataInOrder
  <2> QED
    BY <2>10, <2>11, <2>12, <2>13, <2>15 DEF EchoInv
<1> QED
  BY <1>1, <1>2

\* A closing frame of the client leaves.
LEMMA EchoClosingFrame ==
    ASSUME OrderInv, EchoInv, sendEnd \/ sendCancel
    PROVE  EchoInv'
<1>0. TypeOK /\ ClientState /\ FramesInOrder
  BY DEF OrderInv
<1>1. PICK n \in Nat : n = Len(up)
  BY <1>0, Numbers
<1>2. session \in Nat /\ abandoned \in Nat /\ session' = session
  BY <1>0, Numbers DEF sendEnd, sendCancel
<1>3. /\ Len(up') = n + 1 /\ (\A i \in 1..n : up'[i] = up[i]) /\ up'[n + 1].of = session
      /\ UNCHANGED <<session, got, down, spc, current, out, returning>>
  <2>1. /\ session' \in 0..MaxSessions /\ {"STREAM_END", "STREAM_CANCEL"} \subseteq FrameTypes
        /\ 0 \in 0..FramesPerStream /\ "none" \in Routes \cup {"none"}
    BY <1>0, <1>2, SessionAssumption DEF TypeOK, FrameTypes
  <2>2. Said
    <3>1. CASE sendEnd
      BY <1>0, <2>1, <3>1, PutSays DEF sendEnd
    <3>2. CASE sendCancel
      BY <1>0, <2>1, <3>2, PutSays DEF sendCancel
    <3> QED
      BY <3>1, <3>2
  <2> QED
    BY <1>1, <1>2, <2>2 DEF Said, sendEnd, sendCancel, serverVars
<1>4. cpc \in {"ack", "open", "tail"}
  BY DEF sendEnd, sendCancel
<1>5. /\ \A i \in 1..n : up[i].of \in Nat /\ up[i].of + abandoned >= session
      /\ \A i \in 1..Len(down) : down[i].of \in Nat /\ down[i].of + abandoned >= session
      /\ spc \in {"cancel", "ack", "sending"} => current.of + abandoned >= session
      /\ current.of \in Nat
  BY <1>0, <1>1, <1>4, Numbers DEF EchoInv, LeftoversAreAbandoned, LeftBehind
<1>6. Echoes'
  BY <1>3 DEF EchoInv, Echoes
<1>7. CASE sendCancel
  <2>1. cpc' = "idle" /\ abandoned' = abandoned + 1
    BY <1>7 DEF sendCancel
  <2>2. \A i \in 1..(n + 1) : up'[i].of + (abandoned + 1) >= session + 1
    <3>1. \A i \in 1..n : up'[i].of + (abandoned + 1) >= session + 1
      BY <1>2, <1>3, <1>5
    <3>2. up'[n + 1].of + (abandoned + 1) >= session + 1
      BY <1>2, <1>3
    <3>3. \A i \in 1..(n + 1) : i \in 1..n \/ i = n + 1
      OBVIOUS
    <3> QED
      BY <3>1, <3>2, <3>3
  <2>3. /\ \A i \in 1..Len(down) : down[i].of + (abandoned + 1) >= session + 1
        /\ spc \in {"cancel", "ack", "sending"} => current.of + (abandoned + 1) >= session + 1
    BY <1>2, <1>5
  <2>4. LeftoversAreAbandoned'
    BY <1>3, <2>1, <2>2, <2>3 DEF LeftoversAreAbandoned, LeftBehind
  <2> QED
    BY <1>6, <2>1, <2>4 DEF EchoInv, OneFrameYet, OneSessionOnly, DataInOrder
<1>8. CASE sendEnd
  <2>1. cpc = "open" /\ cpc' = "tail" /\ abandoned' = abandoned
    BY <1>8 DEF sendEnd
  <2>2. LeftoversAreAbandoned'
    BY <1>2, <1>3, <1>5, <2>1 DEF LeftoversAreAbandoned, LeftBehind
  <2>3. /\ \A i \in 1..n : up[i].type = "STREAM_DATA"
        /\ \A i \in 1..Len(down) : down[i].type # "STREAM_END"
        /\ spc = "sending" => Len(out) = 1 /\ out[1][1] = "STREAM_DATA"
    BY <1>1, <2>1 DEF EchoInv, DataInOrder, OnlyData
  <2>4. current.of = session /\ spc # "ack" /\ \A i \in 1..Len(down) : down[i].of = session
    BY <2>1 DEF EchoInv, OneSessionOnly
  <2>5. \A i \in 1..(n + 1) : up'[i].type = "STREAM_END" => i = n + 1
    BY <1>3, <2>3
  <2>6. ~ (spc = "sending" /\ (\E i \in 1..Len(out) : out[i][1] = "STREAM_END"))
    BY <2>3
  <2>7. OneSessionOnly'
    BY <1>3, <2>3, <2>4, <2>5, <2>6 DEF OneSessionOnly
  <2> QED
    BY <1>6, <2>1, <2>2, <2>7 DEF EchoInv, OneFrameYet, DataInOrder
<1> QED
  BY <1>7, <1>8

\* The end of the session leaves nothing behind it.
LEMMA EchoReadTail ==
    ASSUME OrderInv, EchoInv, ReadTail
    PROVE  EchoInv'
<1>0. TypeOK /\ ClientState /\ FramesInOrder
  BY DEF OrderInv
<1>1. /\ cpc = "tail" /\ down # <<>> /\ down' = Tail(down)
      /\ UNCHANGED <<session, got, abandoned, up, spc, current, out, returning>>
  BY DEF ReadTail, serverVars
<1>2. PICK d \in Nat : d = Len(down) /\ d >= 1
  BY <1>0, <1>1, Numbers
<1>3. /\ Head(down) = down[1] /\ 1 \in 1..d /\ Len(down') = d - 1 /\ (down' = <<>> <=> d = 1)
      /\ \A i \in 1..(d - 1) : down'[i] = down[i + 1] /\ i + 1 \in 1..d
  BY <1>0, <1>1, <1>2, TakeDown
<1>4. /\ \A i \in 1..Len(up) : up[i].of + abandoned >= session
      /\ \A i \in 1..d : down[i].of + abandoned >= session
      /\ spc \in {"cancel", "ack", "sending"} => current.of + abandoned >= session
  BY <1>1, <1>2 DEF EchoInv, LeftoversAreAbandoned, LeftBehind
<1>5. /\ current.of = session /\ spc # "ack"
      /\ \A i \in 1..d : down[i].of = session
      /\ \A i \in 1..Len(up) : up[i].type = "STREAM_END" => i = Len(up)
      /\ spc = "sending" /\ (\E i \in 1..Len(out) : out[i][1] = "STREAM_END") => up = <<>>
      /\ \A i \in 1..d : down[i].type = "STREAM_END" =>
            i = d /\ up = <<>> /\ spc \in {"reading", "closed"}
  BY <1>1, <1>2 DEF EchoInv, OneSessionOnly
<1>6. Echoes'
  BY <1>1 DEF EchoInv, Echoes
<1>7. CASE down[1].type = "STREAM_END"
  <2>1. cpc' = "idle"
    BY <1>3, <1>7 DEF ReadTail
  <2>2. up' = <<>> /\ down' = <<>> /\ spc' \in {"reading", "closed"} /\ Len(<<>>) = 0
    BY <1>1, <1>3, <1>5, <1>7
  <2>3. LeftoversAreAbandoned'
    BY <2>2 DEF LeftoversAreAbandoned, LeftBehind
  <2> QED
    BY <1>6, <2>1, <2>3 DEF EchoInv, OneFrameYet, OneSessionOnly, DataInOrder
<1>8. CASE down[1].type # "STREAM_END"
  <2>1. cpc' \in {"tail", "closed"}
    BY <1>1, <1>3, <1>8 DEF ReadTail, Leave
  <2>2. LeftoversAreAbandoned'
    BY <1>1, <1>3, <1>4, <2>1 DEF LeftoversAreAbandoned, LeftBehind
  <2>3. \A i \in 1..(d - 1) : down'[i].of = session /\ (down'[i].type = "STREAM_END" =>
           i = d - 1 /\ up = <<>> /\ spc \in {"reading", "closed"})
    BY <1>2, <1>3, <1>5
  <2>4. OneSessionOnly'
    BY <1>1, <1>3, <1>5, <2>1, <2>3 DEF OneSessionOnly
  <2> QED
    BY <1>6, <2>1, <2>2, <2>4 DEF EchoInv, OneFrameYet, DataInOrder
<1> QED
  BY <1>7, <1>8

\* A frame of a server's session is left behind only if its session is.
LEMMA LeftoversServer ==
    ASSUME LeftoversAreAbandoned, UNCHANGED <<cpc, session, abandoned>>,
           \A i \in 1..Len(up') : \E j \in 1..Len(up) : up'[i].of = up[j].of,
           \A i \in 1..Len(down') : \/ \E j \in 1..Len(down) : down'[i].of = down[j].of
                                    \/ /\ spc \in {"cancel", "ack", "sending"}
                                       /\ down'[i].of = current.of,
           spc' \in {"cancel", "ack", "sending"} =>
              \/ spc \in {"cancel", "ack", "sending"} /\ current'.of = current.of
              \/ \E j \in 1..Len(up) : current'.of = up[j].of
    PROVE  LeftoversAreAbandoned'
<1> SUFFICES ASSUME cpc # "closed"
             PROVE  /\ \A i \in 1..Len(up') : LeftBehind(up'[i].of)
                    /\ \A i \in 1..Len(down') : LeftBehind(down'[i].of)
                    /\ spc' \in {"cancel", "ack", "sending"} => LeftBehind(current'.of)
  BY DEF LeftoversAreAbandoned, LeftBehind
<1>1. /\ \A i \in 1..Len(up) : LeftBehind(up[i].of)
      /\ \A i \in 1..Len(down) : LeftBehind(down[i].of)
      /\ spc \in {"cancel", "ack", "sending"} => LeftBehind(current.of)
  BY DEF LeftoversAreAbandoned
<1>2. \A i \in 1..Len(up') : LeftBehind(up'[i].of)
  BY <1>1
<1>3. \A i \in 1..Len(down') : LeftBehind(down'[i].of)
  BY <1>1
<1>4. spc' \in {"cancel", "ack", "sending"} => LeftBehind(current'.of)
  BY <1>1
<1> QED
  BY <1>2, <1>3, <1>4

\* The frame that may open a session.
LEMMA EchoReadFirst ==
    ASSUME OrderInv, EchoInv, ReadFirst
    PROVE  EchoInv'
<1>0. TypeOK /\ ClientState /\ FramesInOrder /\ InitsComeFirst
  BY DEF OrderInv
<1>1. /\ spc = "reading" /\ up # <<>> /\ up' = Tail(up) /\ current'.of = Head(up).of
      /\ spc' = AnswerTo(Head(up))
      /\ UNCHANGED <<cpc, session, got, abandoned, down, out, returning>>
  BY DEF ReadFirst, clientVars
<1>2. PICK n \in Nat : n = Len(up) /\ n >= 1
  BY <1>0, <1>1, Numbers
<1>3. /\ Head(up) = up[1] /\ 1 \in 1..n /\ Len(up') = n - 1 /\ (up' = <<>> <=> n = 1)
      /\ \A i \in 1..(n - 1) : up'[i] = up[i + 1] /\ i + 1 \in 1..n
  BY <1>0, <1>1, <1>2, TakeUp
<1>4. /\ spc' \in {"ack", "cancel"} /\ (spc' = "ack" => up[1].type = "STREAM_INIT")
      /\ current'.of = up[1].of
  BY <1>1, <1>3 DEF AnswerTo
<1>5. /\ up[1].of \in Nat /\ current.of \in Nat /\ session \in Nat
      /\ current.of <= up[1].of /\ up[1].of <= session
      /\ (up[1].type = "STREAM_INIT" => up[1].of > current.of)
      /\ \A i \in 1..Len(down) : down[i].of \in Nat /\ down[i].of <= current.of
  <2>1. /\ up[1].of \in Nat /\ current.of \in Nat /\ session \in Nat
        /\ \A i \in 1..Len(down) : down[i].of \in Nat
    BY <1>0, <1>2, <1>3, Numbers
  <2>2. up[1].of \in current.of..session /\ \A i \in 1..Len(down) : down[i].of <= current.of
    BY <1>0, <1>2, <1>3 DEF FramesInOrder
  <2>3. up[1].type = "STREAM_INIT" => up[1].of > current.of
    BY <1>0, <1>2, <1>3 DEF InitsComeFirst
  <2> QED
    BY <2>1, <2>2, <2>3
<1>6. LeftoversAreAbandoned'
  <2>1. \A i \in 1..Len(up') : \E j \in 1..Len(up) : up'[i].of = up[j].of
    BY <1>2, <1>3
  <2>2. \E j \in 1..Len(up) : current'.of = up[j].of
    BY <1>2, <1>3, <1>4
  <2> QED
    BY <1>1, <2>1, <2>2, LeftoversServer DEF EchoInv
<1>7. OneFrameYet'
  <2> SUFFICES ASSUME cpc = "ack" PROVE OneFrameYet'
    BY <1>1 DEF OneFrameYet
  <2>1. /\ \A i \in 1..n : up[i].of = session => i = n
        /\ current.of # session
    BY <1>1, <1>2 DEF EchoInv, OneFrameYet
  <2>2. \A i \in 1..(n - 1) : up'[i].of = session => i = n - 1
    <3> SUFFICES ASSUME NEW i \in 1..(n - 1), up'[i].of = session PROVE i = n - 1
      OBVIOUS
    <3>1. i + 1 \in 1..n /\ up[i + 1].of = session
      BY <1>3
    <3>2. i + 1 = n
      BY <2>1, <3>1
    <3> QED
      BY <3>2
  <2>3. up[1].of = session => n = 1
    BY <1>3, <2>1
  <2>4. \A i \in 1..Len(down) : down[i].of # session
    BY <1>5, <2>1
  <2> QED
    BY <1>1, <1>3, <1>4, <2>2, <2>3, <2>4 DEF OneFrameYet
<1>8. ASSUME cpc \in {"open", "tail"}
      PROVE  /\ current'.of = session /\ spc' = "cancel"
             /\ \A i \in 1..Len(down) : down[i].of = session /\ down[i].type # "STREAM_END"
             /\ \A i \in 1..(n - 1) : up'[i].type = "STREAM_END" => i = n - 1
  <2>1. /\ current.of = session /\ \A i \in 1..Len(down) : down[i].of = session
        /\ \A i \in 1..n : up[i].type = "STREAM_END" => i = n
        /\ \A i \in 1..Len(down) : down[i].type = "STREAM_END" => up = <<>>
    BY <1>2, <1>8 DEF EchoInv, OneSessionOnly
  <2>2. current'.of = session /\ spc' = "cancel"
    BY <1>4, <1>5, <2>1
  <2>3. \A i \in 1..(n - 1) : up'[i].type = "STREAM_END" => i = n - 1
    <3> SUFFICES ASSUME NEW i \in 1..(n - 1), up'[i].type = "STREAM_END" PROVE i = n - 1
      OBVIOUS
    <3>1. i + 1 \in 1..n /\ up[i + 1].type = "STREAM_END"
      BY <1>3
    <3>2. i + 1 = n
      BY <2>1, <3>1
    <3> QED
      BY <3>2
  <2> QED
    BY <1>1, <2>1, <2>2, <2>3
<1>9. OneSessionOnly'
  BY <1>1, <1>3, <1>8 DEF OneSessionOnly
<1>10. DataInOrder'
  <2> SUFFICES ASSUME cpc = "open" PROVE DataInOrder'
    BY <1>1 DEF DataInOrder
  <2>1. /\ \A i \in 1..n : up[i].type = "STREAM_DATA"
        /\ \A i \in 1..Len(down) : down[i].type # "STREAM_END"
        /\ \A k \in 1..Len(down) : OnlyData(down, k) => down[k].n = Len(got) + k
    BY <1>2 DEF EchoInv, DataInOrder, OnlyData
  <2>2. spc' = "cancel" /\ ~HandlerOpen'
    BY <1>8 DEF HandlerOpen
  <2>3. OnlyData(up', Len(up'))
    BY <1>3, <2>1 DEF OnlyData
  <2> QED
    BY <1>1, <2>1, <2>2, <2>3 DEF DataInOrder, OnlyData
<1>11. Echoes'
  BY <1>1 DEF EchoInv, Echoes
<1> QED
  BY <1>6, <1>7, <1>9, <1>10, <1>11 DEF EchoInv

\* The connection coroutine cancels a frame or acknowledges an init.
LEMMA EchoAnswer ==
    ASSUME OrderInv, EchoInv, CancelStream \/ sendInitAck
    PROVE  EchoInv'
<1>0. TypeOK /\ ClientState /\ FramesInOrder /\ InitsComeFirst
  BY DEF OrderInv
<1>1. PICK d \in Nat : d = Len(down)
  BY <1>0, Numbers
<1>2. /\ UNCHANGED <<cpc, session, got, abandoned, sentFrames, up, current, out, returning>>
      /\ \/ spc = "cancel" /\ spc' \in {"reading", "closed"} /\ Told("STREAM_CANCEL", 0)
         \/ spc = "ack" /\ spc' = "handler" /\ Told("STREAM_INIT_ACK", 0)
  <2>1. /\ "STREAM_CANCEL" \in FrameTypes /\ "STREAM_INIT_ACK" \in FrameTypes
        /\ 0 \in 0..FramesPerStream
    BY SessionAssumption DEF FrameTypes
  <2>2. CASE CancelStream
    BY <1>0, <2>1, <2>2, EmitSays DEF CancelStream, clientVars, Loop
  <2>3. CASE sendInitAck
    BY <1>0, <2>1, <2>3, EmitSays DEF sendInitAck, clientVars
  <2> QED
    BY <2>2, <2>3
<1>3. /\ Len(down') = d + 1 /\ (\A i \in 1..d : down'[i] = down[i])
      /\ down'[d + 1].of = current.of /\ down'[d + 1].type \notin {"STREAM_DATA", "STREAM_END"}
  BY <1>1, <1>2 DEF Told
<1>4. LeftoversAreAbandoned'
  <2>1. \A i \in 1..Len(up') : \E j \in 1..Len(up) : up'[i].of = up[j].of
    BY <1>2
  <2>2. \A i \in 1..Len(down') : \/ \E j \in 1..Len(down) : down'[i].of = down[j].of
                                 \/ /\ spc \in {"cancel", "ack", "sending"}
                                    /\ down'[i].of = current.of
    BY <1>1, <1>2, <1>3
  <2>3. spc' \notin {"cancel", "ack", "sending"}
    BY <1>2
  <2> QED
    BY <1>2, <2>1, <2>2, <2>3, LeftoversServer DEF EchoInv
<1>5. OneFrameYet'
  <2> SUFFICES ASSUME cpc = "ack" PROVE OneFrameYet'
    BY <1>2 DEF OneFrameYet
  <2>1. /\ \A i \in 1..Len(up) : up[i].of = session => i = Len(up)
        /\ current.of = session => up = <<>>
        /\ \A i \in 1..d : down[i].of # session
    BY <1>1, <1>2 DEF EchoInv, OneFrameYet
  <2>2. \A i \in 1..(d + 1) : down'[i].of = session => i = d + 1
    BY <1>3, <2>1
  <2> QED
    BY <1>2, <1>3, <2>1, <2>2 DEF OneFrameYet
<1>6. OneSessionOnly'
  <2> SUFFICES ASSUME cpc \in {"open", "tail"} PROVE OneSessionOnly'
    BY <1>2 DEF OneSessionOnly
  <2>1. /\ current.of = session /\ spc # "ack" /\ \A i \in 1..d : down[i].of = session
        /\ \A i \in 1..Len(up) : up[i].type = "STREAM_END" => i = Len(up)
        /\ \A i \in 1..d : down[i].type = "STREAM_END" => spc \in {"reading", "closed"}
    BY <1>1 DEF EchoInv, OneSessionOnly
  <2>2. \A i \in 1..(d + 1) : down'[i].of = session /\ down'[i].type # "STREAM_END"
    BY <1>2, <1>3, <2>1
  <2> QED
    BY <1>2, <1>3, <2>1, <2>2 DEF OneSessionOnly
<1>7. DataInOrder'
  <2> SUFFICES ASSUME cpc = "open" PROVE DataInOrder'
    BY <1>2 DEF DataInOrder
  <2>1. /\ OnlyData(up, Len(up)) /\ \A i \in 1..d : down[i].type # "STREAM_END"
        /\ \A k \in 1..d : OnlyData(down, k) => down[k].n = Len(got) + k
    BY <1>1 DEF EchoInv, DataInOrder
  <2>2. spc' \in {"reading", "closed"} /\ ~HandlerOpen'
    BY <1>2 DEF EchoInv, OneSessionOnly, HandlerOpen
  <2>3. ASSUME NEW k \in 1..(d + 1), OnlyData(down', k) PROVE k \in 1..d /\ OnlyData(down, k)
    BY <1>3, <2>3 DEF OnlyData
  <2>4. \A i \in 1..(d + 1) : down'[i].type # "STREAM_END"
    BY <1>3, <2>1
  <2>5. \A k \in 1..(d + 1) : OnlyData(down', k) => down'[k].n = Len(got) + k
    BY <1>3, <2>1, <2>3
  <2> QED
    BY <1>2, <1>3, <2>1, <2>2, <2>4, <2>5 DEF DataInOrder
<1>8. Echoes'
  BY <1>2 DEF EchoInv, Echoes
<1> QED
  BY <1>4, <1>5, <1>6, <1>7, <1>8 DEF EchoInv

\* The handler reads the next frame of its session.
LEMMA EchoHandlerRead ==
    ASSUME OrderInv, EchoInv, HandlerRead
    PROVE  EchoInv'
<1>0. TypeOK /\ ClientState /\ FramesInOrder /\ InitsComeFirst
  BY DEF OrderInv
<1>1. /\ spc = "handler" /\ up # <<>> /\ up' = Tail(up) /\ out' = EchoTurn(Head(up))
      /\ returning' = (Head(up).type # "STREAM_DATA")
      /\ spc' = (IF out' # <<>> THEN "sending" ELSE Loop) /\ Loop \in {"reading", "closed"}
      /\ UNCHANGED <<cpc, session, got, abandoned, sentFrames, down, current>>
  BY DEF HandlerRead, clientVars, Loop
<1>2. PICK n \in Nat : n = Len(up) /\ n >= 1
  BY <1>0, <1>1, Numbers
<1>3. /\ Head(up) = up[1] /\ 1 \in 1..n /\ Len(up') = n - 1 /\ (up' = <<>> <=> n = 1)
      /\ \A i \in 1..(n - 1) : up'[i] = up[i + 1] /\ i + 1 \in 1..n
      /\ up[1] \in Frames
  BY <1>0, <1>1, <1>2, TakeUp
<1>4. HandlerOpen /\ up[1].of = current.of
  <2>1. HandlerOpen
    BY <1>1 DEF HandlerOpen
  <2> QED
    BY <1>0, <1>1, <2>1, HandlerFinds
<1>5. /\ current.of \in Nat /\ session \in Nat /\ Len(got) \in Nat /\ Len(down) \in Nat
      /\ \A i \in 1..Len(down) : down[i].of \in Nat /\ down[i].of <= current.of
      /\ current.of <= session
  BY <1>0, Numbers DEF FramesInOrder
<1>6. LeftoversAreAbandoned'
  <2>1. \A i \in 1..Len(up') : \E j \in 1..Len(up) : up'[i].of = up[j].of
    BY <1>2, <1>3
  <2>2. \E j \in 1..Len(up) : current'.of = up[j].of
    BY <1>1, <1>2, <1>3, <1>4
  <2> QED
    BY <1>1, <2>1, <2>2, LeftoversServer DEF EchoInv
<1>7. OneFrameYet'
  <2> SUFFICES ASSUME cpc = "ack" PROVE OneFrameYet'
    BY <1>1 DEF OneFrameYet
  <2>1. /\ \A i \in 1..n : up[i].of = session => i = n
        /\ current.of # session
    BY <1>1, <1>2 DEF EchoInv, OneFrameYet
  <2>2. \A i \in 1..(n - 1) : up'[i].of = session => i = n - 1
    <3> SUFFICES ASSUME NEW i \in 1..(n - 1), up'[i].of = session PROVE i = n - 1
      OBVIOUS
    <3>1. i + 1 \in 1..n /\ up[i + 1].of = session
      BY <1>3
    <3>2. i + 1 = n
      BY <2>1, <3>1
    <3> QED
      BY <3>2
  <2>3. \A i \in 1..Len(down) : down[i].of # session
    BY <1>5, <2>1
  <2> QED
    BY <1>1, <1>3, <2>1, <2>2, <2>3 DEF OneFrameYet
<1>8. OneSessionOnly'
  <2> SUFFICES ASSUME cpc \in {"open", "tail"} PROVE OneSessionOnly'
    BY <1>1 DEF OneSessionOnly
  <2>1. /\ current.of = session /\ \A i \in 1..Len(down) : down[i].of = session
        /\ \A i \in 1..n : up[i].type = "STREAM_END" => i = n
        /\ \A i \in 1..Len(down) : down[i].type = "STREAM_END" => up = <<>>
    BY <1>2 DEF EchoInv, OneSessionOnly
  <2>2. \A i \in 1..(n - 1) : up'[i].type = "STREAM_END" => i = n - 1
    <3> SUFFICES ASSUME NEW i \in 1..(n - 1), up'[i].type = "STREAM_END" PROVE i = n - 1
      OBVIOUS
    <3>1. i + 1 \in 1..n /\ up[i + 1].type = "STREAM_END"
      BY <1>3
    <3>2. i + 1 = n
      BY <2>1, <3>1
    <3> QED
      BY <3>2
  <2>3. (\E i \in 1..Len(out') : out'[i][1] = "STREAM_END") => up' = <<>>
    <3>1. CASE up[1].type = "STREAM_END"
      BY <1>3, <2>1, <3>1
    <3>2. CASE up[1].type # "STREAM_END"
      <4>1. \/ out' = <<>>
            \/ out' = <<<<"STREAM_DATA", current.of, up[1].n>>>>
            \/ out' = <<<<"STREAM_CANCEL", current.of, 0>>>>
        BY <1>0, <1>1, <1>3, <1>4, <3>2, EchoTurnIs
      <4> QED
        BY <4>1
    <3> QED
      BY <3>1, <3>2
  <2> QED
    BY <1>1, <1>3, <2>1, <2>2, <2>3 DEF OneSessionOnly
<1>9. DataInOrder'
  <2> SUFFICES ASSUME cpc = "open" PROVE DataInOrder'
    BY <1>1 DEF DataInOrder
  <2>1. PICK g \in Nat, d \in Nat : g = Len(got) /\ d = Len(down)
    BY <1>5
  <2>2. InHand = 0
    BY <1>1 DEF InHand
  <2>3. /\ \A i \in 1..n : up[i].type = "STREAM_DATA"
        /\ \A i \in 1..d : down[i].type # "STREAM_END"
        /\ \A k \in 1..d : OnlyData(down, k) => down[k].n = g + k
        /\ OnlyData(down, d) =>
              /\ sentFrames = g + d + 0 + n
              /\ \A k \in 1..n : up[k].n = g + d + 0 + k
    BY <1>2, <1>4, <2>1, <2>2 DEF EchoInv, DataInOrder, OnlyData
  <2>4. /\ out' = <<<<"STREAM_DATA", current.of, up[1].n>>>> /\ ~returning'
        /\ out' # <<>> /\ spc' = "sending"
    <3>1. up[1].type = "STREAM_DATA"
      BY <1>3, <2>3
    <3>2. out' = <<<<"STREAM_DATA", current.of, up[1].n>>>>
      BY <1>0, <1>1, <1>3, <1>4, <3>1, EchoTurnIs
    <3>3. out' # <<>>
      BY <3>2
    <3>4. ~returning'
      BY <1>1, <1>3, <3>1
    <3> QED
      BY <1>1, <3>2, <3>3, <3>4
  <2>5. Len(out') = 1 /\ out'[1][1] = "STREAM_DATA" /\ out'[1][3] = up[1].n /\ InHand' = 1
    BY <2>4 DEF InHand
  <2>6. OnlyData(up', Len(up'))
    BY <1>3, <2>3 DEF OnlyData
  <2>7. ASSUME OnlyData(down, d)
        PROVE  /\ sentFrames = g + d + 1 + (n - 1)
               /\ up[1].n = g + d + 1
               /\ \A k \in 1..(n - 1) : up'[k].n = g + d + 1 + k
    <3>1. sentFrames = g + d + 0 + n /\ \A k \in 1..n : up[k].n = g + d + 0 + k
      BY <2>3, <2>7
    <3>2. \A k \in 1..(n - 1) : up'[k].n = g + d + 1 + k
      <4> SUFFICES ASSUME NEW k \in 1..(n - 1) PROVE up'[k].n = g + d + 1 + k
        OBVIOUS
      <4>1. up'[k] = up[k + 1] /\ k + 1 \in 1..n
        BY <1>3
      <4>2. up[k + 1].n = g + d + 0 + (k + 1)
        BY <3>1, <4>1
      <4> QED
        BY <4>1, <4>2
    <3> QED
      BY <1>3, <3>1, <3>2
  <2> QED
    BY <1>1, <1>3, <2>1, <2>3, <2>4, <2>5, <2>6, <2>7 DEF DataInOrder
<1>10. Echoes'
  BY <1>1 DEF EchoInv, Echoes
<1> QED
  BY <1>6, <1>7, <1>8, <1>9, <1>10 DEF EchoInv

\* The handler sends the next frame of its turn.
LEMMA EchoHandlerSend ==
    ASSUME OrderInv, EchoInv, HandlerSend
    PROVE  EchoInv'
<1>0. TypeOK /\ ClientState /\ FramesInOrder /\ InitsComeFirst /\ HandlersTurn
  BY DEF OrderInv
<1>1. PICK d \in Nat : d = Len(down)
  BY <1>0, Numbers
<1>2. /\ spc = "sending" /\ out' = Tail(out) /\ Loop \in {"reading", "closed"}
      /\ spc' = (IF out' # <<>> THEN "sending" ELSE IF returning THEN Loop ELSE "handler")
      /\ Told(out[1][1], out[1][3])
      /\ UNCHANGED <<cpc, session, got, abandoned, sentFrames, up, current, returning>>
  <2>1. /\ Emit(out[1][1], current.of, out[1][3]) /\ spc = "sending"
        /\ out[1][1] \in FrameTypes /\ out[1][3] \in 0..FramesPerStream
    BY <1>0, SendFirst DEF HandlerSend
  <2>2. Told(out[1][1], out[1][3])
    BY <1>0, <2>1, EmitSays
  <2> QED
    BY <2>1, <2>2 DEF HandlerSend, clientVars, Loop
<1>3. /\ Len(down') = d + 1 /\ (\A i \in 1..d : down'[i] = down[i])
      /\ down'[d + 1].of = current.of /\ down'[d + 1].type = out[1][1]
      /\ down'[d + 1].n = out[1][3]
  BY <1>1, <1>2 DEF Told
<1>4. /\ Len(out) \in Nat /\ Len(out) >= 1 /\ Len(out') = Len(out) - 1
      /\ \A i \in 1..(Len(out) - 1) : out'[i] = out[i + 1]
      /\ (out' = <<>> <=> Len(out) = 1)
  BY <1>0, <1>2, SendFirst
<1>5. /\ current.of \in Nat /\ session \in Nat /\ Len(got) \in Nat
      /\ \A i \in 1..d : down[i].of \in Nat /\ down[i].of <= current.of
      /\ current.of <= session
  BY <1>0, <1>1, Numbers DEF FramesInOrder
<1>6. LeftoversAreAbandoned'
  <2>1. \A i \in 1..Len(up') : \E j \in 1..Len(up) : up'[i].of = up[j].of
    BY <1>2
  <2>2. \A i \in 1..Len(down') : \/ \E j \in 1..Len(down) : down'[i].of = down[j].of
                                 \/ /\ spc \in {"cancel", "ack", "sending"}
                                    /\ down'[i].of = current.of
    BY <1>1, <1>2, <1>3
  <2> QED
    BY <1>2, <2>1, <2>2, LeftoversServer DEF EchoInv
<1>7. OneFrameYet'
  <2> SUFFICES ASSUME cpc = "ack" PROVE OneFrameYet'
    BY <1>2 DEF OneFrameYet
  <2>1. /\ \A i \in 1..Len(up) : up[i].of = session => i = Len(up)
        /\ current.of # session
    BY <1>2 DEF EchoInv, OneFrameYet
  <2>2. \A i \in 1..(d + 1) : down'[i].of # session
    BY <1>3, <1>5, <2>1
  <2> QED
    BY <1>2, <1>3, <2>1, <2>2 DEF OneFrameYet
<1>8. OneSessionOnly'
  <2> SUFFICES ASSUME cpc \in {"open", "tail"} PROVE OneSessionOnly'
    BY <1>2 DEF OneSessionOnly
  <2>1. /\ current.of = session /\ \A i \in 1..d : down[i].of = session
        /\ \A i \in 1..Len(up) : up[i].type = "STREAM_END" => i = Len(up)
        /\ (\E i \in 1..Len(out) : out[i][1] = "STREAM_END") => up = <<>>
        /\ \A i \in 1..d : down[i].type # "STREAM_END"
    BY <1>1, <1>2 DEF EchoInv, OneSessionOnly
  <2>2. \A i \in 1..(d + 1) : down'[i].of = session
    BY <1>3, <2>1
  <2>3. (\E i \in 1..Len(out') : out'[i][1] = "STREAM_END") => up = <<>>
    <3> SUFFICES ASSUME NEW i \in 1..Len(out'), out'[i][1] = "STREAM_END" PROVE up = <<>>
      OBVIOUS
    <3>1. i + 1 \in 1..Len(out) /\ out[i + 1][1] = "STREAM_END"
      BY <1>4
    <3> QED
      BY <2>1, <3>1
  <2>4. ASSUME NEW i \in 1..(d + 1), down'[i].type = "STREAM_END"
        PROVE  i = d + 1 /\ up = <<>> /\ spc' \in {"reading", "closed"}
    <3>1. i = d + 1 /\ out[1][1] = "STREAM_END"
      BY <1>3, <2>1, <2>4
    <3>2. 1 \in 1..Len(out)
      BY <1>4
    <3>3. 1 = Len(out) /\ returning
      BY <1>0, <3>1, <3>2, Zenon DEF HandlersTurn
    <3> QED
      BY <1>2, <1>4, <2>1, <3>1, <3>2, <3>3
  <2> QED
    BY <1>2, <1>3, <2>1, <2>2, <2>3, <2>4 DEF OneSessionOnly
<1>9. DataInOrder'
  <2> SUFFICES ASSUME cpc = "open" PROVE DataInOrder'
    BY <1>2 DEF DataInOrder
  <2>1. PICK g \in Nat : g = Len(got)
    BY <1>5
  <2>2. ~returning /\ Len(out) = 1 /\ out[1][1] = "STREAM_DATA" /\ HandlerOpen /\ InHand = 1
    BY <1>2 DEF EchoInv, DataInOrder, HandlerOpen, InHand
  <2>3. /\ OnlyData(up, Len(up))
        /\ \A i \in 1..d : down[i].type # "STREAM_END"
        /\ \A k \in 1..d : OnlyData(down, k) => down[k].n = g + k
        /\ OnlyData(down, d) =>
              /\ sentFrames = g + d + 1 + Len(up)
              /\ out[1][3] = g + d + 1
              /\ \A k \in 1..Len(up) : up[k].n = g + d + 1 + k
    BY <1>1, <1>2, <2>1, <2>2 DEF EchoInv, DataInOrder
  <2>4. spc' = "handler" /\ InHand' = 0
    BY <1>2, <1>4, <2>2 DEF InHand
  <2>5. ASSUME NEW k \in 1..(d + 1), OnlyData(down', k) PROVE down'[k].n = g + k
    <3>1. CASE k \in 1..d
      <4>1. OnlyData(down, k)
        BY <1>3, <2>5, <3>1 DEF OnlyData
      <4> QED
        BY <1>3, <2>3, <3>1, <4>1
    <3>2. CASE k = d + 1
      <4>1. OnlyData(down, d)
        BY <1>3, <2>5, <3>2 DEF OnlyData
      <4> QED
        BY <1>3, <2>3, <3>2, <4>1
    <3> QED
      BY <3>1, <3>2
  <2>6. ASSUME OnlyData(down', d + 1)
        PROVE  /\ sentFrames = g + (d + 1) + 0 + Len(up)
               /\ \A k \in 1..Len(up) : up[k].n = g + (d + 1) + 0 + k
    <3>1. OnlyData(down, d)
      BY <1>3, <2>6 DEF OnlyData
    <3>2. g + (d + 1) + 0 = g + d + 1
      OBVIOUS
    <3> QED
      BY <2>3, <3>1, <3>2
  <2>7. \A i \in 1..(d + 1) : down'[i].type # "STREAM_END"
    BY <1>3, <2>2, <2>3
  <2> QED
    BY <1>2, <1>3, <2>1, <2>3, <2>4, <2>5, <2>6, <2>7 DEF DataInOrder
<1>10. Echoes'
  BY <1>2 DEF EchoInv, Echoes
<1> QED
  BY <1>6, <1>7, <1>8, <1>9, <1>10 DEF EchoInv

\* The server gives up a handler or the connection, or is stopped.
LEMMA EchoServerEnds ==
    ASSUME OrderInv, EchoInv, HandlerReturn \/ ConnectionFail \/ Stop
    PROVE  EchoInv'
<1>1. /\ UNCHANGED <<cpc, session, got, abandoned, sentFrames, up, down, current, returning>>
      /\ (spc' = spc /\ out' = out) \/ spc' \in {"reading", "closed"}
  BY DEF HandlerReturn, ConnectionFail, Stop, Loop, clientVars
<1>2. LeftoversAreAbandoned'
  BY <1>1 DEF EchoInv, LeftoversAreAbandoned, LeftBehind
<1>3. OneFrameYet'
  BY <1>1 DEF EchoInv, OneFrameYet
<1>4. OneSessionOnly'
  BY <1>1 DEF EchoInv, OneSessionOnly
<1>5. DataInOrder'
  <2>1. CASE spc' = spc /\ out' = out
    BY <1>1, <2>1 DEF EchoInv, DataInOrder, HandlerOpen, InHand, OnlyData
  <2>2. CASE spc' \in {"reading", "closed"}
    <3>1. ~HandlerOpen'
      BY <2>2 DEF HandlerOpen
    <3> QED
      BY <1>1, <2>2, <3>1 DEF EchoInv, DataInOrder, OnlyData
  <2> QED
    BY <1>1, <2>1, <2>2
<1>6. Echoes'
  BY <1>1 DEF EchoInv, Echoes
<1> QED
  BY <1>2, <1>3, <1>4, <1>5, <1>6 DEF EchoInv

\* Every step keeps it while stream ids last.
LEMMA EchoStep ==
    ASSUME OrderInv, abandoned < IdSpace => EchoInv, [Next]_vars
    PROVE  (abandoned < IdSpace => EchoInv)'
<1> SUFFICES ASSUME abandoned' < IdSpace PROVE EchoInv'
  OBVIOUS
<1>0. TypeOK /\ ClientState /\ FramesInOrder /\ InitsComeFirst /\ HandlersTurn
  BY DEF OrderInv
<1>1. abandoned \in Nat /\ (abandoned' = abandoned \/ abandoned' = abandoned + 1)
  <2>1. CASE Client
    BY <1>0, <2>1, Numbers
       DEF Client, sendInit, ReadAck, sendData, ReadEcho, sendEnd, ReadTail, sendCancel,
           ClientFail, CloseClient
  <2>2. CASE Server \/ Stop
    BY <1>0, <2>2, Numbers, ServerSends DEF clientVars
  <2>3. CASE UNCHANGED vars
    BY <1>0, <2>3, Numbers DEF vars, clientVars
  <2> QED
    BY <2>1, <2>2, <2>3 DEF Next
<1>2. abandoned < IdSpace /\ EchoInv
  BY <1>1, SessionAssumption
<1>3. CASE Client
  <2>1. ASSUME NEW r \in Routes, sendInit(r) PROVE EchoInv'
    BY <1>2, <2>1, EchoSendInit
  <2>2. CASE ReadAck
    BY <1>2, <2>2, EchoReadAck
  <2>3. CASE sendData
    BY <1>2, <2>3, EchoSendData
  <2>4. CASE ReadEcho
    BY <1>2, <2>4, EchoReadEcho
  <2>5. CASE sendEnd \/ sendCancel
    BY <1>2, <2>5, EchoClosingFrame
  <2>6. CASE ReadTail
    BY <1>2, <2>6, EchoReadTail
  <2>7. CASE ClientFail \/ CloseClient
    BY <1>2, <2>7, EchoClosed DEF ClientFail, CloseClient, Leave, EchoInv
  <2> QED
    BY <1>3, <2>1, <2>2, <2>3, <2>4, <2>5, <2>6, <2>7 DEF Client
<1>4. CASE Server \/ Stop
  <2>1. CASE ReadFirst
    BY <1>2, <2>1, EchoReadFirst
  <2>2. CASE CancelStream \/ sendInitAck
    BY <1>2, <2>2, EchoAnswer
  <2>3. CASE HandlerRead
    BY <1>2, <2>3, EchoHandlerRead
  <2>4. CASE HandlerSend
    BY <1>2, <2>4, EchoHandlerSend
  <2>5. CASE HandlerReturn \/ ConnectionFail \/ Stop
    BY <1>2, <2>5, EchoServerEnds
  <2> QED
    BY <1>4, <2>1, <2>2, <2>3, <2>4, <2>5 DEF Server
<1>5. CASE UNCHANGED vars
  <2>1. UNCHANGED <<cpc, session, got, abandoned, sentFrames, up, down, current, returning, spc, out>>
    BY <1>5 DEF vars, clientVars, serverVars
  <2>2. LeftoversAreAbandoned' /\ OneFrameYet' /\ OneSessionOnly' /\ Echoes'
    BY <1>2, <2>1 DEF EchoInv, LeftoversAreAbandoned, LeftBehind, OneFrameYet, OneSessionOnly, Echoes
  <2>3. DataInOrder'
    BY <1>2, <2>1 DEF EchoInv, DataInOrder, HandlerOpen, InHand, OnlyData
  <2> QED
    BY <2>2, <2>3 DEF EchoInv
<1> QED
  BY <1>3, <1>4, <1>5 DEF Next

\* A fresh connection has nothing on it.
LEMMA EchoInit == Init => EchoInv
<1> SUFFICES ASSUME Init PROVE EchoInv
  OBVIOUS
<1>1. /\ up = <<>> /\ down = <<>> /\ got = <<>> /\ Len(<<>>) = 0 /\ spc = "reading" /\ cpc = "idle"
  BY DEF Init
<1> QED
  BY <1>1 DEF EchoInv, LeftoversAreAbandoned, OneFrameYet, OneSessionOnly, DataInOrder, Echoes

\* The echo invariant holds throughout.
LEMMA Echoing == Spec => [](OrderInv /\ (abandoned < IdSpace => EchoInv))
<1>1. Init => OrderInv /\ (abandoned < IdSpace => EchoInv)
  BY OrderInit, EchoInit
<1>2. OrderInv /\ (abandoned < IdSpace => EchoInv) /\ [Next]_vars
        => (OrderInv /\ (abandoned < IdSpace => EchoInv))'
  BY OrderStep, EchoStep
<1> QED
  BY <1>1, <1>2, PTL DEF Spec

\* The echoes a client takes are the data of its own session in order, however
\* many sessions it gave up with frames on their way, as long as they are fewer
\* than the stream ids.
THEOREM SessionOwnEchoes == Spec => []OwnEchoes
<1>1. (abandoned < IdSpace => EchoInv) => OwnEchoes
  BY DEF EchoInv, Echoes, OwnEchoes
<1> QED
  BY Echoing, <1>1, PTL

-----------------------------------------------------------------------------
(* The promise of RpcStreamSpec.                                             *)

\* The numbers of the data that came back, as the refinement counts them.
Numbered(g, a, s) == [i \in 1..Len(g) |-> IF a >= IdSpace THEN i
                                           ELSE IF g[i].of = s THEN g[i].n ELSE 0]
Count(n) == [i \in 1..n |-> i]

\* The echoes of the own session are numbered from 1 on.
LEMMA NumberedIs ==
    ASSUME NEW S, NEW g \in Seq(S), NEW a \in Nat, NEW s,
           a < IdSpace => \A i \in 1..Len(g) : g[i] = [of |-> s, n |-> i]
    PROVE  Numbered(g, a, s) = Count(Len(g))
<1>1. Len(g) \in Nat /\ IdSpace \in Nat
  BY SessionAssumption
<1>2. CASE a >= IdSpace
  BY <1>2 DEF Numbered, Count
<1>3. CASE ~(a >= IdSpace)
  <2>1. ASSUME NEW i \in 1..Len(g) PROVE g[i].of = s /\ g[i].n = i
    <3>1. g[i] = [of |-> s, n |-> i]
      BY <1>1, <1>3
    <3> QED
      BY <3>1
  <2>2. \A i \in 1..Len(g) : (IF g[i].of = s THEN g[i].n ELSE 0) = i
    BY <2>1
  <2>3. Numbered(g, a, s) = [i \in 1..Len(g) |-> IF g[i].of = s THEN g[i].n ELSE 0]
    BY <1>3, Zenon DEF Numbered
  <2> QED
    BY <2>2, <2>3 DEF Count
<1> QED
  BY <1>2, <1>3

\* One more.
LEMMA CountOn ==
    ASSUME NEW n \in Nat
    PROVE  /\ Count(n) \in Seq(Nat) /\ Len(Count(n)) = n
           /\ Count(n + 1) = Append(Count(n), n + 1)
<1>1. Count(n) \in Seq(Nat) /\ Len(Count(n)) = n
  BY DEF Count
<1>2. Count(n + 1) = Append(Count(n), n + 1)
  BY DEF Count
<1> QED
  BY <1>1, <1>2

\* How a session stands for its owner.
Status == IF session = 0 \/ ending = "finished" THEN "finished"
          ELSE IF cpc \in {"ack", "open", "tail"} THEN "open" ELSE "dropped"
Heard == Numbered(got, abandoned, session)

\* The steps of RpcStreamSpec, in terms of the session's variables.
LEMMA PromiseSteps ==
    /\ (/\ Status \in {"finished", "dropped"} /\ session' = session + 1 /\ Status' = "open"
        /\ sentFrames' = 0 /\ Heard' = <<>>) => Promise!Next
    /\ (/\ Status = "open" /\ sentFrames' = sentFrames + 1
        /\ UNCHANGED <<session, Status, Heard>>) => Promise!Next
    /\ (/\ Status = "open" /\ Len(Heard) < sentFrames /\ Heard' = Append(Heard, Len(Heard) + 1)
        /\ UNCHANGED <<session, Status, sentFrames>>) => Promise!Next
    /\ (/\ Status = "open" /\ Len(Heard) = sentFrames /\ Status' = "finished"
        /\ UNCHANGED <<session, sentFrames, Heard>>) => Promise!Next
    /\ (/\ Status = "open" /\ Status' = "dropped"
        /\ UNCHANGED <<session, sentFrames, Heard>>) => Promise!Next
    /\ UNCHANGED <<session, Status, sentFrames, Heard>> => UNCHANGED Promise!vars
  BY DEF Promise!Next, Promise!Open, Promise!Say, Promise!Hear, Promise!Finish, Promise!Drop,
         Promise!vars, Status, Heard, Numbered

\* What the owner has heard, before and after a step.
LEMMA HeardIs ==
    ASSUME TypeOK, TypeOK', OwnEchoes, OwnEchoes'
    PROVE  /\ Heard = Count(Len(got)) /\ Heard' = Count(Len(got')) /\ Len(got) \in Nat
           /\ Len(got') \in Nat /\ Len(Heard) = Len(got)
<1>1. /\ got \in Seq([of : 0..MaxSessions, n : 0..FramesPerStream]) /\ abandoned \in Nat
      /\ got' \in Seq([of : 0..MaxSessions, n : 0..FramesPerStream]) /\ abandoned' \in Nat
  BY SessionAssumption DEF TypeOK
<1>2. Heard = Count(Len(got))
  BY <1>1, NumberedIs DEF OwnEchoes, Heard
<1>3. Heard' = Count(Len(got'))
  BY <1>1, NumberedIs DEF OwnEchoes, Heard
<1>4. Len(got) \in Nat /\ Len(got') \in Nat
  BY <1>1
<1> QED
  BY <1>2, <1>3, <1>4, CountOn

\* Every step is one of RpcStreamSpec, or one its owner does not see.
LEMMA PromiseStep ==
    ASSUME OrderInv, OrderInv', OwnEchoes, OwnEchoes', [Next]_vars
    PROVE  Promise!Next \/ UNCHANGED Promise!vars
<1>0. TypeOK /\ TypeOK' /\ ClientState /\ FramesInOrder /\ InitsComeFirst /\ HandlersTurn
  BY DEF OrderInv
<1>1. /\ Heard = Count(Len(got)) /\ Heard' = Count(Len(got')) /\ Len(got) \in Nat
      /\ Len(Heard) = Len(got)
  BY <1>0, HeardIs
<1>2. session \in Nat /\ sentFrames \in Nat
  BY <1>0, Numbers
<1>3. cpc \in {"ack", "open", "tail"} => Status = "open" /\ session # 0 /\ ending = "none"
  BY <1>0, <1>2 DEF ClientState, Status
<1>4. UNCHANGED got => Heard' = Heard
  BY <1>1
<1>5. ASSUME NEW why \in {"refused", "failed"}, Leave(why), cpc \in {"ack", "open", "tail"},
             UNCHANGED <<session, sentFrames, got>>
      PROVE  Promise!Next
  <2>1. Status = "open" /\ Status' = "dropped"
    BY <1>3, <1>5 DEF Leave, Status
  <2> QED
    BY <1>4, <1>5, <2>1, PromiseSteps
<1>6. ASSUME NEW r \in Routes, sendInit(r) PROVE Promise!Next
  <2>1. session' = session + 1 /\ sentFrames' = 0 /\ cpc' = "ack" /\ ending' = "none" /\ cpc = "idle"
        /\ got' = <<>>
    BY <1>6 DEF sendInit
  <2>2. Status \in {"finished", "dropped"} /\ Status' = "open"
    BY <1>2, <2>1 DEF Status
  <2>3. Heard' = <<>>
    <3>1. Len(<<>>) = 0 /\ Count(0) = <<>>
      BY DEF Count
    <3> QED
      BY <1>1, <2>1, <3>1
  <2> QED
    BY <2>1, <2>2, <2>3, PromiseSteps
<1>7. CASE ReadAck
  <2>1. CASE cpc' = "open" /\ ending' = ending
    <3>1. cpc = "ack" /\ UNCHANGED <<session, sentFrames, got>>
      BY <1>7 DEF ReadAck
    <3>2. Status' = Status
      BY <2>1, <3>1 DEF Status
    <3> QED
      BY <1>4, <3>1, <3>2, PromiseSteps
  <2>2. CASE Leave("refused")
    BY <1>5, <1>7, <2>2 DEF ReadAck
  <2> QED
    BY <1>7, <2>1, <2>2 DEF ReadAck
<1>8. CASE sendData
  <2>1. /\ cpc = "open" /\ sentFrames' = sentFrames + 1
        /\ UNCHANGED <<session, cpc, got, ending>>
    BY <1>8 DEF sendData
  <2>2. Status = "open" /\ Status' = Status
    BY <1>3, <2>1 DEF Status
  <2> QED
    BY <1>4, <2>1, <2>2, PromiseSteps
<1>9. CASE ReadEcho
  <2>1. CASE Leave("refused") /\ UNCHANGED got
    BY <1>5, <1>9, <2>1 DEF ReadEcho
  <2>2. CASE UNCHANGED <<cpc, ending>> /\ \E e : got' = Append(got, e)
    <3>1. cpc = "open" /\ Len(got) < sentFrames /\ UNCHANGED <<session, sentFrames>>
      BY <1>9 DEF ReadEcho
    <3>2. Status = "open" /\ Status' = Status
      BY <1>3, <2>2, <3>1 DEF Status
    <3>3. Len(got') = Len(got) + 1
      <4>1. PICK e : got' = Append(got, e)
        BY <2>2
      <4>2. got \in Seq([of : 0..MaxSessions, n : 0..FramesPerStream])
        BY <1>0 DEF TypeOK
      <4> QED
        BY <4>1, <4>2
    <3>4. Heard' = Append(Heard, Len(Heard) + 1)
      BY <1>1, <3>3, CountOn
    <3> QED
      BY <1>1, <3>1, <3>2, <3>4, PromiseSteps
  <2> QED
    BY <1>9, <2>1, <2>2 DEF ReadEcho
<1>10. CASE sendEnd
  <2>1. cpc = "open" /\ cpc' = "tail" /\ UNCHANGED <<session, sentFrames, got, ending>>
    BY <1>10 DEF sendEnd
  <2>2. Status' = Status
    BY <2>1 DEF Status
  <2> QED
    BY <1>4, <2>1, <2>2, PromiseSteps
<1>11. CASE ReadTail
  <2>0. cpc = "tail" /\ UNCHANGED <<session, sentFrames, got>>
    BY <1>11 DEF ReadTail
  <2>1. CASE cpc' = "idle" /\ ending' = "finished"
    <3>1. Status = "open" /\ Status' = "finished" /\ Len(got) = sentFrames
      BY <1>0, <1>3, <2>0, <2>1 DEF Status, ClientState
    <3> QED
      BY <1>1, <1>4, <2>0, <3>1, PromiseSteps
  <2>2. CASE Leave("refused")
    BY <1>5, <2>0, <2>2
  <2>3. CASE UNCHANGED <<cpc, ending>>
    <3>1. Status' = Status
      BY <2>0, <2>3 DEF Status
    <3> QED
      BY <1>4, <2>0, <3>1, PromiseSteps
  <2> QED
    BY <1>11, <2>1, <2>2, <2>3 DEF ReadTail
<1>12. CASE sendCancel
  <2>1. /\ cpc \in {"ack", "open", "tail"} /\ cpc' = "idle" /\ ending' = "cancelled"
        /\ UNCHANGED <<session, sentFrames, got>>
    BY <1>12 DEF sendCancel
  <2>2. Status = "open" /\ Status' = "dropped"
    BY <1>3, <2>1 DEF Status
  <2> QED
    BY <1>4, <2>1, <2>2, PromiseSteps
<1>13. CASE ClientFail
  BY <1>5, <1>13 DEF ClientFail
<1>14. CASE CloseClient \/ Server \/ Stop \/ UNCHANGED vars
  <2>1. UNCHANGED <<session, sentFrames, got, ending>> /\ Status' = Status
    <3>1. CASE CloseClient
      BY <3>1 DEF CloseClient, Status
    <3>2. CASE Server \/ Stop
      BY <1>0, <3>2, ServerSends DEF clientVars, Status
    <3>3. CASE UNCHANGED vars
      BY <3>3 DEF vars, clientVars, Status
    <3> QED
      BY <1>14, <3>1, <3>2, <3>3
  <2> QED
    BY <1>4, <2>1, PromiseSteps
<1> QED
  BY <1>6, <1>7, <1>8, <1>9, <1>10, <1>11, <1>12, <1>13, <1>14 DEF Next, Client

\* The stream client, the connection coroutine and the handler together keep the
\* promise made to the owner of a stream: sessions one after the other, their own
\* data in order, and a session finished only with all of its data.
THEOREM SessionKeepsPromise == Spec => KeepsStreamPromise
<1>1. Init => Promise!Init
  <2> SUFFICES ASSUME Init PROVE Promise!Init
    OBVIOUS
  <2>1. session = 0 /\ got = <<>> /\ Len(got) = 0 /\ sentFrames = 0
    BY DEF Init
  <2> QED
    BY <2>1 DEF Promise!Init
<1>2. OrderInv /\ OrderInv' /\ OwnEchoes /\ OwnEchoes' /\ [Next]_vars
         => [Promise!Next]_(Promise!vars)
  BY PromiseStep
<1> QED
  BY <1>1, <1>2, Ordered, SessionOwnEchoes, PTL DEF Spec, KeepsStreamPromise, Promise!Spec

-----------------------------------------------------------------------------
(* Clean sessions and refusals.                                              *)

\* Nothing was given up or cut short so far, and the server knows the route.
Clean == route = "known" /\ abandoned = 0 /\ ~cutShort

\* What CleanSession says of a session that waits for its acknowledgement, that
\* is open, and that waits for the server's end.
CleanAck ==
    /\ \A i \in 1..Len(down) : down[i].type = "STREAM_INIT_ACK"
    /\ IF up = <<>> THEN spc \in {"ack", "handler"} \/ (spc = "closed" /\ down = <<>>)
       ELSE spc \in {"reading", "closed"} /\ up[Len(up)].type = "STREAM_INIT"
                                          /\ up[Len(up)].route = "known"
CleanOpen == spc \in {"handler", "sending"} /\ OnlyData(down, Len(down))
CleanTail ==
    /\ \A i \in 1..Len(down) : down[i].type \in {"STREAM_DATA", "STREAM_END"}
    /\ up # <<>> => spc = "handler" /\ up[Len(up)].type = "STREAM_END" /\ Len(up) = 1
    /\ spc # "cancel"
    /\ spc = "sending" => \A i \in 1..Len(out) : out[i][1] # "STREAM_CANCEL"

CleanParts ==
    (cpc = "ack" => CleanAck) /\ (cpc = "open" => CleanOpen) /\ (cpc = "tail" => CleanTail)

\* The three parts are what CleanSession is made of.
LEMMA CleanIs ==
    /\ CleanSession <=> (Clean => CleanParts)
    /\ CleanSession' <=> (Clean => CleanParts)'
<1>1. CleanSession <=> (Clean => CleanParts)
  BY DEF CleanSession, Clean, CleanParts, CleanAck, CleanOpen, CleanTail
<1>2. CleanSession' <=> (Clean => CleanParts)'
  BY DEF CleanSession, Clean, CleanParts, CleanAck, CleanOpen, CleanTail
<1> QED
  BY <1>1, <1>2

\* Everything on a clean connection is of the session the client waits in.
LEMMA CleanOwn ==
    ASSUME OrderInv, EchoInv, abandoned = 0, cpc \in {"ack", "open", "tail"}
    PROVE  /\ \A i \in 1..Len(up) : up[i].of = session
           /\ \A i \in 1..Len(down) :
                 down[i].of = session /\ current.of = session /\ down[i].id = Id(session)
           /\ spc \in {"cancel", "ack", "sending"} => current.of = session
<1>1. TypeOK /\ FramesInOrder
  BY DEF OrderInv
<1>2. /\ session \in Nat /\ current.of \in Nat
      /\ \A i \in 1..Len(up) : up[i].of \in Nat
      /\ \A i \in 1..Len(down) : down[i].of \in Nat
  BY <1>1, Numbers
<1>3. /\ \A i \in 1..Len(up) : up[i].of + 0 >= session
      /\ \A i \in 1..Len(down) : down[i].of + 0 >= session
      /\ spc \in {"cancel", "ack", "sending"} => current.of + 0 >= session
  BY DEF EchoInv, LeftoversAreAbandoned, LeftBehind
<1>4. /\ current.of <= session
      /\ \A i \in 1..Len(up) : up[i].of <= session
      /\ \A i \in 1..Len(down) : down[i].of <= current.of /\ down[i].id = Id(down[i].of)
  BY <1>1, <1>2 DEF FramesInOrder
<1>5. \A i \in 1..Len(up) : up[i].of = session
  BY <1>2, <1>3, <1>4
<1>6. \A i \in 1..Len(down) : down[i].of = session /\ current.of = session
  BY <1>2, <1>3, <1>4
<1>7. \A i \in 1..Len(down) : down[i].id = Id(session)
  BY <1>4, <1>6
<1>8. spc \in {"cancel", "ack", "sending"} => current.of = session
  BY <1>2, <1>3, <1>4
<1> QED
  BY <1>5, <1>6, <1>7, <1>8

\* A queue without frames is the empty one.
LEMMA NoFrames ==
    ASSUME TypeOK
    PROVE  /\ Len(up) = 0 <=> up = <<>>
           /\ Len(down) = 0 <=> down = <<>>
  BY Numbers, EmptySeq DEF TypeOK

\* Between two sessions a clean connection is empty and its server waits.
LEMMA CleanIdle ==
    ASSUME OrderInv, EchoInv, abandoned = 0, cpc = "idle"
    PROVE  up = <<>> /\ down = <<>> /\ spc \in {"reading", "closed"}
<1>1. TypeOK /\ FramesInOrder /\ InitsComeFirst
  BY DEF OrderInv
<1>2. /\ session \in Nat /\ current.of \in Nat /\ Len(up) \in Nat /\ Len(down) \in Nat
      /\ \A i \in 1..Len(up) : up[i].of \in Nat /\ up[i].of <= session
      /\ \A i \in 1..Len(down) : down[i].of \in Nat /\ down[i].of <= current.of
      /\ current.of <= session
  BY <1>1, Numbers DEF FramesInOrder
<1>3. /\ \A i \in 1..Len(up) : up[i].of + 0 >= session + 1
      /\ \A i \in 1..Len(down) : down[i].of + 0 >= session + 1
      /\ spc \in {"cancel", "ack", "sending"} => current.of + 0 >= session + 1
  BY DEF EchoInv, LeftoversAreAbandoned, LeftBehind
<1>4. \A i \in 1..Len(up) : FALSE
  BY <1>2, <1>3
<1>5. \A i \in 1..Len(down) : FALSE
  BY <1>2, <1>3
<1>6. Len(up) = 0 /\ Len(down) = 0
  BY <1>2, <1>4, <1>5
<1>7. up = <<>> /\ down = <<>>
  BY <1>1, <1>6, NoFrames
<1>8. spc \notin {"cancel", "ack", "sending"}
  BY <1>2, <1>3
<1>9. spc # "handler"
  BY <1>1, <1>7 DEF InitsComeFirst, HandlerOpen
<1> QED
  BY <1>1, <1>7, <1>8, <1>9 DEF TypeOK

\* What a frame of the client does to a clean connection.
LEMMA CleanPut ==
    ASSUME OrderInv, EchoInv, Clean => CleanParts, abandoned = 0,
           (\E r \in Routes : sendInit(r)) \/ sendData \/ sendEnd
    PROVE  (Clean => CleanParts)' /\ ending' # "refused"
<1> SUFFICES ASSUME Clean' PROVE CleanParts' /\ ending' # "refused"
  <2>1. ending' # "refused"
    <3>1. cpc = "open" => ending = "none"
      BY DEF OrderInv, ClientState
    <3> QED
      BY <3>1 DEF sendInit, sendData, sendEnd
  <2> QED
    BY <2>1
<1>0. TypeOK /\ ClientState
  BY DEF OrderInv
<1>1. PICK n \in Nat : n = Len(up)
  BY <1>0, Numbers
<1>2. ASSUME NEW r \in Routes, sendInit(r) PROVE CleanParts' /\ ending' # "refused"
  <2>1. /\ session' \in 0..MaxSessions /\ "STREAM_INIT" \in FrameTypes /\ 0 \in 0..FramesPerStream
        /\ r \in Routes \cup {"none"}
    BY <1>0, <1>2, SessionAssumption DEF sendInit, TypeOK, FrameTypes
  <2>2. /\ Len(up') = n + 1 /\ up' # <<>> /\ up'[n + 1].type = "STREAM_INIT"
        /\ up'[n + 1].route = r
    BY <1>0, <1>1, <1>2, <2>1, PutSays DEF Said, sendInit
  <2>3. /\ cpc = "idle" /\ cpc' = "ack" /\ route' = r /\ ending' = "none"
        /\ UNCHANGED <<down, spc>>
    BY <1>2 DEF sendInit, serverVars
  <2>4. down = <<>> /\ spc \in {"reading", "closed"} /\ Len(<<>>) = 0
    BY <2>3, CleanIdle
  <2>5. route' = "known"
    BY DEF Clean
  <2> QED
    BY <2>2, <2>3, <2>4, <2>5 DEF CleanParts, CleanAck
<1>3. CASE sendData
  <2>1. cpc = "open" /\ cpc' = "open" /\ UNCHANGED <<route, abandoned, cutShort, down, spc, ending>>
    BY <1>3 DEF sendData, serverVars
  <2>2. CleanOpen
    BY <2>1 DEF Clean, CleanParts
  <2>3. ending = "none"
    BY <1>0, <2>1 DEF ClientState
  <2> QED
    BY <2>1, <2>2, <2>3 DEF CleanParts, CleanOpen, OnlyData
<1>4. CASE sendEnd
  <2>1. /\ cpc = "open" /\ cpc' = "tail" /\ Len(got) = FramesPerStream
        /\ UNCHANGED <<route, abandoned, cutShort, down, spc, ending, session>>
    BY <1>4 DEF sendEnd, serverVars
  <2>2. CleanOpen
    BY <2>1 DEF Clean, CleanParts
  <2>3. /\ Len(got) \in Nat /\ Len(down) \in Nat /\ sentFrames \in Nat /\ Len(got) = sentFrames
        /\ InHand \in Nat /\ (spc = "sending" => InHand = 1)
    BY <1>0, <2>1, Numbers, SessionAssumption DEF TypeOK, InHand
  <2>4. sentFrames = Len(got) + Len(down) + InHand + n
    <3>1. HandlerOpen /\ OnlyData(down, Len(down))
      BY <2>1, <2>2 DEF CleanOpen, HandlerOpen, EchoInv, DataInOrder
    <3> QED
      BY <1>1, <2>1, <3>1 DEF EchoInv, DataInOrder
  <2>5. n = 0 /\ Len(down) = 0 /\ InHand = 0
    BY <2>3, <2>4
  <2>6. spc = "handler"
    BY <2>2, <2>3, <2>5 DEF CleanOpen
  <2>7. /\ session' \in 0..MaxSessions /\ "STREAM_END" \in FrameTypes /\ 0 \in 0..FramesPerStream
        /\ "none" \in Routes \cup {"none"}
    BY <1>0, <2>1, SessionAssumption DEF TypeOK, FrameTypes
  <2>8. Len(up') = n + 1 /\ up'[n + 1].type = "STREAM_END"
    BY <1>0, <1>1, <1>4, <2>7, PutSays DEF Said, sendEnd
  <2>9. ending = "none"
    BY <1>0, <2>1 DEF ClientState
  <2> QED
    BY <2>1, <2>5, <2>6, <2>8, <2>9 DEF CleanParts, CleanTail
<1> QED
  BY <1>2, <1>3, <1>4

\* On a clean connection the client finds what it waits for.
LEMMA CleanTake ==
    ASSUME OrderInv, EchoInv, Clean, CleanParts, ReadAck \/ ReadEcho \/ ReadTail
    PROVE  CleanParts' /\ ending' # "refused"
<1>0. TypeOK /\ ClientState
  BY DEF OrderInv
<1>1. /\ down # <<>> /\ down' = Tail(down) /\ UNCHANGED <<up, spc, out>>
      /\ cpc \in {"ack", "open", "tail"} /\ ending = "none"
  <2>1. down # <<>> /\ down' = Tail(down) /\ UNCHANGED <<up, spc, out>> /\ cpc \in {"ack", "open", "tail"}
    BY DEF ReadAck, ReadEcho, ReadTail, serverVars
  <2> QED
    BY <1>0, <2>1 DEF ClientState
<1>2. PICK d \in Nat : d = Len(down) /\ d >= 1
  BY <1>0, <1>1, Numbers
<1>3. /\ Head(down) = down[1] /\ 1 \in 1..d /\ Len(down') = d - 1 /\ (down' = <<>> <=> d = 1)
      /\ \A i \in 1..(d - 1) : down'[i] = down[i + 1] /\ i + 1 \in 1..d
  BY <1>0, <1>1, <1>2, TakeDown
<1>4. down[1].of = session /\ current.of = session /\ down[1].id = Id(session)
  BY <1>1, <1>2, <1>3, CleanOwn DEF Clean
<1>5. CASE ReadAck
  <2>1. cpc = "ack" /\ CleanAck
    BY <1>5 DEF ReadAck, CleanParts
  <2>2. down[1].type = "STREAM_INIT_ACK"
    BY <1>2, <1>3, <2>1 DEF CleanAck
  <2>3. cpc' = "open" /\ ending' = ending
    BY <1>3, <1>4, <1>5, <2>2 DEF ReadAck, Own
  <2>4. up = <<>> /\ d = 1 /\ spc \in {"handler", "reading", "closed"}
    BY <1>2, <1>3, <1>4, <2>1 DEF EchoInv, OneFrameYet
  <2>5. spc = "handler"
    BY <1>1, <2>1, <2>4 DEF CleanAck
  <2> QED
    BY <1>1, <1>3, <2>3, <2>4, <2>5 DEF CleanParts, CleanOpen, OnlyData
<1>6. CASE ReadEcho
  <2>1. cpc = "open" /\ CleanOpen
    BY <1>6 DEF ReadEcho, CleanParts
  <2>2. down[1].type = "STREAM_DATA"
    BY <1>2, <1>3, <2>1 DEF CleanOpen, OnlyData
  <2>3. cpc' = "open" /\ ending' = ending
    BY <1>3, <1>4, <1>6, <2>1, <2>2 DEF ReadEcho, Own
  <2>4. OnlyData(down, d)
    BY <1>2, <2>1 DEF CleanOpen
  <2>5. OnlyData(down', d - 1)
    BY <1>3, <2>4 DEF OnlyData
  <2> QED
    BY <1>1, <1>3, <2>1, <2>3, <2>5 DEF CleanParts, CleanOpen
<1>7. CASE ReadTail
  <2>1. cpc = "tail" /\ CleanTail
    BY <1>7 DEF ReadTail, CleanParts
  <2>2. \A i \in 1..d : down[i].type \in {"STREAM_DATA", "STREAM_END"}
    BY <1>2, <2>1 DEF CleanTail
  <2>3. (cpc' = "idle" /\ ending' = "finished") \/ (cpc' = "tail" /\ ending' = ending)
    BY <1>3, <1>7, <2>1, <2>2 DEF ReadTail
  <2>4. \A i \in 1..(d - 1) : down'[i].type \in {"STREAM_DATA", "STREAM_END"}
    BY <1>3, <2>2
  <2>5. CleanTail'
    BY <1>1, <1>3, <2>1, <2>4 DEF CleanTail
  <2> QED
    BY <1>1, <2>3, <2>5 DEF CleanParts
<1> QED
  BY <1>5, <1>6, <1>7

\* On a clean connection the server sends what the client waits for.
LEMMA CleanServer ==
    ASSUME OrderInv, EchoInv, Clean => CleanParts, Server \/ Stop
    PROVE  (Clean => CleanParts)'
<1>0. TypeOK /\ ClientState /\ FramesInOrder /\ InitsComeFirst /\ HandlersTurn
  BY DEF OrderInv
<1>1. UNCHANGED <<cpc, session, route, abandoned, ending>>
  BY <1>0, ServerSends DEF clientVars
<1> SUFFICES ASSUME Clean' PROVE CleanParts'
  OBVIOUS
<1>2. CASE HandlerReturn
  BY <1>2 DEF HandlerReturn, Clean
<1>3. CASE ~HandlerReturn
  <2>1. Clean /\ CleanParts
    BY <1>1, <1>3
       DEF Clean, Server, ReadFirst, CancelStream, sendInitAck, HandlerRead, HandlerSend,
           ConnectionFail, Stop
  <2>2. \A i \in 1..Len(up) : cpc = "ack" => i = Len(up)
    <3>1. cpc = "ack" => \A i \in 1..Len(up) : up[i].of = session
      BY <2>1, CleanOwn DEF Clean
    <3> QED
      BY <3>1 DEF EchoInv, OneFrameYet
  <2>3. cpc = "ack" /\ spc \in {"ack", "cancel"} => down = <<>>
    <3> SUFFICES ASSUME cpc = "ack", spc \in {"ack", "cancel"} PROVE down = <<>>
      OBVIOUS
    <3>1. \A i \in 1..Len(down) : down[i].of = session
      BY <2>1, CleanOwn DEF Clean
    <3>2. \A i \in 1..Len(down) : FALSE
      BY <3>1 DEF EchoInv, OneFrameYet
    <3>3. Len(down) \in Nat
      BY <1>0, Numbers
    <3>4. Len(down) = 0
      BY <3>2, <3>3
    <3> QED
      BY <1>0, <3>4, NoFrames
  <2>4. /\ {"STREAM_CANCEL", "STREAM_INIT_ACK"} \subseteq FrameTypes /\ 0 \in 0..FramesPerStream
        /\ Loop \in {"reading", "closed"} /\ Len(up) \in Nat /\ Len(down) \in Nat
    BY <1>0, Numbers, SessionAssumption DEF FrameTypes, Loop
  <2>5. CASE ReadFirst
    <3>1. spc = "reading" /\ up # <<>> /\ up' = Tail(up) /\ UNCHANGED <<down, out>>
          /\ spc' = AnswerTo(Head(up))
      BY <2>5 DEF ReadFirst
    <3>2. Head(up) = up[1] /\ (up' = <<>> <=> Len(up) = 1) /\ 1 \in 1..Len(up)
      BY <1>0, <2>4, <3>1, TakeUp
    <3>3. cpc # "open" /\ cpc # "tail"
      BY <2>1, <3>1 DEF CleanParts, CleanOpen, CleanTail
    <3>4. ASSUME cpc = "ack" PROVE CleanAck'
      <4>1. 1 = Len(up)
        BY <2>2, <3>2, <3>4
      <4>2. up[1].type = "STREAM_INIT" /\ up[1].route = "known"
            /\ \A i \in 1..Len(down) : down[i].type = "STREAM_INIT_ACK"
        BY <2>1, <3>1, <3>4, <4>1 DEF CleanParts, CleanAck
      <4>3. spc' = "ack" /\ up' = <<>>
        BY <3>1, <3>2, <4>1, <4>2 DEF AnswerTo
      <4> QED
        BY <3>1, <4>2, <4>3 DEF CleanAck
    <3> QED
      BY <1>1, <3>3, <3>4 DEF CleanParts
  <2>6. CASE CancelStream
    <3>1. spc = "cancel"
      BY <2>6 DEF CancelStream
    <3> QED
      BY <1>1, <2>1, <3>1 DEF CleanParts, CleanAck, CleanOpen, CleanTail
  <2>7. CASE sendInitAck
    <3>1. spc = "ack" /\ spc' = "handler" /\ UNCHANGED up /\ Told("STREAM_INIT_ACK", 0)
      BY <1>0, <2>4, <2>7, EmitSays DEF sendInitAck
    <3>2. cpc # "open" /\ cpc # "tail"
      BY <3>1 DEF EchoInv, OneSessionOnly
    <3>3. ASSUME cpc = "ack" PROVE CleanAck'
      <4>1. up = <<>> /\ \A i \in 1..Len(down) : down[i].type = "STREAM_INIT_ACK"
        BY <2>1, <3>1, <3>3 DEF CleanParts, CleanAck
      <4>2. \A i \in 1..Len(down') : i \in 1..Len(down) \/ i = Len(down) + 1
        BY <2>4, <3>1 DEF Told
      <4>3. \A i \in 1..Len(down') : down'[i].type = "STREAM_INIT_ACK"
        BY <3>1, <4>1, <4>2 DEF Told
      <4> QED
        BY <3>1, <4>1, <4>3 DEF CleanAck
    <3> QED
      BY <1>1, <3>2, <3>3 DEF CleanParts
  <2>8. CASE HandlerRead
    <3>1. /\ spc = "handler" /\ up # <<>> /\ up' = Tail(up) /\ UNCHANGED <<down, current>>
          /\ out' = EchoTurn(Head(up)) /\ spc' = (IF out' # <<>> THEN "sending" ELSE Loop)
      BY <2>8 DEF HandlerRead
    <3>2. /\ Head(up) = up[1] /\ (up' = <<>> <=> Len(up) = 1) /\ 1 \in 1..Len(up)
          /\ up[1] \in Frames
      BY <1>0, <2>4, <3>1, TakeUp
    <3>3. up[1].of = current.of
      <4>1. HandlerOpen
        BY <3>1 DEF HandlerOpen
      <4> QED
        BY <1>0, <3>1, <4>1, HandlerFinds
    <3>4. cpc # "ack"
      BY <2>1, <3>1 DEF CleanParts, CleanAck
    <3>5. ASSUME cpc = "open" PROVE CleanOpen'
      <4>1. up[1].type = "STREAM_DATA" /\ OnlyData(down, Len(down))
        BY <2>1, <3>2, <3>5 DEF EchoInv, DataInOrder, OnlyData, CleanParts, CleanOpen
      <4>2. out' = <<<<"STREAM_DATA", current.of, up[1].n>>>>
        BY <1>0, <3>1, <3>2, <3>3, <4>1, EchoTurnIs
      <4>3. out' # <<>>
        BY <4>2
      <4>4. spc' = "sending"
        BY <3>1, <4>3
      <4> QED
        BY <3>1, <4>1, <4>4 DEF CleanOpen, OnlyData
    <3>6. ASSUME cpc = "tail" PROVE CleanTail'
      <4>1. /\ Len(up) = 1 /\ up[1].type = "STREAM_END"
            /\ \A i \in 1..Len(down) : down[i].type \in {"STREAM_DATA", "STREAM_END"}
        BY <2>1, <3>1, <3>6 DEF CleanParts, CleanTail
      <4>2. out' = <<<<"STREAM_DATA", current.of, 0>>, <<"STREAM_END", current.of, 0>>>>
        BY <1>0, <3>1, <3>2, <3>3, <4>1, EchoTurnIs
      <4>3. out' # <<>> /\ \A i \in 1..Len(out') : out'[i][1] # "STREAM_CANCEL"
        BY <4>2
      <4>4. spc' = "sending"
        BY <3>1, <4>3
      <4> QED
        BY <3>1, <3>2, <4>1, <4>3, <4>4 DEF CleanTail
    <3> QED
      BY <1>1, <3>4, <3>5, <3>6 DEF CleanParts
  <2>9. CASE HandlerSend
    <3>1. /\ spc = "sending" /\ UNCHANGED up /\ out' = Tail(out)
          /\ spc' = (IF out' # <<>> THEN "sending" ELSE IF returning THEN Loop ELSE "handler")
      BY <2>9 DEF HandlerSend
    <3>2. /\ Len(out) \in Nat /\ Len(out) >= 1 /\ Len(out') = Len(out) - 1
          /\ (out' = <<>> <=> Len(out) = 1)
          /\ \A i \in 1..(Len(out) - 1) : out'[i] = out[i + 1]
      BY <1>0, <3>1, SendFirst
    <3>3. Told(out[1][1], out[1][3])
      <4>1. /\ Emit(out[1][1], current.of, out[1][3]) /\ out[1][1] \in FrameTypes
            /\ out[1][3] \in 0..FramesPerStream
        BY <1>0, <2>9, <3>1, SendFirst DEF HandlerSend
      <4> QED
        BY <1>0, <4>1, EmitSays
    <3>4. \A i \in 1..Len(down') : i \in 1..Len(down) \/ i = Len(down) + 1
      BY <2>4, <3>3 DEF Told
    <3>5. cpc # "ack"
      BY <2>1, <3>1 DEF CleanParts, CleanAck
    <3>6. ASSUME cpc = "open" PROVE CleanOpen'
      <4>1. ~returning /\ Len(out) = 1 /\ out[1][1] = "STREAM_DATA"
        BY <3>1, <3>6 DEF EchoInv, DataInOrder
      <4>2. \A i \in 1..Len(down) : down[i].type = "STREAM_DATA"
        BY <2>1, <3>6 DEF CleanParts, CleanOpen, OnlyData
      <4>3. \A i \in 1..Len(down') : down'[i].type = "STREAM_DATA"
        BY <3>3, <3>4, <4>1, <4>2 DEF Told
      <4>4. spc' = "handler"
        BY <3>1, <3>2, <4>1
      <4> QED
        BY <4>3, <4>4 DEF CleanOpen, OnlyData
    <3>7. ASSUME cpc = "tail" PROVE CleanTail'
      <4>1. /\ up = <<>> /\ \A i \in 1..Len(out) : out[i][1] # "STREAM_CANCEL"
            /\ \A i \in 1..Len(down) : down[i].type \in {"STREAM_DATA", "STREAM_END"}
        BY <2>1, <3>1, <3>7 DEF CleanParts, CleanTail
      <4>2. out[1][1] \in {"STREAM_DATA", "STREAM_END"}
        <5>1. 1 \in 1..Len(out) /\ out[1][1] \in {"STREAM_DATA", "STREAM_END", "STREAM_CANCEL"}
          BY <1>0, <3>1, <3>2, SendFirst
        <5> QED
          BY <4>1, <5>1
      <4>3. \A i \in 1..Len(down') : down'[i].type \in {"STREAM_DATA", "STREAM_END"}
        BY <3>3, <3>4, <4>1, <4>2 DEF Told
      <4>4. \A i \in 1..Len(out') : i + 1 \in 1..Len(out) /\ out'[i] = out[i + 1]
        BY <3>2
      <4>5. \A i \in 1..Len(out') : out'[i][1] # "STREAM_CANCEL"
        BY <4>1, <4>4
      <4>6. spc' # "cancel"
        BY <2>4, <3>1
      <4> QED
        BY <3>1, <4>1, <4>3, <4>5, <4>6 DEF CleanTail
    <3> QED
      BY <1>1, <3>5, <3>6, <3>7 DEF CleanParts
  <2>10. CASE ConnectionFail
    <3>1. /\ spc \in {"reading", "cancel", "ack"} /\ spc' = "closed" /\ UNCHANGED <<up, down, out>>
      BY <2>10 DEF ConnectionFail
    <3>2. cpc = "ack" => CleanAck'
      BY <2>1, <2>3, <3>1 DEF CleanParts, CleanAck
    <3>3. cpc # "open"
      BY <2>1, <3>1 DEF CleanParts, CleanOpen
    <3>4. cpc = "tail" => CleanTail'
      BY <2>1, <3>1 DEF CleanParts, CleanTail
    <3> QED
      BY <1>1, <3>2, <3>3, <3>4 DEF CleanParts
  <2>11. CASE Stop
    BY <2>1, <2>11 DEF Stop, clientVars, CleanParts, CleanAck, CleanOpen, CleanTail, OnlyData
  <2> QED
    BY <1>3, <2>5, <2>6, <2>7, <2>8, <2>9, <2>10, <2>11 DEF Server
<1> QED
  BY <1>2, <1>3

\* What holds of clean sessions and of refusals.
CleanInv == (Clean => CleanParts) /\ RefusedOnlyBehindLeftovers

\* Every step keeps it.
LEMMA CleanStep ==
    ASSUME OrderInv, abandoned < IdSpace => EchoInv, CleanInv, [Next]_vars
    PROVE  CleanInv'
<1>0. TypeOK /\ ClientState /\ FramesInOrder /\ InitsComeFirst /\ HandlersTurn
  BY DEF OrderInv
<1>1. abandoned \in Nat /\ (abandoned = 0 => EchoInv) /\ (ending = "refused" => ~Clean)
  BY <1>0, Numbers, SessionAssumption DEF CleanInv, RefusedOnlyBehindLeftovers, Clean
<1>2. ASSUME UNCHANGED <<route, abandoned>>, cutShort' \in BOOLEAN, cutShort => cutShort',
             ending' = "refused" => ending = "refused"
      PROVE  RefusedOnlyBehindLeftovers'
  BY <1>2 DEF CleanInv, RefusedOnlyBehindLeftovers
<1>3. CASE (\E r \in Routes : sendInit(r)) \/ sendData \/ sendEnd
  <2>1. UNCHANGED abandoned /\ ending' # "refused"
    <3>1. cpc = "open" => ending = "none"
      BY <1>0 DEF ClientState
    <3> QED
      BY <1>3, <3>1 DEF sendInit, sendData, sendEnd
  <2>2. abandoned # 0 => ~Clean'
    BY <2>1 DEF Clean
  <2>3. (Clean => CleanParts)'
    BY <1>1, <1>3, <2>2, CleanPut DEF CleanInv
  <2> QED
    BY <2>1, <2>3 DEF CleanInv, RefusedOnlyBehindLeftovers
<1>4. CASE ReadAck \/ ReadEcho \/ ReadTail
  <2>1. UNCHANGED <<route, abandoned, cutShort>>
    BY <1>4 DEF ReadAck, ReadEcho, ReadTail, serverVars
  <2>2. CASE Clean
    <3>1. CleanParts' /\ ending' # "refused"
      BY <1>1, <1>4, <2>2, CleanTake DEF CleanInv, Clean
    <3> QED
      BY <3>1 DEF CleanInv, RefusedOnlyBehindLeftovers
  <2>3. CASE ~Clean
    <3>1. ~Clean'
      BY <2>1, <2>3 DEF Clean
    <3>2. route' # "known" \/ abandoned' > 0 \/ cutShort'
      BY <1>1, <2>1, <2>3 DEF Clean
    <3> QED
      BY <3>1, <3>2 DEF CleanInv, RefusedOnlyBehindLeftovers
  <2> QED
    BY <2>2, <2>3
<1>5. CASE sendCancel
  <2>1. abandoned' = abandoned + 1 /\ abandoned' > 0 /\ abandoned' # 0
    BY <1>1, <1>5 DEF sendCancel
  <2> QED
    BY <2>1 DEF CleanInv, RefusedOnlyBehindLeftovers, Clean
<1>6. CASE ClientFail \/ CloseClient
  <2>1. /\ cpc' = "closed" /\ UNCHANGED <<route, abandoned, cutShort>>
        /\ ending' = "refused" => ending = "refused"
    BY <1>6 DEF ClientFail, CloseClient, Leave, serverVars
  <2>2. cutShort' \in BOOLEAN
    BY <1>0, <2>1 DEF TypeOK
  <2> QED
    BY <1>2, <2>1, <2>2 DEF CleanInv, CleanParts
<1>7. CASE Server \/ Stop
  <2>1. UNCHANGED <<route, abandoned, ending>>
    BY <1>0, <1>7, ServerSends DEF clientVars
  <2>2. cutShort' \in BOOLEAN /\ (cutShort => cutShort')
    BY <1>0, <1>7
       DEF TypeOK, Server, ReadFirst, CancelStream, sendInitAck, HandlerRead, HandlerSend,
           HandlerReturn, ConnectionFail, Stop
  <2>3. abandoned # 0 => ~Clean'
    BY <2>1 DEF Clean
  <2>4. (Clean => CleanParts)'
    BY <1>1, <1>7, <2>3, CleanServer DEF CleanInv
  <2> QED
    BY <1>2, <2>1, <2>2, <2>4 DEF CleanInv
<1>8. CASE UNCHANGED vars
  <2>1. UNCHANGED <<cpc, route, abandoned, ending, cutShort, up, down, spc, out>>
    BY <1>8 DEF vars, clientVars, serverVars
  <2> QED
    BY <2>1 DEF CleanInv, RefusedOnlyBehindLeftovers, Clean, CleanParts, CleanAck, CleanOpen,
                CleanTail, OnlyData
<1> QED
  BY <1>3, <1>4, <1>5, <1>6, <1>7, <1>8 DEF Next, Client

\* The whole invariant of the sessions holds, and with it this: a client is
\* refused only for a route the server does not know, or behind a session that
\* was given up or cut short.
THEOREM SessionHolds == Spec => []SessionInv
<1>1. Init => CleanInv
  BY DEF Init, CleanInv, Clean, RefusedOnlyBehindLeftovers
<1>2. OrderInv /\ (abandoned < IdSpace => EchoInv) /\ CleanInv /\ [Next]_vars => CleanInv'
  BY CleanStep
<1>3. OrderInv /\ (abandoned < IdSpace => EchoInv) /\ CleanInv => SessionInv
  <2> SUFFICES ASSUME OrderInv, abandoned < IdSpace => EchoInv, CleanInv PROVE SessionInv
    OBVIOUS
  <2>1. EchoesInOrder /\ OwnEchoes
    BY DEF EchoInv, EchoesInOrder, OwnEchoes, Echoes
  <2>2. CleanSession /\ RefusedOnlyBehindLeftovers
    BY CleanIs DEF CleanInv
  <2> QED
    BY <2>1, <2>2 DEF SessionInv, OrderInv
<1> QED
  BY <1>1, <1>2, <1>3, Echoing, PTL DEF Spec
=============================================================================
