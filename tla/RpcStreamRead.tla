---------------------------- MODULE RpcStreamRead -----------------------------
(***************************************************************************)
(* The reader of a stream: StreamReader::getMessage on one direction of a  *)
(* connection.  Unlike the reader of requests and responses (RpcConn) it   *)
(* works in two phases and consumes the header before the body is there;   *)
(* which phase it is in is kept in the read state, a new one per call.     *)
(*                                                                         *)
(* A byte is its position in the stream.  The ring holds the positions     *)
(* consumed .. received - 1, which is what RpcConn shows of the ring, and   *)
(* frames are on the stream whole: what a send that is given up half-way   *)
(* does to the reader is in RpcConn.  A header decodes to its frame when   *)
(* it is read where a frame starts, and to anything elsewhere.             *)
(***************************************************************************)
EXTENDS Integers, Sequences

CONSTANTS
    HeaderSize,     \* RPC_HEADER_SIZE
    Capacity,       \* size of the ring buffer
    MaxBodySize,    \* RPC_MAX_BODY_SIZE
    Bodies,         \* the body lengths of init and data frames
    MaxFrames,      \* bound: frames on the stream
    MaxMisread      \* bound: messages a reader that is out of step goes on to read

ASSUME StreamSizesAssumption ==
    /\ HeaderSize \in Nat \ {0} /\ Capacity \in Nat /\ MaxBodySize \in Nat
    /\ Bodies \subseteq Nat

ASSUME StreamBoundsAssumption == MaxFrames \in Nat /\ MaxMisread \in Nat

VARIABLES
    frames,     \* the frames on the stream, in order
    sent,       \* bytes of all of them
    eof,        \* the sender closed the connection
    received,   \* bytes readv has taken off the socket
    consumed,   \* bytes consumed from the ring
    rstate,     \* the read machine: "idle", "advance" or "wait"
    phase,      \* m_state: "ReadHeader" or "ReadBody"
    need,       \* m_body_length
    message,    \* the caller's StreamMessage
    result,     \* what the last read returned
    delivered,  \* the messages successful reads returned
    slips       \* reads that ended with a header consumed and not its body

wireVars == <<frames, sent, eof>>
vars == <<wireVars, received, consumed, rstate, phase, need, message, result,
          delivered, slips>>

EndTypes == {"STREAM_END", "STREAM_CANCEL"}
DataTypes == {"STREAM_INIT", "STREAM_DATA"}
Types == EndTypes \cup DataTypes \cup {"STREAM_INIT_ACK"}

\* "foreign": the bytes lack the magic number.
Headers == [type : Types \cup {"foreign"}, body : Bodies \cup {0}]

\* type and isEnd of a StreamMessage; header is where its header was read and
\* at .. at + len - 1 where its payload lies.  The last two are not in the code.
NewMessage == [type |-> "STREAM_DATA", isEnd |-> FALSE, header |-> 0, at |-> 0, len |-> 0]

Unread == received - consumed

\* RpcHeader::deserialize on the next HeaderSize bytes.
DecodedHeaders ==
    {h \in Headers : \A n \in 1..Len(frames) :
        frames[n].start = consumed => h.type = frames[n].type /\ h.body = frames[n].body}

Valid(h) == h.type # "foreign" /\ h.body <= MaxBodySize

\* End and cancel frames are complete without a look at their body length.
HasBody(h) == h.type \notin EndTypes /\ h.body # 0

-----------------------------------------------------------------------------
Init ==
    /\ frames = <<>> /\ sent = 0 /\ eof = FALSE
    /\ received = 0 /\ consumed = 0
    /\ rstate = "idle" /\ phase = "ReadHeader" /\ need = 0
    /\ message = NewMessage /\ result = "NONE"
    /\ delivered = <<>> /\ slips = 0

\* A StreamFrameWriteState is written: control frames have no body, init frames
\* have the lengths of their names at least.
Send(type, body) ==
    /\ Len(frames) < MaxFrames /\ ~eof
    /\ type \notin DataTypes => body = 0
    /\ type = "STREAM_INIT" => body # 0
    /\ frames' = Append(frames, [start |-> sent, type |-> type, body |-> body])
    /\ sent' = sent + HeaderSize + body
    /\ UNCHANGED <<eof, received, consumed, rstate, phase, need, message, result,
                   delivered, slips>>

\* The sender closes its socket.
Close ==
    /\ ~eof
    /\ eof' = TRUE
    /\ UNCHANGED <<frames, sent, received, consumed, rstate, phase, need, message,
                   result, delivered, slips>>

\* getMessage(): a new read state, for a new message or one used before.
getMessage(msg) ==
    /\ rstate = "idle" /\ (slips = 0 \/ Len(delivered) < MaxMisread)
    /\ rstate' = "advance" /\ phase' = "ReadHeader" /\ need' = 0
    /\ message' = msg
    /\ UNCHANGED <<wireVars, received, consumed, result, delivered, slips>>

\* Mutant: a cancel does not end the stream.
WithHeaderNoCancel(h) ==
    [message EXCEPT !.type = h.type, !.header = consumed,
                    !.isEnd = @ \/ h.type = "STREAM_END"]

\* What the header leaves in the message: m_is_end is only ever set.
WithHeader(h) ==
    [message EXCEPT !.type = h.type, !.header = consumed,
                    !.isEnd = @ \/ h.type \in EndTypes]

\* Mutant: room for the next header is kept free.
WaitOrFailEarly ==
    IF received - consumed' + HeaderSize < Capacity
    THEN rstate' = "wait" /\ UNCHANGED <<result, slips>>
    ELSE /\ rstate' = "idle" /\ result' = "NO_SPACE"
         /\ slips' = IF phase' = "ReadBody" THEN slips + 1 ELSE slips

\* advance() has no whole message: wait for readv with the ring's free space as
\* window, or fail when there is none.
WaitOrFail ==
    IF received - consumed' < Capacity
    THEN rstate' = "wait" /\ UNCHANGED <<result, slips>>
    ELSE /\ rstate' = "idle" /\ result' = "NO_SPACE"
         /\ slips' = IF phase' = "ReadBody" THEN slips + 1 ELSE slips

\* advance(), the header has not arrived.
AdvanceNoHeader ==
    /\ rstate = "advance" /\ phase = "ReadHeader" /\ Unread < HeaderSize
    /\ UNCHANGED <<consumed, phase, need, message>>
    /\ WaitOrFail
    /\ UNCHANGED <<wireVars, received, delivered>>

\* Mutant: the header stays in the ring until the body has arrived.
AdvanceNoBodyKeepsHeader ==
    /\ rstate = "advance"
    /\ \/ /\ phase = "ReadHeader" /\ Unread >= HeaderSize
          /\ \E h \in DecodedHeaders :
                /\ Valid(h) /\ HasBody(h) /\ Unread - HeaderSize < h.body
                /\ need' = h.body /\ phase' = "ReadBody"
                /\ message' = WithHeader(h)
          /\ UNCHANGED consumed
       \/ /\ phase = "ReadBody" /\ Unread < need
          /\ UNCHANGED <<consumed, phase, need, message>>
    /\ WaitOrFail
    /\ UNCHANGED <<wireVars, received, delivered>>

\* advance(), the header is consumed and its body has not arrived.
AdvanceNoBody ==
    /\ rstate = "advance"
    /\ \/ /\ phase = "ReadHeader" /\ Unread >= HeaderSize
          /\ \E h \in DecodedHeaders :
                /\ Valid(h) /\ HasBody(h) /\ Unread - HeaderSize < h.body
                /\ need' = h.body /\ phase' = "ReadBody"
                /\ message' = WithHeader(h)
          /\ consumed' = consumed + HeaderSize
       \/ /\ phase = "ReadBody" /\ Unread < need
          /\ UNCHANGED <<consumed, phase, need, message>>
    /\ WaitOrFail
    /\ UNCHANGED <<wireVars, received, delivered>>

\* advance(), the header is invalid: it is not consumed.
AdvanceReject ==
    /\ rstate = "advance" /\ phase = "ReadHeader" /\ Unread >= HeaderSize
    /\ \E h \in DecodedHeaders : ~Valid(h)
    /\ rstate' = "idle" /\ result' = "INVALID_REQUEST"
    /\ UNCHANGED <<wireVars, received, consumed, phase, need, message, delivered, slips>>

Deliver(msg) ==
    /\ message' = msg /\ delivered' = Append(delivered, msg)
    /\ rstate' = "idle" /\ phase' = "ReadHeader" /\ result' = "OK"
    /\ UNCHANGED <<wireVars, received, need, slips>>

\* advance(), the message has no body, or is an end or a cancel.
AdvanceControl ==
    /\ rstate = "advance" /\ phase = "ReadHeader" /\ Unread >= HeaderSize
    /\ \E h \in DecodedHeaders :
        /\ Valid(h) /\ ~HasBody(h)
        /\ Deliver([WithHeader(h) EXCEPT !.at = 0, !.len = 0])
    /\ consumed' = consumed + HeaderSize

\* Mutant: the body is only taken when more than the body has arrived.
AdvanceBodyLate ==
    /\ rstate = "advance"
    /\ phase = "ReadBody" /\ Unread > need
    /\ Deliver([message EXCEPT !.at = consumed, !.len = need])
    /\ consumed' = consumed + need

\* advance(), header and body are there at once, or the body has arrived.
AdvanceBody ==
    /\ rstate = "advance"
    /\ \/ /\ phase = "ReadHeader"
          /\ \E h \in DecodedHeaders :
                /\ Valid(h) /\ HasBody(h) /\ Unread >= HeaderSize + h.body
                /\ Deliver([WithHeader(h) EXCEPT !.at = consumed + HeaderSize,
                                                 !.len = h.body])
                /\ consumed' = consumed + HeaderSize + h.body
       \/ /\ phase = "ReadBody" /\ Unread >= need
          /\ Deliver([message EXCEPT !.at = consumed, !.len = need])
          /\ consumed' = consumed + need

\* readv brought k bytes.
OnRead(k) ==
    /\ rstate = "wait"
    /\ received + k <= sent /\ Unread + k <= Capacity
    /\ received' = received + k
    /\ rstate' = "advance"
    /\ UNCHANGED <<wireVars, consumed, phase, need, message, result, delivered, slips>>

\* Mutant: a read that times out puts nothing back, not even where it waited
\* for a header.
InterruptDropsUnread(e) ==
    /\ rstate = "wait"
    /\ e = "CLOSED" => eof /\ received = sent
    /\ rstate' = "idle" /\ result' = e
    /\ slips' = IF phase = "ReadBody" THEN slips + 1 ELSE slips
    /\ consumed' = received
    /\ UNCHANGED <<wireVars, received, phase, need, message, delivered>>

\* The read times out, fails, or meets the end of the stream.  Its read state
\* is gone with it.
Interrupt(e) ==
    /\ rstate = "wait"
    /\ e = "CLOSED" => eof /\ received = sent
    /\ rstate' = "idle" /\ result' = e
    /\ slips' = IF phase = "ReadBody" THEN slips + 1 ELSE slips
    /\ UNCHANGED <<wireVars, received, consumed, phase, need, message, delivered>>

Interrupts == {"REQUEST_TIMEOUT", "INTERNAL_ERROR", "CLOSED"}

Advance == AdvanceNoHeader \/ AdvanceNoBody \/ AdvanceReject \/ AdvanceControl \/ AdvanceBody

Next ==
    \/ \E t \in Types, b \in Bodies \cup {0} : Send(t, b)
    \/ Close
    \/ \E msg \in {NewMessage, message} : getMessage(msg)
    \/ Advance
    \/ \E k \in 1..Capacity : OnRead(k)
    \/ \E e \in Interrupts : Interrupt(e)

Spec == Init /\ [][Next]_vars

\* The scheduler resumes a read whose bytes have come; the caller reads in a
\* loop, as the handlers and clients of the examples do.  One with a timeout
\* tries again; bytes that are there do not lose that race every time.
Fairness ==
    /\ WF_vars(getMessage(NewMessage)) /\ WF_vars(Advance)
    /\ SF_vars(\E k \in 1..Capacity : OnRead(k))

FairSpec == Spec /\ Fairness

-----------------------------------------------------------------------------
(* Properties.                                                               *)

Frames == [start : Nat, type : Types, body : Nat]
Messages == [type : Types, isEnd : BOOLEAN, header : Nat, at : Nat, len : Nat]
Results == {"NONE", "OK", "INVALID_REQUEST", "NO_SPACE"} \cup Interrupts

\* Every variable has its type, and the ring never holds more than it can.
TypeOK ==
    /\ frames \in Seq(Frames) /\ sent \in Nat /\ eof \in BOOLEAN
    /\ consumed \in Nat /\ received \in Nat
    /\ consumed <= received /\ received <= sent /\ Unread <= Capacity
    /\ rstate \in {"idle", "advance", "wait"}
    /\ phase \in {"ReadHeader", "ReadBody"} /\ need \in Nat
    /\ message \in Messages /\ result \in Results
    /\ delivered \in Seq(Messages) /\ slips \in Nat

\* Message m is frame n: its type and its payload, wherever they lie.
IsFrame(m, n) ==
    /\ m.type = frames[n].type /\ m.header = frames[n].start
    /\ m.len = frames[n].body
    /\ m.len # 0 => m.at = frames[n].start + HeaderSize

\* As long as no read ended between a header and its body, the j-th message
\* read is the j-th frame sent, however readv split the frames and however many
\* reads timed out or failed while they waited for a header.
MessagesAreFramesInOrder ==
    slips = 0 => \A j \in 1..Len(delivered) :
                    j <= Len(frames) /\ IsFrame(delivered[j], j)

\* "No writable ring buffer space" comes only of a body larger than the whole
\* ring: the header, consumed already, takes no room, which is why a stream
\* frame may be larger than a request or response the ring can hold.
NoSpaceMeansOversizeBody ==
    result = "NO_SPACE" /\ slips <= 1 =>
        \/ HeaderSize > Capacity
        \/ /\ Len(delivered) < Len(frames)
           /\ frames[Len(delivered) + 1].body > Capacity

\* Every frame is read, also after reads that timed out or failed and after a
\* close, unless the reader comes to one it rejects (a body beyond
\* RPC_MAX_BODY_SIZE or larger than the ring) or a read ended between a header
\* and its body.
EveryFrameRead ==
    \A n \in 1..MaxFrames :
        Len(frames) >= n ~> (Len(delivered) >= n \/ result = "INVALID_REQUEST" \/ slips > 0)

\* rpc_stream.h: "after co_await returns, a complete stream message".
MessageIsAFrame ==
    rstate = "idle" /\ result = "OK" => \E n \in 1..Len(frames) : IsFrame(message, n)

\* The end flag of a message that is used again is never cleared.  Still, a
\* caller that reads until isEnd() stops at an end or a cancel: every such frame
\* has the flag, and no frame in front of the first one has.
LoopsStopAtTheEnd ==
    \A j \in 1..Len(delivered) :
        /\ delivered[j].type \in EndTypes => delivered[j].isEnd
        /\ delivered[j].isEnd => \E i \in 1..j : delivered[i].type \in EndTypes

-----------------------------------------------------------------------------
(* The inductive invariant behind MessagesAreFramesInOrder.                  *)

\* Where frame n ends.
Boundary(n) == IF n = 0 THEN 0 ELSE frames[n].start + HeaderSize + frames[n].body

\* The stream is its frames laid end to end.
StreamOfFrames ==
    /\ sent = Boundary(Len(frames))
    /\ \A n \in 1..Len(frames) : frames[n].start = Boundary(n - 1)
    /\ \A n \in 1..Len(frames) : frames[n].type \in EndTypes => frames[n].body = 0

\* Everything consumed is the frames read, and between header and body the
\* header of the next one, whose length the read state remembers.
ConsumedWholeFrames ==
    slips = 0 =>
        LET n == Len(delivered) IN
        /\ n <= Len(frames)
        /\ (rstate = "idle" \/ phase = "ReadHeader") => consumed = Boundary(n)
        /\ (rstate # "idle" /\ phase = "ReadBody") =>
              /\ n < Len(frames)
              /\ consumed = frames[n + 1].start + HeaderSize
              /\ need = frames[n + 1].body /\ need # 0
              /\ message.type = frames[n + 1].type
              /\ message.header = frames[n + 1].start

\* The inductive invariant of the stream reader.
AlignedInv ==
    /\ TypeOK /\ StreamOfFrames /\ ConsumedWholeFrames /\ MessagesAreFramesInOrder
=============================================================================
