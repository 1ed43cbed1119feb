------------------------------- MODULE RpcConn -------------------------------
(***************************************************************************)
(* One direction of an RPC connection, byte by byte: the writev machine    *)
(* that sends frames, the byte stream of the socket, the ring buffer that  *)
(* readv fills, and the readv machine that parses whole messages out of    *)
(* the ring and lends their payload to the caller without copying it.      *)
(*                                                                         *)
(* A byte is identified by its position in the stream of this direction,   *)
(* so the ring's memory holds stream positions.  What a byte says matters  *)
(* only for headers: a header decodes to the frame it was written for when *)
(* all its bytes are that frame's own, and to anything otherwise.          *)
(*                                                                         *)
(* The same machine reads requests and responses (tryParseRequestMessage   *)
(* and tryParseResponseMessage); they differ in the fields between header  *)
(* and payload, here FieldSize bytes.                                      *)
(***************************************************************************)
EXTENDS Integers, Sequences

CONSTANTS
    HeaderSize,         \* RPC_HEADER_SIZE
    FieldSize,          \* bytes of the body in front of the payload
    RingBufferSize,     \* ring_buffer_size of the configuration
    DefaultRingSize,    \* kDefaultRpcRingBufferSize
    MaxBodySize,        \* RPC_MAX_BODY_SIZE, checked by RpcHeader::deserialize
    MaxMessageSize,     \* RpcReaderSetting::max_message_size
    Bodies,             \* the body lengths callers send
    MaxFrames           \* bound: frames put on the stream

ASSUME SizesAssumption ==
    /\ HeaderSize \in Nat \ {0}
    /\ FieldSize \in Nat
    /\ RingBufferSize \in Nat
    /\ DefaultRingSize \in Nat \ {0}
    /\ MaxBodySize \in Nat
    /\ MaxMessageSize \in Nat
    /\ Bodies \subseteq Nat

ASSUME BoundsAssumption == MaxFrames \in Nat

VARIABLES
    sending,    \* the frame the current send is about
    wstate,     \* "idle", "ready" to write its first byte, or "writing"
    frames,     \* the frames with bytes on the stream, in order
    written,    \* bytes handed to the socket
    eof,        \* the writer's end of the socket is closed
    mem,        \* the ring's memory: a stream position per cell
    head,       \* index of the first unread cell
    count,      \* readable bytes
    received,   \* bytes readv has taken off the socket
    rstate,     \* the read machine: "idle", "advance" or "wait"
    result,     \* what the last read operation returned
    delivered,  \* the bytes of every message handed to the caller
    view        \* the payload view the last message borrows from the ring

writerVars == <<sending, wstate, frames, written, eof>>
ringVars == <<mem, head, count, received>>
readerVars == <<rstate, result, delivered, view>>
vars == <<writerVars, ringVars, readerVars>>

-----------------------------------------------------------------------------
(* The ring buffer (galay-kernel's RingBuffer, as this code uses it).        *)

normalizeRingBufferSize(size) == IF size = 0 THEN DefaultRingSize ELSE size

Capacity == normalizeRingBufferSize(RingBufferSize)

Wrap(i) == IF i >= Capacity THEN i - Capacity ELSE i

\* Where getWriteIovecs starts, and how far cell c lies behind it.
WriteIndex == Wrap(head + count)
Ahead(c) == IF c >= WriteIndex THEN c - WriteIndex ELSE c - WriteIndex + Capacity

\* Mutant: the ring's free space ends where its memory does.
WritableNoWrap == IF head + count >= Capacity THEN 0 ELSE Capacity - head - count

Writable == Capacity - count

\* Byte i of the readable region, wherever the two read iovecs put it.
Peek(i) == mem[Wrap(head + i)]

-----------------------------------------------------------------------------
(* Frames and headers.                                                       *)

\* A "message" has the magic number and the type the reader expects and fields
\* that fit its body; a "foreign" header lacks magic number or type, a "broken"
\* message has field lengths that point outside its body.
Kinds == {"message", "foreign", "broken"}
Headers == [kind : Kinds, body : Bodies]
NoFrame == [kind |-> "none", body |-> 0]

FrameLen(n) == HeaderSize + frames[n].body
FrameEnd(n) == IF n < Len(frames) THEN frames[n + 1].start ELSE written

\* The writer gave a frame up half-way and then put another one behind it.
Torn(n) == n < Len(frames) /\ frames[n + 1].start < frames[n].start + FrameLen(n)
UntornUpTo(j) == \A n \in 1..j : ~Torn(n)
NoneTorn == UntornUpTo(Len(frames))

\* RpcHeader::deserialize on the next HeaderSize bytes.  Bytes that are not
\* one frame's own header may spell any header.
OwnHeader(n) == /\ FrameEnd(n) >= frames[n].start + HeaderSize
                /\ \A i \in 0..(HeaderSize - 1) : Peek(i) = frames[n].start + i
DecodedHeaders ==
    {h \in Headers : \A n \in 1..Len(frames) :
        OwnHeader(n) => h.kind = frames[n].kind /\ h.body = frames[n].body}

\* tryParseRequestMessage / tryParseResponseMessage, once a header is there.
Parse(h) ==
    IF h.kind = "foreign" \/ h.body > MaxBodySize \/ h.body > MaxMessageSize
    THEN "INVALID"
    ELSE IF count < HeaderSize + h.body THEN "MORE"
    ELSE IF h.body < FieldSize \/ h.kind = "broken" THEN "DESERIALIZATION"
    ELSE "OK"

Rejections == {"INVALID", "DESERIALIZATION", "NO_SPACE"}
Interrupts == {"TIMEOUT", "CLOSED", "IO_ERROR"}
Results == {"NONE", "OK"} \cup Rejections \cup Interrupts

NoView == [at1 |-> 0, len1 |-> 0, at2 |-> 0, len2 |-> 0]

\* Mutant: the second iovec is indexed with the offset into both.
payloadViewNoRebase(off, n) ==
    LET first == IF count <= Capacity - head THEN count ELSE Capacity - head
        take == IF n <= first - off THEN n ELSE first - off
    IN  IF n = 0 THEN NoView
        ELSE IF off >= first
             THEN [at1 |-> Wrap(off), len1 |-> n, at2 |-> 0, len2 |-> 0]
             ELSE [at1 |-> head + off, len1 |-> take, at2 |-> 0, len2 |-> n - take]

\* payloadViewFromIovecs: n bytes at offset off of the readable region, as one
\* or two segments of ring memory.
payloadView(off, n) ==
    LET first == IF count <= Capacity - head THEN count ELSE Capacity - head
        take == IF n <= first - off THEN n ELSE first - off
    IN  IF n = 0 THEN NoView
        ELSE IF off >= first
             THEN [at1 |-> off - first, len1 |-> n, at2 |-> 0, len2 |-> 0]
             ELSE [at1 |-> head + off, len1 |-> take, at2 |-> 0, len2 |-> n - take]

-----------------------------------------------------------------------------
Init ==
    /\ sending = NoFrame /\ wstate = "idle"
    /\ frames = <<>> /\ written = 0 /\ eof = FALSE
    /\ mem = [c \in 0..(Capacity - 1) |-> 0]
    /\ head = 0 /\ count = 0 /\ received = 0
    /\ rstate = "idle" /\ result = "NONE"
    /\ delivered = <<>> /\ view = NoView

(* The writer.                                                               *)

\* A send starts: the write state builds its iovecs, no byte has left yet.
PutFrame(kind, body) ==
    /\ wstate = "idle" /\ ~eof
    /\ Len(frames) < MaxFrames
    /\ sending' = [kind |-> kind, body |-> body]
    /\ wstate' = "ready"
    /\ UNCHANGED <<frames, written, eof, ringVars, readerVars>>

\* RpcWriterImpl::sendRequest / sendResponse: a well-formed message.
SendMessage(body) == body >= FieldSize /\ PutFrame("message", body)

\* RpcWriterImpl::sendRaw: whatever bytes the caller serialized.
SendRaw(kind, body) == PutFrame(kind, body)

\* RpcWritevMachine::onWrite: writev took the next k bytes of the frame.
OnWrite(k) ==
    LET started == wstate = "writing"
        start == IF started THEN frames[Len(frames)].start ELSE written
        end == start + HeaderSize + sending.body
    IN  /\ wstate \in {"ready", "writing"}
        /\ written + k <= end
        /\ frames' = IF started THEN frames
                     ELSE Append(frames, [start |-> written, kind |-> sending.kind,
                                          body |-> sending.body])
        /\ written' = written + k
        /\ IF written + k = end
           THEN wstate' = "idle" /\ sending' = NoFrame
           ELSE wstate' = "writing" /\ UNCHANGED sending
        /\ UNCHANGED <<eof, ringVars, readerVars>>

\* The send returns before its iovecs are used up: an I/O error, a zero write
\* or a timeout.  What was written stays on the stream, the socket stays open.
AbortWrite ==
    /\ wstate # "idle"
    /\ wstate' = "idle" /\ sending' = NoFrame
    /\ UNCHANGED <<frames, written, eof, ringVars, readerVars>>

\* The writing end closes the connection, in the middle of a frame or not.
Close ==
    /\ ~eof
    /\ eof' = TRUE /\ wstate' = "idle" /\ sending' = NoFrame
    /\ UNCHANGED <<frames, written, ringVars, readerVars>>

(* The reader.                                                               *)

\* RpcReaderImpl::getRequest / getResponse: a fresh read machine.
GetMessage ==
    /\ rstate = "idle"
    /\ rstate' = "advance"
    /\ UNCHANGED <<writerVars, ringVars, result, delivered, view>>

\* RpcRingBufferReadMachine::advance, no whole message yet: wait for readv
\* with the ring's free space as window, or fail when there is none.
AdvanceMore ==
    /\ rstate = "advance"
    /\ IF count < HeaderSize THEN TRUE
       ELSE \E h \in DecodedHeaders : Parse(h) = "MORE"
    /\ IF Writable > 0
       THEN rstate' = "wait" /\ UNCHANGED result
       ELSE rstate' = "idle" /\ result' = "NO_SPACE"
    /\ UNCHANGED <<writerVars, ringVars, delivered, view>>

\* Mutant: the header of a malformed message is consumed.
AdvanceRejectConsumes ==
    /\ rstate = "advance" /\ count >= HeaderSize
    /\ \E h \in DecodedHeaders :
        /\ Parse(h) \in {"INVALID", "DESERIALIZATION"}
        /\ result' = Parse(h)
    /\ head' = Wrap(head + HeaderSize)
    /\ count' = count - HeaderSize
    /\ rstate' = "idle"
    /\ UNCHANGED <<writerVars, mem, received, delivered, view>>

\* ... the message is malformed: the error is returned, nothing is consumed.
AdvanceReject ==
    /\ rstate = "advance" /\ count >= HeaderSize
    /\ \E h \in DecodedHeaders :
        /\ Parse(h) \in {"INVALID", "DESERIALIZATION"}
        /\ result' = Parse(h)
    /\ rstate' = "idle"
    /\ UNCHANGED <<writerVars, ringVars, delivered, view>>

\* Mutant: the message length leaves the header out.
AdvanceDeliverNoHeader ==
    /\ rstate = "advance" /\ count >= HeaderSize
    /\ \E h \in DecodedHeaders :
        /\ Parse(h) = "OK"
        /\ delivered' = Append(delivered, [i \in 1..h.body |-> Peek(i - 1)])
        /\ head' = Wrap(head + h.body)
        /\ count' = count - h.body
    /\ rstate' = "idle" /\ result' = "OK"
    /\ UNCHANGED <<writerVars, mem, received, view>>

\* ... a whole message: it borrows its payload and is consumed.
AdvanceDeliver ==
    /\ rstate = "advance" /\ count >= HeaderSize
    /\ \E h \in DecodedHeaders :
        /\ Parse(h) = "OK"
        /\ delivered' = Append(delivered,
               [i \in 1..(HeaderSize + h.body) |-> Peek(i - 1)])
        /\ view' = payloadView(HeaderSize + FieldSize, h.body - FieldSize)
        /\ head' = Wrap(head + HeaderSize + h.body)
        /\ count' = count - (HeaderSize + h.body)
    /\ rstate' = "idle" /\ result' = "OK"
    /\ UNCHANGED <<writerVars, mem, received>>

\* Mutants of OnRead: readv is given the readable region; the machine does not
\* parse what it has read.
OnReadOverwrites(k) ==
    /\ rstate = "wait"
    /\ k <= Writable /\ received + k <= written
    /\ mem' = [c \in 0..(Capacity - 1) |->
                  LET d == IF c >= head THEN c - head ELSE c - head + Capacity
                  IN  IF d < k THEN received + d ELSE mem[c]]
    /\ received' = received + k
    /\ count' = count + k
    /\ rstate' = "advance"
    /\ view' = NoView
    /\ UNCHANGED <<writerVars, head, result, delivered>>

OnReadNoAdvance(k) ==
    /\ rstate = "wait"
    /\ k <= Writable /\ received + k <= written
    /\ mem' = [c \in 0..(Capacity - 1) |->
                  IF Ahead(c) < k THEN received + Ahead(c) ELSE mem[c]]
    /\ received' = received + k
    /\ count' = count + k
    /\ view' = NoView
    /\ UNCHANGED <<writerVars, rstate, head, result, delivered>>

\* onRead: readv scattered k bytes over the free cells; produce(k).  What an
\* earlier message borrowed may be overwritten from here on.
OnRead(k) ==
    /\ rstate = "wait"
    /\ k <= Writable /\ received + k <= written
    /\ mem' = [c \in 0..(Capacity - 1) |->
                  IF Ahead(c) < k THEN received + Ahead(c) ELSE mem[c]]
    /\ received' = received + k
    /\ count' = count + k
    /\ rstate' = "advance"
    /\ view' = NoView
    /\ UNCHANGED <<writerVars, head, result, delivered>>

\* onRead with 0 bytes: the peer closed and everything it wrote was read.
OnPeerClosed ==
    /\ rstate = "wait" /\ eof /\ received = written
    /\ rstate' = "idle" /\ result' = "CLOSED"
    /\ UNCHANGED <<writerVars, ringVars, delivered, view>>

\* onRead with an error (mapRpcReadError), or markTimeout while waiting.
OnReadError(e) ==
    /\ rstate = "wait"
    /\ rstate' = "idle" /\ result' = e
    /\ UNCHANGED <<writerVars, ringVars, delivered, view>>

Next ==
    \/ \E b \in Bodies : SendMessage(b)
    \/ \E kind \in Kinds, b \in Bodies : SendRaw(kind, b)
    \/ \E k \in 1..(HeaderSize + sending.body) : OnWrite(k)
    \/ AbortWrite \/ Close
    \/ GetMessage \/ AdvanceMore \/ AdvanceReject \/ AdvanceDeliver
    \/ \E k \in 1..Capacity : OnRead(k)
    \/ OnPeerClosed
    \/ \E e \in Interrupts : OnReadError(e)

Spec == Init /\ [][Next]_vars

\* The I/O schedulers run a coroutine whose I/O is ready, the socket hands over
\* the bytes it has, and the caller is a loop around getRequest as in
\* RpcServer::handleConnection.  A caller with a timeout tries again; strong
\* fairness says that bytes that are there do not lose that race every time.
Fairness ==
    /\ WF_vars(GetMessage)
    /\ WF_vars(AdvanceMore \/ AdvanceReject \/ AdvanceDeliver)
    /\ SF_vars(\E k \in 1..Capacity : OnRead(k))

FairSpec == Spec /\ Fairness

-----------------------------------------------------------------------------
(* Properties.                                                               *)

Frames == [start : Nat, kind : Kinds, body : Bodies]
Views == [at1 : Nat, len1 : Nat, at2 : Nat, len2 : Nat]

\* Every variable has its type; the ring's indices stay inside its memory.
TypeOK ==
    /\ sending \in Headers \cup {NoFrame}
    /\ wstate # "idle" => sending \in Headers
    /\ wstate \in {"idle", "ready", "writing"}
    /\ frames \in Seq(Frames)
    /\ written \in Nat /\ eof \in BOOLEAN
    /\ mem \in [0..(Capacity - 1) -> Nat]
    /\ head \in 0..(Capacity - 1) /\ count \in 0..Capacity /\ received \in Nat
    /\ rstate \in {"idle", "advance", "wait"}
    /\ result \in Results
    /\ delivered \in Seq(Seq(Nat))
    /\ view \in Views

\* The ring holds exactly the bytes received and not yet consumed, in stream
\* order across the wrap-around: readv never overwrites an unread byte, and
\* consume never skips one.
RingHoldsUnreadBytes ==
    /\ received <= written
    /\ \A i \in 0..(count - 1) : Peek(i) = received - count + i

FrameBytes(n) == [i \in 1..FrameLen(n) |-> frames[n].start + i - 1]

\* The j-th message the reader hands out is the j-th frame of the stream, byte
\* for byte, however writev and readv split it, whatever read timed out or
\* failed on the way, as long as no frame up to it was torn.  A frame that a
\* close cut short is never handed out.
MessagesAreFrames ==
    \A j \in 1..Len(delivered) :
        UntornUpTo(j) => j <= Len(frames) /\ delivered[j] = FrameBytes(j)

ViewByte(i) == IF i < view.len1 THEN mem[view.at1 + i]
               ELSE mem[view.at2 + i - view.len1]

\* The payload view of the last message (request.payloadView, which borrows
\* ring memory) reads exactly that message's payload until the next readv
\* brings bytes, though the message was consumed from the ring already.
BorrowedPayloadIntact ==
    view # NoView =>
        LET msg == delivered[Len(delivered)]
            first == HeaderSize + FieldSize
        IN  /\ Len(msg) = first + view.len1 + view.len2
            /\ \A i \in 0..(view.len1 + view.len2 - 1) : ViewByte(i) = msg[first + i + 1]

\* "No writable ring buffer space" is reported only for a frame that cannot
\* fit the ring as a whole.
NoSpaceMeansOversize ==
    result = "NO_SPACE" /\ NoneTorn =>
        \/ HeaderSize > Capacity
        \/ /\ Len(delivered) < Len(frames)
           /\ FrameLen(Len(delivered) + 1) > Capacity

\* A frame the reader rejected is not skipped: reading on from the same
\* connection hands out nothing any more.
RejectionIsFinal ==
    [][(result \in Rejections /\ NoneTorn) => delivered' = delivered]_vars

\* Frame n is on the stream as a whole, behind frames that are.
Arriving(n) ==
    n <= Len(frames) /\ UntornUpTo(n) /\ written >= frames[n].start + FrameLen(n)

\* A loop around getRequest hands out every frame that was sent as a whole or
\* comes to a frame it rejects, also after reads that timed out or failed and
\* after the sender closed the connection.
EveryFrameSettled ==
    \A n \in 1..MaxFrames :
        Arriving(n) ~> (Len(delivered) >= n \/ result \in Rejections)

-----------------------------------------------------------------------------
(* The inductive invariant behind MessagesAreFrames and RejectionIsFinal.    *)

\* Where the header of frame n says it ends.
FrameBoundary(n) == IF n = 0 THEN 0 ELSE frames[n].start + FrameLen(n)

\* The stream is its frames laid end to end, each of them at most as long as
\* its header says, and the frame being written is the last.
StreamOfFrames ==
    /\ frames = <<>> => written = 0
    /\ frames # <<>> => frames[1].start = 0
    /\ \A n \in 1..Len(frames) : FrameEnd(n) <= FrameBoundary(n)
    /\ wstate = "writing" =>
          frames # <<>> /\ frames[Len(frames)].body = sending.body

\* The unread bytes start at a frame boundary: the one behind the last frame
\* handed out.
ConsumedWholeFrames ==
    UntornUpTo(Len(delivered)) =>
        /\ Len(delivered) <= Len(frames)
        /\ received - count = FrameBoundary(Len(delivered))

Unreadable(n) == \/ frames[n].kind \in {"foreign", "broken"}
                 \/ frames[n].body > MaxBodySize \/ frames[n].body > MaxMessageSize
                 \/ frames[n].body < FieldSize
                 \/ FrameLen(n) > Capacity

\* After a rejection the frame at the head of the ring is one that cannot be
\* read.
RejectedFrameBlocks ==
    result \in Rejections /\ NoneTorn =>
        \/ HeaderSize > Capacity
        \/ Len(delivered) < Len(frames) /\ Unreadable(Len(delivered) + 1)

\* The inductive invariant: what a read leaves in the ring always starts at a
\* frame boundary, and everything handed out so far is a whole frame.
FramingInv ==
    /\ TypeOK
    /\ RingHoldsUnreadBytes
    /\ StreamOfFrames
    /\ ConsumedWholeFrames
    /\ MessagesAreFrames
    /\ RejectedFrameBlocks
    /\ NoSpaceMeansOversize
=============================================================================
