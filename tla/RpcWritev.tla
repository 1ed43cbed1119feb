------------------------------ MODULE RpcWritev ------------------------------
(***************************************************************************)
(* Sending one frame with writev: the iovecs the write states build over   *)
(* header, length fields, names and payload segments, the bookkeeping      *)
(* after each partial write, and what the receiver's parser makes of the   *)
(* bytes that reached the wire.                                            *)
(*                                                                         *)
(* A byte is <<part, i>>: byte i of one of the buffers of the frame.  What *)
(* is read from a length field's own bytes is its value; other bytes taken *)
(* for a length may spell any.                                             *)
(***************************************************************************)
EXTENDS Integers, Sequences, FiniteSetsExt

CONSTANTS
    HeaderSize,     \* RPC_HEADER_SIZE
    LenSize,        \* sizeof(uint16_t)
    LenSpace,       \* 2^16, the values of a length field
    NameSizes,      \* lengths of service and method names
    SegmentSizes    \* lengths of a payload view's segments

ASSUME WritevAssumption ==
    /\ HeaderSize \in Nat \ {0} /\ LenSize \in Nat \ {0} /\ LenSpace \in Nat \ {0}
    /\ NameSizes \subseteq Nat /\ SegmentSizes \subseteq Nat

VARIABLES
    frame,      \* the frame being sent
    iovecs,     \* m_iovecs
    machine,    \* RpcWritevMachine: "idle", "advance" or "wait" for writev
    result,     \* what the last send returned
    wire        \* the bytes of this frame the socket has taken

vars == <<frame, iovecs, machine, result, wire>>

-----------------------------------------------------------------------------
(* Frames and their iovecs.                                                  *)

\* A frame is known by its kind and the lengths of its variable parts.
Sized(kind, service, method, seg1, seg2) ==
    [kind |-> kind, service |-> service, method |-> method, seg1 |-> seg1, seg2 |-> seg2]

RequestFrames == {Sized("request", s, m, a, b) :
                     s \in NameSizes, m \in NameSizes, a \in SegmentSizes, b \in SegmentSizes}
ResponseFrames == {Sized("response", 0, 0, a, b) : a \in SegmentSizes, b \in SegmentSizes}
RawFrames == {Sized("raw", 0, 0, a, 0) : a \in SegmentSizes}
StreamFrames == {Sized("control", 0, 0, 0, 0)}
                   \cup {Sized("data", 0, 0, a, b) : a \in SegmentSizes, b \in SegmentSizes}
                   \cup {Sized("init", s, m, 0, 0) : s \in NameSizes, m \in NameSizes}
Frames == RequestFrames \cup ResponseFrames \cup RawFrames \cup StreamFrames
NoFrame == Sized("none", 0, 0, 0, 0)

Iovec(part, len) == [part |-> part, at |-> 0, len |-> len]
Header == <<Iovec("header", HeaderSize)>>

\* Empty names and segments get no iovec.
NonEmpty(part, len) == IF len > 0 THEN <<Iovec(part, len)>> ELSE <<>>

\* Mutant: both length fields come before the names.
NamesLast(f) == <<Iovec("serviceLen", LenSize), Iovec("methodLen", LenSize)>>
                   \o NonEmpty("service", f.service) \o NonEmpty("method", f.method)

Names(f) == (<<Iovec("serviceLen", LenSize)>> \o NonEmpty("service", f.service))
               \o (<<Iovec("methodLen", LenSize)>> \o NonEmpty("method", f.method))
Payload(f) == NonEmpty("seg1", f.seg1) \o NonEmpty("seg2", f.seg2)

\* RpcRequestWriteState, RpcResponseWriteState, RpcVectorWriteState and the
\* constructors of StreamFrameWriteState.
rebuildIovecs(f) ==
    CASE f.kind = "request"  -> Header \o (Names(f) \o Payload(f))
      [] f.kind = "response" -> (Header \o <<Iovec("errorCode", LenSize)>>) \o Payload(f)
      [] f.kind = "raw"      -> Payload(f)
      [] f.kind = "control"  -> Header
      [] f.kind = "data"     -> Header \o Payload(f)
      [] f.kind = "init"     -> Header \o Names(f)
      [] f.kind = "none"     -> <<>>

\* The number of bytes vecs describe.
Total(vecs) ==
    LET sum[i \in 0..Len(vecs)] == IF i = 0 THEN 0 ELSE sum[i - 1] + vecs[i].len
    IN  sum[Len(vecs)]

\* The bytes writev gathers from vecs.
BytesOf(v) == [i \in 1..v.len |-> <<v.part, v.at + i - 1>>]
Gather(vecs) ==
    LET upTo[i \in 0..Len(vecs)] == IF i = 0 THEN <<>> ELSE upTo[i - 1] \o BytesOf(vecs[i])
    IN  upTo[Len(vecs)]

\* Mutant: the base of a half-written iovec does not move.
consumeKeepsBase(vecs, consumed) ==
    LET idx == Max({i \in 0..Len(vecs) : Total(SubSeq(vecs, 1, i)) <= consumed})
        left == consumed - Total(SubSeq(vecs, 1, idx))
    IN  IF idx = Len(vecs) THEN <<>>
        ELSE [SubSeq(vecs, idx + 1, Len(vecs)) EXCEPT ![1].len = @ - left]

\* Drop the iovecs that were written whole, move the next one's base.
consumeWritevIovecs(vecs, consumed) ==
    LET idx == Max({i \in 0..Len(vecs) : Total(SubSeq(vecs, 1, i)) <= consumed})
        left == consumed - Total(SubSeq(vecs, 1, idx))
    IN  IF idx = Len(vecs) THEN <<>>
        ELSE [SubSeq(vecs, idx + 1, Len(vecs)) EXCEPT ![1].at = @ + left, ![1].len = @ - left]

-----------------------------------------------------------------------------
(* The write machine.                                                        *)

Init ==
    /\ frame = NoFrame /\ iovecs = <<>>
    /\ machine = "idle" /\ result = "NONE" /\ wire = <<>>

Send(f) ==
    /\ machine = "idle"
    /\ frame' = f /\ iovecs' = rebuildIovecs(f)
    /\ machine' = "advance" /\ result' = "NONE" /\ wire' = <<>>

\* Mutant: the send is never complete.
AdvanceForever ==
    /\ machine = "advance" /\ machine' = "wait"
    /\ UNCHANGED <<frame, iovecs, result, wire>>

\* advance(): complete when there is nothing left to write, else waitWritev.
Advance ==
    /\ machine = "advance"
    /\ IF iovecs = <<>> THEN machine' = "idle" /\ result' = "OK"
       ELSE machine' = "wait" /\ UNCHANGED result
    /\ UNCHANGED <<frame, iovecs, wire>>

\* onWrite(): the socket took the first k bytes.
OnWrite(k) ==
    /\ machine = "wait" /\ k <= Total(iovecs)
    /\ wire' = wire \o SubSeq(Gather(iovecs), 1, k)
    /\ iovecs' = consumeWritevIovecs(iovecs, k)
    /\ machine' = "advance"
    /\ UNCHANGED <<frame, result>>

\* onWrite() with an error or with no bytes, or a timeout while waiting.
OnWriteFail(code) ==
    /\ machine = "wait"
    /\ machine' = "idle" /\ result' = code
    /\ UNCHANGED <<frame, iovecs, wire>>

FailCodes == {"INTERNAL_ERROR", "REQUEST_TIMEOUT"}

Next ==
    \/ \E f \in Frames : Send(f)
    \/ Advance
    \/ \E k \in 1..Total(iovecs) : OnWrite(k)
    \/ \E code \in FailCodes : OnWriteFail(code)

Spec == Init /\ [][Next]_vars

\* The scheduler resumes the send whenever the socket has room.
FairSpec == Spec /\ WF_vars(Advance) /\ WF_vars(\E k \in 1..Total(iovecs) : OnWrite(k))

-----------------------------------------------------------------------------
(* The receiver's parser on the bytes of a whole request.                    *)

\* The values a length field read at offset c may have.
LengthsAt(c) ==
    LET own(part) == [i \in 1..LenSize |-> <<part, i - 1>>]
        read == SubSeq(wire, c + 1, c + LenSize)
    IN  IF read = own("serviceLen") THEN {frame.service % LenSpace}
        ELSE IF read = own("methodLen") THEN {frame.method % LenSpace}
        ELSE 0..(LenSpace - 1)

\* tryParseRequestMessage behind its header checks: service, method and payload
\* bytes, or an error.
Malformed == [service |-> <<>>, method |-> <<>>, payload |-> <<>>, ok |-> FALSE]
parseRequestBody ==
    LET msgLen == Len(wire)
        c1 == HeaderSize + LenSize
        parse(sl, ml) ==
            [service |-> SubSeq(wire, c1 + 1, c1 + sl),
             method |-> SubSeq(wire, c1 + sl + LenSize + 1, c1 + sl + LenSize + ml),
             payload |-> SubSeq(wire, c1 + sl + LenSize + ml + 1, msgLen), ok |-> TRUE]
    IN  UNION {IF c1 + sl > msgLen THEN {Malformed}
               ELSE {IF c1 + sl + LenSize + ml > msgLen THEN Malformed ELSE parse(sl, ml) :
                        ml \in LengthsAt(c1 + sl)} : sl \in LengthsAt(HeaderSize)}

-----------------------------------------------------------------------------
(* Properties.                                                               *)

Parts == {"header", "serviceLen", "service", "methodLen", "method", "seg1", "seg2", "errorCode"}

\* Every variable has its type.
TypeOK ==
    /\ frame \in Frames \cup {NoFrame}
    /\ iovecs \in Seq([part : Parts, at : Nat, len : Nat \ {0}])
    /\ machine \in {"idle", "advance", "wait"}
    /\ result \in {"NONE", "OK"} \cup FailCodes
    /\ wire \in Seq(Parts \X Nat)

\* A send in progress has a frame and no result, and waits only while there is
\* something to write.
InProgress ==
    /\ machine # "idle" => frame # NoFrame /\ result = "NONE"
    /\ machine = "wait" => iovecs # <<>>

\* However writev splits the frame, what is on the wire and what the iovecs
\* still describe is the frame: no byte is skipped, repeated or reordered.
NothingLostOrRepeated == wire \o Gather(iovecs) = Gather(rebuildIovecs(frame))

\* A send reports success exactly when the whole frame is on the wire.
SuccessMeansWhole == machine = "idle" =>
    (result = "OK" <=> (frame # NoFrame /\ wire = Gather(rebuildIovecs(frame))))

\* The state of a send is well formed and the wire gets exactly the frame.
SendInv == TypeOK /\ InProgress /\ NothingLostOrRepeated /\ SuccessMeansWhole

\* A request whose names fit their 16-bit length fields is parsed back into the
\* same service, method and payload, a two-segment payload as one.
ParsesBack ==
    (frame.kind = "request" /\ result = "OK" /\ frame.service < LenSpace /\ frame.method < LenSpace)
        => parseRequestBody = {[service |-> BytesOf(Iovec("service", frame.service)),
                                method |-> BytesOf(Iovec("method", frame.method)),
                                payload |-> Gather(Payload(frame)), ok |-> TRUE]}

\* A send always ends once the socket keeps taking bytes: every partial write
\* makes progress.
EverySendEnds == machine # "idle" ~> machine = "idle"
=============================================================================
