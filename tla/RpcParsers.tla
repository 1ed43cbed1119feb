------------------------------ MODULE RpcParsers ------------------------------
(***************************************************************************)
(* The wire format is parsed in three places: by the connection, from the  *)
(* iovecs of the ring while bytes still arrive (tryParseRequestMessage,    *)
(* tryParseResponseMessage); by RpcCodec, from one buffer; and by          *)
(* StreamInitRequest, for the body of an init frame.  Here all of them are *)
(* given the same bytes, any bytes, as they arrive.                        *)
(*                                                                         *)
(* A byte is a digit 0 .. Base - 1 and a length field two of them, the     *)
(* first one more significant.  The bytes of the header stand for the      *)
(* header itself, which RpcHeader::deserialize decodes.                    *)
(***************************************************************************)
EXTENDS Integers, Sequences

CONSTANTS
    HeaderSize,     \* RPC_HEADER_SIZE
    Base,           \* 2^8, the values of a byte
    MaxBodySize,    \* RPC_MAX_BODY_SIZE
    MaxBody,        \* bound: body lengths that a header may announce
    MaxExtra        \* bound: bytes of the next message already received

ASSUME ParsersAssumption ==
    /\ HeaderSize \in Nat \ {0} /\ Base \in Nat \ {0}
    /\ MaxBodySize \in Nat /\ MaxBody \in Nat /\ MaxExtra \in Nat

VARIABLES
    header,     \* what the first HeaderSize bytes are
    data        \* the bytes received, from the first byte of the header

vars == <<header, data>>

Init ==
    /\ header \in [magic : BOOLEAN, type : {"REQUEST", "RESPONSE", "OTHER"},
                   body : 0..MaxBody]
    /\ data = <<>>

\* Another byte arrives.
Receive(b) ==
    /\ Len(data) < HeaderSize + header.body + MaxExtra
    /\ Len(data) < HeaderSize => b = 0
    /\ data' = Append(data, b)
    /\ UNCHANGED header

Next == \E b \in 0..(Base - 1) : Receive(b)

Spec == Init /\ [][Next]_vars

-----------------------------------------------------------------------------
\* RpcHeader::deserialize.
Valid == header.magic /\ header.body <= MaxBodySize

MsgLen == HeaderSize + header.body

\* rpcNtohs of two bytes.
Value(field) == field[1] * Base + field[2]

Failed(code) == [status |-> code, service |-> <<>>, method |-> <<>>, error |-> 0, payload |-> <<>>]
Request(s, m, p) == [Failed("OK") EXCEPT !.service = s, !.method = m, !.payload = p]
Response(e, p) == [Failed("OK") EXCEPT !.error = e, !.payload = p]

\* Up to n elements of s behind the first offset ones.
Clip(s, offset, n) == SubSeq(s, offset + 1, IF offset + n < Len(s) THEN offset + n ELSE Len(s))

-----------------------------------------------------------------------------
(* The connection's parsers, on the one or two iovecs of the ring.           *)

\* data, when the ring wraps around behind its k-th byte.
ReadIovecs(k) == <<SubSeq(data, 1, k), SubSeq(data, k + 1, Len(data))>>

\* Up to n bytes from offset on, as copyFromIovecs and payloadViewFromIovecs
\* collect them; fewer when there are not so many.
copyFromIovecs(vecs, offset, n) ==
    LET first == Clip(vecs[1], offset, n)
        rest == IF offset >= Len(vecs[1]) THEN offset - Len(vecs[1]) ELSE 0
    IN  first \o Clip(vecs[2], rest, n - Len(first))

\* Mutant: the fields are checked against what has been received.
parseRequestReceived(vecs) ==
    LET service == copyFromIovecs(vecs, HeaderSize, 2)
        at == HeaderSize + 2
        behind == at + Value(service)
        method == copyFromIovecs(vecs, behind, 2)
        end == behind + 2 + Value(method)
    IN  IF \/ Len(service) < 2 \/ behind > Len(data)
           \/ Len(method) < 2 \/ end > Len(data)
        THEN Failed("DESERIALIZATION_ERROR")
        ELSE Request(copyFromIovecs(vecs, at, Value(service)),
                     copyFromIovecs(vecs, behind + 2, Value(method)),
                     copyFromIovecs(vecs, end, MsgLen - end))

\* The body of tryParseRequestMessage.  The length fields are copied from the
\* ring without a look at the end of the message, which is checked behind them.
parseRequest(vecs) ==
    LET service == copyFromIovecs(vecs, HeaderSize, 2)
        at == HeaderSize + 2
        behind == at + Value(service)
        method == copyFromIovecs(vecs, behind, 2)
        end == behind + 2 + Value(method)
    IN  IF \/ Len(service) < 2 \/ behind > MsgLen
           \/ Len(method) < 2 \/ end > MsgLen
        THEN Failed("DESERIALIZATION_ERROR")
        ELSE Request(copyFromIovecs(vecs, at, Value(service)),
                     copyFromIovecs(vecs, behind + 2, Value(method)),
                     copyFromIovecs(vecs, end, MsgLen - end))

\* The body of tryParseResponseMessage.
parseResponse(vecs) ==
    IF header.body < 2 THEN Failed("DESERIALIZATION_ERROR")
    ELSE Response(Value(copyFromIovecs(vecs, HeaderSize, 2)),
                  copyFromIovecs(vecs, HeaderSize + 2, header.body - 2))

\* Mutant: the message is parsed as soon as its header is there.
tryParseAtOnce(type, vecs) ==
    IF Len(data) < HeaderSize THEN Failed("MORE")
    ELSE IF ~Valid \/ header.type # type THEN Failed("INVALID")
    ELSE IF type = "REQUEST" THEN parseRequest(vecs)
    ELSE IF Len(data) < MsgLen THEN Failed("MORE") ELSE parseResponse(vecs)

\* tryParseRequestMessage and tryParseResponseMessage, with max_message_size at
\* its default RPC_MAX_BODY_SIZE.  INVALID is INVALID_REQUEST or
\* INVALID_RESPONSE, MORE the return value 0.
tryParse(type, vecs) ==
    IF Len(data) < HeaderSize THEN Failed("MORE")
    ELSE IF ~Valid \/ header.type # type THEN Failed("INVALID")
    ELSE IF Len(data) < MsgLen THEN Failed("MORE")
    ELSE IF type = "REQUEST" THEN parseRequest(vecs) ELSE parseResponse(vecs)

-----------------------------------------------------------------------------
(* RpcCodec, on one buffer.                                                  *)

Body == SubSeq(data, HeaderSize + 1, MsgLen)

\* RpcRequest::deserializeBody.
deserializeRequest(body) ==
    LET n == Len(body)
        sl == Value(SubSeq(body, 1, 2))
        ml == Value(SubSeq(body, sl + 3, sl + 4))
    IN  IF n < 4 \/ 2 + sl > n \/ 4 + sl > n \/ 4 + sl + ml > n
        THEN Failed("DESERIALIZATION_ERROR")
        ELSE Request(SubSeq(body, 3, sl + 2), SubSeq(body, sl + 5, sl + ml + 4),
                     SubSeq(body, sl + ml + 5, n))

\* RpcResponse::deserializeBody.
deserializeResponse(body) ==
    IF Len(body) < 2 THEN Failed("DESERIALIZATION_ERROR")
    ELSE Response(Value(SubSeq(body, 1, 2)), SubSeq(body, 3, Len(body)))

\* decodeRequest and decodeResponse; data that is not complete is INVALID too.
decode(type) ==
    IF Len(data) < HeaderSize \/ ~Valid \/ header.type # type \/ Len(data) < MsgLen
    THEN Failed("INVALID")
    ELSE IF type = "REQUEST" THEN deserializeRequest(Body) ELSE deserializeResponse(Body)

messageLength == IF Len(data) < HeaderSize \/ ~Valid THEN 0 ELSE MsgLen

-----------------------------------------------------------------------------
(* Init frames.                                                              *)

\* StreamInitRequest::deserializeBody.
deserializeInit(body) ==
    LET n == Len(body)
        sl == Value(SubSeq(body, 1, 2))
        ml == Value(SubSeq(body, sl + 3, sl + 4))
    IN  IF n < 4 \/ 2 + sl > n \/ 4 + sl > n \/ 4 + sl + ml > n
        THEN Failed("DESERIALIZATION_ERROR")
        ELSE Request(SubSeq(body, 3, sl + 2), SubSeq(body, sl + 5, sl + ml + 4), <<>>)

-----------------------------------------------------------------------------
(* Properties.                                                               *)

MessageTypes == {"REQUEST", "RESPONSE"}

\* Wherever the ring wraps around, and however much of the next message is in
\* it already, the connection's parsers and RpcCodec find the same message or
\* the same error; the connection waits only for bytes messageLength() asks for.
CodecAgrees ==
    \A type \in MessageTypes, k \in 0..Len(data) :
        LET found == tryParse(type, ReadIovecs(k)) IN
        IF found.status = "MORE" THEN messageLength = 0 \/ messageLength > Len(data)
        ELSE found = decode(type)

\* An init frame names the service and the method that a request with the same
\* body names, and is refused where the request is.
InitNamesAgree ==
    Len(data) >= MsgLen =>
        [deserializeRequest(Body) EXCEPT !.payload = <<>>] = deserializeInit(Body)

\* The three parsers of the format agree on every sequence of bytes.
ParsersAgree == CodecAgrees /\ InitNamesAgree

\* Once the connection has taken or refused a message, bytes that arrive later
\* do not change what it made of it.
DecisionIsStable ==
    [][\A type \in MessageTypes :
          tryParse(type, ReadIovecs(0)).status # "MORE" =>
              tryParse(type, ReadIovecs(0))' = tryParse(type, ReadIovecs(0))]_vars
=============================================================================
