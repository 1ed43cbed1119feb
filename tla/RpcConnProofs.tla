---------------------------- MODULE RpcConnProofs ----------------------------
(***************************************************************************)
(* Proofs about RpcConn for every ring size, header size, message limit    *)
(* and set of body lengths.                                                *)
(***************************************************************************)
EXTENDS RpcConn, TLAPS

\* The capacity of the ring is positive: normalizeRingBufferSize replaces 0.
LEMMA CapacityPositive == Capacity \in Nat \ {0}
  BY SizesAssumption DEF Capacity, normalizeRingBufferSize

-----------------------------------------------------------------------------
(* Type correctness.                                                         *)

\* The initial state is well typed.
LEMMA TypeInit == Init => TypeOK
  <1> SUFFICES ASSUME Init PROVE TypeOK OBVIOUS
  <1> USE CapacityPositive, SizesAssumption DEF Init
  <1>1. sending \in Headers \cup {NoFrame} /\ (wstate # "idle" => sending \in Headers)
        /\ wstate \in {"idle", "ready", "writing"}
    OBVIOUS
  <1>2. frames \in Seq(Frames) /\ delivered \in Seq(Seq(Nat))
    OBVIOUS
  <1>3. written \in Nat /\ eof \in BOOLEAN
        /\ mem \in [0..(Capacity - 1) -> Nat]
        /\ head \in 0..(Capacity - 1) /\ count \in 0..Capacity /\ received \in Nat
        /\ rstate \in {"idle", "advance", "wait"}
    OBVIOUS
  <1>4. result \in Results /\ view \in Views
    BY DEF Results, Views, NoView
  <1> QED BY <1>1, <1>2, <1>3, <1>4 DEF TypeOK

\* payloadViewFromIovecs yields a well-typed view for a payload that lies in
\* the readable region.
LEMMA PayloadViewType ==
  ASSUME TypeOK, NEW off \in Nat, NEW n \in Nat, off + n <= count
  PROVE  payloadView(off, n) \in Views
  BY CapacityPositive DEF TypeOK, payloadView, NoView, Views

\* A message is handed out only when all of it is in the ring and its fields
\* fit its body.
LEMMA ParseOK ==
  ASSUME NEW h, h.body \in Nat, count \in Nat, Parse(h) = "OK"
  PROVE  /\ HeaderSize + h.body <= count /\ h.body >= FieldSize
         /\ h.kind \notin {"foreign", "broken"} /\ h.body <= MaxBodySize /\ h.body <= MaxMessageSize
  BY SizesAssumption DEF Parse

\* Every step of RpcConn preserves the types; the steps of the ring keep its
\* indices inside its memory.
LEMMA TypeStep == TypeOK /\ [Next]_vars => TypeOK'
  <1> SUFFICES ASSUME TypeOK, [Next]_vars PROVE TypeOK' OBVIOUS
  <1> USE CapacityPositive, SizesAssumption
  <1>1. ASSUME NEW kind \in Kinds, NEW b \in Bodies, PutFrame(kind, b) PROVE TypeOK'
    BY <1>1 DEF PutFrame, TypeOK, Headers, ringVars, readerVars
  <1>2. ASSUME NEW b \in Bodies, SendMessage(b) PROVE TypeOK'
    BY <1>1, <1>2 DEF SendMessage, Kinds
  <1>3. ASSUME NEW kind \in Kinds, NEW b \in Bodies, SendRaw(kind, b) PROVE TypeOK'
    BY <1>1, <1>3 DEF SendRaw
  <1>4. ASSUME NEW k \in 1..(HeaderSize + sending.body), OnWrite(k) PROVE TypeOK'
    <2>1. sending \in Headers /\ k \in Nat /\ written + k \in Nat
      BY <1>4 DEF OnWrite, TypeOK, Headers
    <2>2. frames' \in Seq(Frames)
      <3>1. [start |-> written, kind |-> sending.kind, body |-> sending.body] \in Frames
        BY <2>1 DEF TypeOK, Headers, Frames
      <3>2. frames \in Seq(Frames)
        BY DEF TypeOK
      <3>3. CASE wstate = "writing"
        BY <1>4, <3>2, <3>3 DEF OnWrite
      <3>4. CASE wstate # "writing"
        BY <1>4, <3>1, <3>2, <3>4 DEF OnWrite
      <3> QED BY <3>3, <3>4
    <2>3. /\ sending' \in Headers \cup {NoFrame}
          /\ wstate' # "idle" => sending' \in Headers
          /\ wstate' \in {"idle", "ready", "writing"}
      BY <1>4, <2>1 DEF OnWrite, TypeOK
    <2> QED BY <1>4, <2>1, <2>2, <2>3 DEF OnWrite, TypeOK, ringVars, readerVars
  <1>5. CASE AbortWrite
    BY <1>5 DEF AbortWrite, TypeOK, ringVars, readerVars
  <1>6. CASE Close
    BY <1>6 DEF Close, TypeOK, ringVars, readerVars
  <1>7. CASE GetMessage
    BY <1>7 DEF GetMessage, TypeOK, ringVars, writerVars
  <1>8. CASE AdvanceMore
    BY <1>8 DEF AdvanceMore, TypeOK, ringVars, writerVars, Results, Rejections
  <1>9. CASE AdvanceReject
    BY <1>9 DEF AdvanceReject, TypeOK, ringVars, writerVars, Results, Rejections
  <1>10. CASE AdvanceDeliver
    <2>1. PICK h \in DecodedHeaders :
        /\ Parse(h) = "OK"
        /\ delivered' = Append(delivered, [i \in 1..(HeaderSize + h.body) |-> Peek(i - 1)])
        /\ view' = payloadView(HeaderSize + FieldSize, h.body - FieldSize)
        /\ head' = Wrap(head + HeaderSize + h.body)
        /\ count' = count - (HeaderSize + h.body)
      BY <1>10 DEF AdvanceDeliver
    <2>2. h \in Headers /\ h.body \in Bodies /\ h.body \in Nat
      BY <2>1 DEF DecodedHeaders, Headers
    <2>3. HeaderSize + h.body <= count /\ h.body >= FieldSize
      BY <2>1, <2>2, ParseOK DEF TypeOK
    <2>4. head' \in 0..(Capacity - 1) /\ count' \in 0..Capacity
      <3>1. head \in 0..(Capacity - 1) /\ count \in 0..Capacity
        BY DEF TypeOK
      <3>2. count - (HeaderSize + h.body) \in 0..Capacity
        BY <2>2, <2>3, <3>1
      <3>3. Wrap(head + HeaderSize + h.body) \in 0..(Capacity - 1)
        BY <2>2, <2>3, <3>1 DEF Wrap
      <3> QED BY <2>1, <3>2, <3>3
    <2>5. \A i \in 0..(HeaderSize + h.body - 1) : Peek(i) \in Nat
      <3> TAKE i \in 0..(HeaderSize + h.body - 1)
      <3>1. i \in 0..(Capacity - 1)
        BY <2>2, <2>3 DEF TypeOK
      <3>2. Wrap(head + i) \in 0..(Capacity - 1)
        BY <3>1 DEF Wrap, TypeOK
      <3> QED BY <3>2 DEF Peek, TypeOK
    <2>6. \A i \in 1..(HeaderSize + h.body) : Peek(i - 1) \in Nat
      BY <2>2, <2>5
    <2>7. [i \in 1..(HeaderSize + h.body) |-> Peek(i - 1)] \in Seq(Nat)
      <3> DEFINE m == HeaderSize + h.body
      <3>1. m \in Nat
        BY <2>2
      <3>2. \A i \in 1..m : Peek(i - 1) \in Nat
        BY <2>6
      <3> HIDE DEF m
      <3>3. [i \in 1..m |-> Peek(i - 1)] \in [1..m -> Nat]
        BY <3>2
      <3>4. [i \in 1..m |-> Peek(i - 1)] \in Seq(Nat)
        BY <3>1, <3>3
      <3> QED BY <3>4 DEF m
    <2>8. delivered' \in Seq(Seq(Nat))
      BY <2>1, <2>7 DEF TypeOK
    <2>9. view' \in Views
      <3>1. HeaderSize + FieldSize \in Nat /\ h.body - FieldSize \in Nat
        BY <2>2, <2>3
      <3>2. (HeaderSize + FieldSize) + (h.body - FieldSize) <= count
        BY <2>2, <2>3 DEF TypeOK
      <3> QED BY <2>1, <3>1, <3>2, PayloadViewType
    <2> QED BY <1>10, <2>4, <2>8, <2>9 DEF AdvanceDeliver, TypeOK, writerVars, Results
  <1>11. ASSUME NEW k \in 1..Capacity, OnRead(k) PROVE TypeOK'
    <2>1. received' \in Nat /\ count' \in 0..Capacity
      BY <1>11 DEF OnRead, TypeOK, Writable
    <2>2. \A c \in 0..(Capacity - 1) : Ahead(c) \in Nat
      BY DEF Ahead, WriteIndex, Wrap, TypeOK
    <2>3. mem' \in [0..(Capacity - 1) -> Nat]
      BY <1>11, <2>2 DEF OnRead, TypeOK
    <2>4. view' \in Views
      BY <1>11 DEF OnRead, NoView, Views
    <2> QED BY <1>11, <2>1, <2>3, <2>4 DEF OnRead, TypeOK, writerVars
  <1>12. CASE OnPeerClosed
    BY <1>12 DEF OnPeerClosed, TypeOK, ringVars, writerVars, Results, Interrupts
  <1>13. ASSUME NEW e \in Interrupts, OnReadError(e) PROVE TypeOK'
    BY <1>13 DEF OnReadError, TypeOK, ringVars, writerVars, Results
  <1>14. CASE UNCHANGED vars
    BY <1>14 DEF vars, TypeOK, ringVars, writerVars, readerVars
  <1> QED BY <1>2, <1>3, <1>4, <1>5, <1>6, <1>7, <1>8, <1>9, <1>10, <1>11,
             <1>12, <1>13, <1>14 DEF Next

\* RpcConn is type correct: in particular head and count never leave the ring.
THEOREM TypeCorrect == Spec => []TypeOK
  BY TypeInit, TypeStep, PTL DEF Spec

-----------------------------------------------------------------------------
(* The ring is a window on the stream.                                       *)

\* consume(m) moves the window m bytes on.
LEMMA ConsumeMovesWindow ==
  ASSUME TypeOK, RingHoldsUnreadBytes, NEW m \in Nat, m <= count,
         mem' = mem, head' = Wrap(head + m), count' = count - m,
         received' = received, written' = written
  PROVE  RingHoldsUnreadBytes'
  <1> USE CapacityPositive
  <1>1. ASSUME NEW i \in 0..(count' - 1)
        PROVE  Peek(i)' = received' - count' + i
    <2>1. m + i \in 0..(count - 1)
      BY <1>1 DEF TypeOK
    <2>2. Wrap(Wrap(head + m) + i) = Wrap(head + (m + i))
      BY <1>1 DEF Wrap, TypeOK
    <2>3. Peek(i)' = Peek(m + i)
      BY <2>2 DEF Peek, Wrap
    <2>4. Peek(m + i) = received - count + (m + i)
      BY <2>1 DEF RingHoldsUnreadBytes
    <2> QED BY <2>3, <2>4 DEF TypeOK
  <1> QED BY <1>1 DEF RingHoldsUnreadBytes

\* readv extends the window by the next k bytes of the stream and leaves the
\* unread ones alone.
LEMMA ReadExtendsWindow ==
  ASSUME TypeOK, RingHoldsUnreadBytes, NEW k \in 1..Capacity, OnRead(k)
  PROVE  RingHoldsUnreadBytes'
  <1> USE CapacityPositive
  <1>0. /\ head \in 0..(Capacity - 1) /\ count \in 0..Capacity /\ received \in Nat
        /\ head' = head /\ count' = count + k /\ received' = received + k
        /\ count + k <= Capacity
    BY DEF TypeOK, OnRead, Writable
  <1>1. received' <= written'
    BY DEF OnRead, writerVars, RingHoldsUnreadBytes
  <1>2. ASSUME NEW i \in 0..(count' - 1)
        PROVE  Peek(i)' = received' - count' + i
    <2> DEFINE c == Wrap(head + i)
    <2>1. c \in 0..(Capacity - 1)
      BY <1>0, <1>2 DEF Wrap
    <2>2. Peek(i)' = IF Ahead(c) < k THEN received + Ahead(c) ELSE mem[c]
      BY <1>0, <2>1 DEF OnRead, Peek, Wrap
    <2>3. CASE i < count
      <3>1. Ahead(c) = Capacity - count + i
        BY <1>0, <1>2, <2>3 DEF Ahead, WriteIndex, Wrap
      <3>2. Peek(i)' = Peek(i)
        BY <1>0, <1>2, <2>2, <3>1 DEF Peek
      <3>3. Peek(i) = received - count + i
        BY <1>0, <1>2, <2>3 DEF RingHoldsUnreadBytes
      <3> QED BY <1>0, <1>2, <3>2, <3>3
    <2>4. CASE i >= count
      <3>1. Ahead(c) = i - count
        BY <1>0, <1>2, <2>4 DEF Ahead, WriteIndex, Wrap
      <3> QED BY <1>0, <1>2, <2>2, <2>4, <3>1
    <2> QED BY <1>0, <1>2, <2>3, <2>4
  <1> QED BY <1>1, <1>2 DEF RingHoldsUnreadBytes

-----------------------------------------------------------------------------
(* Frames.                                                                   *)

\* Frames are only ever added at the end of the stream, so a frame once torn
\* stays torn.
LEMMA FramesGrow ==
  ASSUME TypeOK, [Next]_vars
  PROVE  /\ Len(frames) <= Len(frames')
         /\ \A n \in 1..Len(frames) : frames'[n] = frames[n]
         /\ \A n \in Nat \ {0} : Torn(n) => Torn(n)'
         /\ NoneTorn' => NoneTorn
  <1>0. frames \in Seq(Frames) /\ Len(frames) \in Nat
    BY DEF TypeOK
  <1>1. frames' = frames \/ \E f : frames' = Append(frames, f)
    <2>1. ASSUME NEW k \in 1..(HeaderSize + sending.body), OnWrite(k)
          PROVE  frames' = frames \/ \E f : frames' = Append(frames, f)
      <3>1. CASE wstate = "writing"
        BY <2>1, <3>1 DEF OnWrite
      <3>2. CASE wstate # "writing"
        BY <2>1, <3>2 DEF OnWrite
      <3> QED BY <3>1, <3>2
    <2>2. CASE UNCHANGED vars
      BY <2>2 DEF vars, writerVars
    <2>3. CASE Next /\ ~\E k \in 1..(HeaderSize + sending.body) : OnWrite(k)
      BY <2>3 DEF Next, SendMessage, SendRaw, PutFrame, AbortWrite, Close, GetMessage,
                  AdvanceMore, AdvanceReject, AdvanceDeliver, OnRead, OnPeerClosed,
                  OnReadError, writerVars
    <2> QED BY <2>1, <2>2, <2>3
  <1>2. /\ Len(frames) <= Len(frames') /\ Len(frames') \in Nat
        /\ \A n \in 1..Len(frames) : frames'[n] = frames[n]
    BY <1>0, <1>1
  <1>3. ASSUME NEW n \in Nat \ {0}, Torn(n) PROVE Torn(n)'
    <2>1. n < Len(frames) /\ n \in 1..Len(frames) /\ n + 1 \in 1..Len(frames)
      BY <1>0, <1>3 DEF Torn
    <2>2. frames'[n] = frames[n] /\ frames'[n + 1] = frames[n + 1] /\ n < Len(frames')
      BY <1>0, <1>2, <2>1
    <2> QED BY <1>3, <2>2 DEF Torn, FrameLen
  <1>4. \A n \in Nat \ {0} : Torn(n) => Torn(n)'
    BY <1>3
  <1>5. NoneTorn' => NoneTorn
    <2>1. ASSUME NEW n \in 1..Len(frames), Torn(n) PROVE \E m \in 1..Len(frames') : Torn(m)'
      BY <1>0, <1>2, <1>3, <2>1
    <2> QED BY <2>1 DEF NoneTorn, UntornUpTo
  <1> QED BY <1>2, <1>4, <1>5

\* With a header's worth of bytes in the ring and no torn frame so far, the
\* header read is that of the frame behind the last one handed out.
LEMMA HeaderIsNextFrame ==
  ASSUME TypeOK, RingHoldsUnreadBytes, StreamOfFrames, ConsumedWholeFrames,
         count >= HeaderSize, UntornUpTo(Len(delivered) + 1)
  PROVE  /\ Len(delivered) + 1 <= Len(frames)
         /\ received - count = frames[Len(delivered) + 1].start
         /\ \A h \in DecodedHeaders :
               /\ h.kind = frames[Len(delivered) + 1].kind
               /\ h.body = frames[Len(delivered) + 1].body
  <1> DEFINE L == Len(delivered)
  <1> DEFINE N == Len(frames)
  <1>0. /\ L \in Nat /\ N \in Nat /\ HeaderSize \in Nat /\ HeaderSize > 0
        /\ count \in Nat /\ received \in Nat /\ written \in Nat
        /\ frames \in Seq(Frames)
        /\ \A n \in 1..N : frames[n].start \in Nat /\ frames[n].body \in Nat
    <2>1. /\ L \in Nat /\ N \in Nat /\ HeaderSize \in Nat /\ HeaderSize > 0
          /\ count \in Nat /\ received \in Nat /\ written \in Nat
          /\ frames \in Seq(Frames)
      BY SizesAssumption, CapacityPositive DEF TypeOK
    <2>2. \A n \in 1..N : frames[n] \in Frames
      BY <2>1
    <2> QED BY <2>1, <2>2, SizesAssumption DEF Frames
  <1>1. \A n \in 1..(L + 1) : ~Torn(n)
    BY DEF UntornUpTo
  <1>2. L <= N /\ received - count = FrameBoundary(L)
    BY <1>0, <1>1 DEF UntornUpTo, ConsumedWholeFrames
  <1>3. received <= written
    BY DEF RingHoldsUnreadBytes
  <1>4. L < N
    <2> SUFFICES ASSUME L = N PROVE FALSE
      BY <1>0, <1>2
    <2>1. written <= FrameBoundary(N)
      <3>1. CASE N = 0
        BY <1>0, <3>1 DEF StreamOfFrames, FrameBoundary
      <3>2. CASE N # 0
        BY <1>0, <3>2 DEF StreamOfFrames, FrameEnd
      <3> QED BY <3>1, <3>2
    <2>2. FrameBoundary(N) = received - count
      BY <1>2
    <2> QED BY <1>0, <1>3, <2>1, <2>2
  <1>5. received - count = frames[L + 1].start
    <2>1. CASE L = 0
      BY <1>0, <1>2, <1>4, <2>1 DEF StreamOfFrames, FrameBoundary
    <2>2. CASE L # 0
      <3>1. L \in 1..N /\ ~Torn(L)
        BY <1>0, <1>1, <1>4, <2>2
      <3>2. frames[L + 1].start >= frames[L].start + FrameLen(L)
        <4>1. ~(frames[L + 1].start < frames[L].start + FrameLen(L))
          BY <1>4, <3>1 DEF Torn
        <4>2. /\ frames[L].start \in Nat /\ frames[L].body \in Nat
              /\ frames[L + 1].start \in Nat
          BY <1>0, <1>4, <3>1
        <4>3. FrameLen(L) \in Nat
          BY <1>0, <4>2 DEF FrameLen
        <4> QED BY <4>1, <4>2, <4>3
      <3>3. frames[L + 1].start <= FrameBoundary(L)
        BY <1>4, <3>1 DEF StreamOfFrames, FrameEnd
      <3>4. FrameBoundary(L) = frames[L].start + FrameLen(L)
        BY <2>2 DEF FrameBoundary
      <3>5. frames[L].start + FrameLen(L) \in Nat /\ frames[L + 1].start \in Nat
        BY <1>0, <1>4, <3>1 DEF FrameLen
      <3> QED BY <1>2, <3>2, <3>3, <3>4, <3>5
    <2> QED BY <2>1, <2>2
  <1>6. FrameEnd(L + 1) >= frames[L + 1].start + HeaderSize
    <2>1. CASE L + 1 = N
      BY <1>0, <1>3, <1>5, <2>1 DEF FrameEnd
    <2>2. CASE L + 1 < N
      <3>1. frames[L + 2].start >= frames[L + 1].start + FrameLen(L + 1)
        <4>1. ~Torn(L + 1)
          BY <1>0, <1>1
        <4>2. L + 1 \in 1..N /\ L + 2 \in 1..N /\ (L + 1) + 1 = L + 2
          BY <1>0, <2>2
        <4>3. ~(frames[L + 2].start < frames[L + 1].start + FrameLen(L + 1))
          BY <2>2, <4>1, <4>2 DEF Torn
        <4>4. /\ frames[L + 1].start \in Nat /\ frames[L + 1].body \in Nat
              /\ frames[L + 2].start \in Nat
          BY <1>0, <4>2
        <4>5. FrameLen(L + 1) \in Nat
          BY <4>4, SizesAssumption DEF FrameLen
        <4> QED BY <4>3, <4>4, <4>5
      <3>2. FrameEnd(L + 1) = frames[L + 2].start
        BY <1>0, <2>2 DEF FrameEnd
      <3>3. /\ frames[L + 1].start \in Nat /\ frames[L + 1].body \in Nat
            /\ frames[L + 2].start \in Nat
        BY <1>0, <2>2
      <3>4. FrameLen(L + 1) \in Nat /\ FrameLen(L + 1) >= HeaderSize
        BY <1>0, <3>3 DEF FrameLen
      <3>5. HeaderSize \in Nat
        BY SizesAssumption
      <3> HIDE DEF L, N
      <3>6. frames[L + 1].start + FrameLen(L + 1) >= frames[L + 1].start + HeaderSize
        BY <3>3, <3>4, <3>5
      <3> QED BY <3>1, <3>2, <3>3, <3>4, <3>5, <3>6
    <2> QED BY <1>0, <1>4, <2>1, <2>2
  <1>7. OwnHeader(L + 1)
    BY <1>0, <1>5, <1>6 DEF OwnHeader, RingHoldsUnreadBytes
  <1> QED BY <1>0, <1>4, <1>5, <1>7 DEF DecodedHeaders

-----------------------------------------------------------------------------
(* The framing invariant.                                                    *)

\* The framing invariant holds of a new connection.
LEMMA FramingInit == Init => FramingInv
  <1> SUFFICES ASSUME Init PROVE FramingInv OBVIOUS
  <1>1. TypeOK BY TypeInit
  <1>2. RingHoldsUnreadBytes
    BY DEF Init, RingHoldsUnreadBytes
  <1>3. StreamOfFrames
    BY DEF Init, StreamOfFrames
  <1>4. ConsumedWholeFrames /\ MessagesAreFrames
    BY DEF Init, ConsumedWholeFrames, MessagesAreFrames, FrameBoundary
  <1>5. RejectedFrameBlocks /\ NoSpaceMeansOversize
    BY DEF Init, RejectedFrameBlocks, NoSpaceMeansOversize, Rejections
  <1> QED BY <1>1, <1>2, <1>3, <1>4, <1>5 DEF FramingInv

\* Writing a byte, whether it begins a frame or not, keeps the stream a
\* sequence of frames.
LEMMA WriteKeepsStream ==
  ASSUME TypeOK, StreamOfFrames, NEW k \in 1..(HeaderSize + sending.body), OnWrite(k)
  PROVE  StreamOfFrames'
  <1> DEFINE N == Len(frames)
  <1>1. /\ N \in Nat /\ frames \in Seq(Frames) /\ written \in Nat /\ HeaderSize \in Nat
        /\ sending \in Headers /\ sending.body \in Nat /\ k \in Nat /\ k > 0
        /\ written' = written + k
    <2>1. sending \in Headers
      BY DEF TypeOK, OnWrite
    <2>2. sending.body \in Nat
      BY <2>1, SizesAssumption DEF Headers
    <2> QED BY <2>1, <2>2, SizesAssumption DEF TypeOK, OnWrite
  <1>2. \A n \in 1..N : frames[n] \in Frames
    BY <1>1
  <1>3. \A n \in 1..N : frames[n].start \in Nat /\ frames[n].body \in Nat
    BY <1>2, SizesAssumption DEF Frames
  <1>4. CASE wstate = "writing"
    <2>1. N > 0 /\ frames' = frames /\ frames[N].body = sending.body
      BY <1>1, <1>4 DEF OnWrite, StreamOfFrames
    <2>2. written + k <= frames[N].start + HeaderSize + sending.body
      BY <1>4 DEF OnWrite
    <2>3. ASSUME NEW n \in 1..N PROVE FrameEnd(n)' <= FrameBoundary(n)'
      <3>1. CASE n = N
        BY <1>1, <1>3, <2>1, <2>2, <3>1 DEF FrameEnd, FrameBoundary, FrameLen
      <3>2. CASE n < N
        BY <1>1, <2>1, <2>3, <3>2 DEF FrameEnd, FrameBoundary, FrameLen, StreamOfFrames
      <3> QED BY <1>1, <3>1, <3>2
    <2>4. wstate' = "writing" => sending' = sending
      BY <1>4 DEF OnWrite
    <2> QED BY <1>1, <2>1, <2>3, <2>4 DEF StreamOfFrames
  <1>5. CASE wstate # "writing"
    <2> DEFINE f == [start |-> written, kind |-> sending.kind, body |-> sending.body]
    <2>1. frames' = Append(frames, f) /\ written + k <= written + HeaderSize + sending.body
      BY <1>5 DEF OnWrite
    <2>2. /\ Len(frames') = N + 1 /\ frames'[N + 1] = f
          /\ \A n \in 1..N : frames'[n] = frames[n]
      BY <1>1, <2>1
    <2>3. ASSUME NEW n \in 1..(N + 1) PROVE FrameEnd(n)' <= FrameBoundary(n)'
      <3>1. CASE n = N + 1
        <4>1. FrameEnd(n)' = written + k
          BY <1>1, <2>2, <3>1 DEF FrameEnd
        <4>2. FrameBoundary(n)' = written + (HeaderSize + sending.body)
          BY <1>1, <2>2, <3>1 DEF FrameBoundary, FrameLen
        <4> QED BY <1>1, <2>1, <4>1, <4>2
      <3>2. CASE n = N
        <4>1. FrameEnd(n)' = written
          BY <1>1, <2>2, <3>2 DEF FrameEnd
        <4>2. n \in 1..N /\ FrameEnd(n) = written
          BY <1>1, <2>3, <3>2 DEF FrameEnd
        <4>3. FrameBoundary(n)' = FrameBoundary(n)
          BY <1>1, <2>2, <4>2 DEF FrameBoundary, FrameLen
        <4> QED BY <4>1, <4>2, <4>3 DEF StreamOfFrames
      <3>3. CASE n < N
        <4>1. n \in 1..N /\ n + 1 \in 1..N
          BY <1>1, <2>3, <3>3
        <4>2. FrameEnd(n)' = FrameEnd(n)
          BY <1>1, <2>2, <3>3, <4>1 DEF FrameEnd
        <4>3. FrameBoundary(n)' = FrameBoundary(n)
          BY <1>1, <2>2, <4>1 DEF FrameBoundary, FrameLen
        <4> QED BY <4>1, <4>2, <4>3 DEF StreamOfFrames
      <3> QED BY <1>1, <2>3, <3>1, <3>2, <3>3
    <2>4. frames' # <<>> /\ frames'[1].start = 0
      <3>0. frames' # <<>>
        BY <1>1, <2>1
      <3>1. CASE N = 0
        <4>1. written = 0
          BY <1>1, <3>1 DEF StreamOfFrames
        <4> QED BY <2>2, <3>0, <3>1, <4>1
      <3>2. CASE N # 0
        BY <1>1, <2>2, <3>0, <3>2 DEF StreamOfFrames
      <3> QED BY <3>1, <3>2
    <2>5. wstate' = "writing" => frames'[Len(frames')].body = sending'.body
      BY <1>1, <1>5, <2>2 DEF OnWrite
    <2> QED BY <2>2, <2>3, <2>4, <2>5 DEF StreamOfFrames
  <1> QED BY <1>4, <1>5

\* A step that hands out no message and keeps the first unread byte keeps what
\* is known of the messages handed out before.
LEMMA QuietStepKeepsMessages ==
  ASSUME TypeOK, ConsumedWholeFrames, MessagesAreFrames, [Next]_vars,
         delivered' = delivered, received' - count' = received - count
  PROVE  ConsumedWholeFrames' /\ MessagesAreFrames'
  <1>0. Len(frames) \in Nat /\ Len(delivered) \in Nat
    BY DEF TypeOK
  <1>1. /\ Len(frames) <= Len(frames') /\ Len(frames') \in Nat
        /\ \A n \in 1..Len(frames) : frames'[n] = frames[n]
        /\ \A n \in Nat \ {0} : Torn(n) => Torn(n)'
    <2>1. TypeOK'
      BY TypeStep
    <2>2. frames' \in Seq(Frames)
      BY <2>1 DEF TypeOK
    <2>3. Len(frames') \in Nat
      BY <2>2
    <2> QED BY <2>3, FramesGrow
  <1>2. ConsumedWholeFrames'
    <2> SUFFICES ASSUME \A n \in 1..Len(delivered) : ~Torn(n)'
                 PROVE  /\ Len(delivered) <= Len(frames')
                        /\ received' - count' = FrameBoundary(Len(delivered))'
      BY DEF ConsumedWholeFrames, UntornUpTo
    <2>1. \A n \in 1..Len(delivered) : ~Torn(n)
      BY <1>0, <1>1
    <2>2. Len(delivered) <= Len(frames) /\ received - count = FrameBoundary(Len(delivered))
      BY <2>1 DEF ConsumedWholeFrames, UntornUpTo
    <2>3. FrameBoundary(Len(delivered))' = FrameBoundary(Len(delivered))
      BY <1>0, <1>1, <2>2 DEF FrameBoundary, FrameLen
    <2> QED BY <1>0, <1>1, <2>2, <2>3
  <1>3. MessagesAreFrames'
    <2> SUFFICES ASSUME NEW j \in 1..Len(delivered), \A n \in 1..j : ~Torn(n)'
                 PROVE  j <= Len(frames') /\ delivered[j] = FrameBytes(j)'
      BY DEF MessagesAreFrames, UntornUpTo
    <2>1. j <= Len(frames) /\ delivered[j] = FrameBytes(j)
      <3>1. \A n \in 1..j : ~Torn(n)
        BY <1>0, <1>1
      <3> QED BY <3>1 DEF MessagesAreFrames, UntornUpTo
    <2>2. frames'[j] = frames[j]
      BY <1>0, <1>1, <2>1
    <2>3. FrameBytes(j)' = FrameBytes(j)
      BY <2>2 DEF FrameBytes, FrameLen
    <2> QED BY <1>0, <1>1, <2>1, <2>3
  <1> QED BY <1>2, <1>3

\* A step that keeps the last result keeps what a rejection says.
LEMMA KeptResultStillBlocks ==
  ASSUME TypeOK, RejectedFrameBlocks, NoSpaceMeansOversize, [Next]_vars,
         delivered' = delivered, result' = result
  PROVE  RejectedFrameBlocks' /\ NoSpaceMeansOversize'
  <1>0. Len(frames) \in Nat /\ Len(delivered) \in Nat
    BY DEF TypeOK
  <1>1. /\ Len(frames) <= Len(frames') /\ Len(frames') \in Nat
        /\ \A n \in 1..Len(frames) : frames'[n] = frames[n]
        /\ NoneTorn' => NoneTorn
    BY FramesGrow, TypeStep DEF TypeOK
  <1>2. Len(delivered) < Len(frames) =>
            /\ Len(delivered') < Len(frames')
            /\ frames'[Len(delivered') + 1] = frames[Len(delivered) + 1]
    BY <1>0, <1>1
  <1>3. RejectedFrameBlocks'
    BY <1>1, <1>2 DEF RejectedFrameBlocks, Unreadable, FrameLen
  <1>4. NoSpaceMeansOversize'
    BY <1>1, <1>2 DEF NoSpaceMeansOversize, FrameLen
  <1> QED BY <1>3, <1>4

\* Handing out a message consumes exactly the frame behind the last one.
LEMMA DeliverKeepsFraming ==
  ASSUME FramingInv, AdvanceDeliver, TypeOK'
  PROVE  FramingInv'
  <1> USE CapacityPositive, SizesAssumption
  <1> DEFINE L == Len(delivered)
  <1>1. PICK h \in DecodedHeaders :
      /\ Parse(h) = "OK"
      /\ delivered' = Append(delivered, [i \in 1..(HeaderSize + h.body) |-> Peek(i - 1)])
      /\ head' = Wrap(head + HeaderSize + h.body)
      /\ count' = count - (HeaderSize + h.body)
    BY DEF AdvanceDeliver
  <1> DEFINE m == HeaderSize + h.body
  <1>2. h \in Headers /\ h.body \in Nat
    BY <1>1 DEF DecodedHeaders, Headers
  <1>3. /\ L \in Nat /\ count \in Nat /\ received \in Nat /\ head \in Nat
        /\ delivered \in Seq(Seq(Nat)) /\ Len(frames) \in Nat
    <2>1. TypeOK
      BY DEF FramingInv
    <2>2. delivered \in Seq(Seq(Nat)) /\ frames \in Seq(Frames)
      BY <2>1 DEF TypeOK
    <2>3. count \in Nat /\ received \in Nat /\ head \in Nat
      BY <2>1 DEF TypeOK
    <2> QED BY <2>2, <2>3
  <1>4. m \in Nat /\ m <= count
    <2>1. Parse(h) = "OK" /\ h.body \in Nat /\ count \in Nat
      BY <1>1, <1>2, <1>3
    <2>2. HeaderSize + h.body <= count
      BY <2>1, ParseOK
    <2> QED BY <1>2, <2>2
  <1>5. /\ mem' = mem /\ received' = received /\ written' = written
        /\ frames' = frames /\ wstate' = wstate /\ sending' = sending
        /\ result' = "OK" /\ count >= HeaderSize
    BY DEF AdvanceDeliver, writerVars
  <1>6. head' = Wrap(head + m)
    BY <1>1, <1>2, <1>3
  <1>7. RingHoldsUnreadBytes'
    BY <1>1, <1>4, <1>5, <1>6, ConsumeMovesWindow DEF FramingInv
  <1>8. StreamOfFrames'
    BY <1>5 DEF FramingInv, StreamOfFrames, FrameEnd, FrameBoundary, FrameLen
  <1>9. Len(delivered') = L + 1
        /\ delivered'[L + 1] = [i \in 1..m |-> Peek(i - 1)]
        /\ \A j \in 1..L : delivered'[j] = delivered[j]
    <2>1. [i \in 1..m |-> Peek(i - 1)] = [i \in 1..(HeaderSize + h.body) |-> Peek(i - 1)]
      OBVIOUS
    <2> QED BY <1>1, <1>3, <2>1
  <1>11. ASSUME UntornUpTo(L + 1)
         PROVE  /\ L + 1 <= Len(frames)
                /\ received' - count' = FrameBoundary(L + 1)
                /\ delivered'[L + 1] = FrameBytes(L + 1)
    <2>1. /\ L + 1 <= Len(frames)
          /\ received - count = frames[L + 1].start
          /\ h.body = frames[L + 1].body
      BY <1>1, <1>5, <1>11, HeaderIsNextFrame DEF FramingInv
    <2>2. m = FrameLen(L + 1)
      BY <2>1 DEF FrameLen
    <2>3. received' - count' = FrameBoundary(L + 1)
      <3>1. received' - count' = (received - count) + m
        <4>1. count' = count - m /\ received' = received
          BY <1>1, <1>5
        <4> HIDE DEF m
        <4> QED BY <1>3, <1>4, <4>1
      <3>2. FrameBoundary(L + 1) = frames[L + 1].start + FrameLen(L + 1)
        BY <1>3 DEF FrameBoundary
      <3> QED BY <2>1, <2>2, <3>1, <3>2
    <2>4. \A i \in 1..m : Peek(i - 1) = frames[L + 1].start + i - 1
      <3> TAKE i \in 1..m
      <3>1. i - 1 \in 0..(count - 1)
        BY <1>3, <1>4
      <3>2. Peek(i - 1) = (received - count) + (i - 1)
        BY <3>1 DEF FramingInv, RingHoldsUnreadBytes
      <3> QED BY <1>3, <1>4, <2>1, <3>2
    <2>5. delivered'[L + 1] = FrameBytes(L + 1)
      BY <1>9, <2>2, <2>4 DEF FrameBytes
    <2> QED BY <2>1, <2>3, <2>5
  <1>12. ConsumedWholeFrames'
    <2>2. UntornUpTo(Len(delivered))' = UntornUpTo(L + 1)
      BY <1>5, <1>9 DEF UntornUpTo, Torn, FrameLen
    <2>3. FrameBoundary(Len(delivered))' = FrameBoundary(L + 1)
      BY <1>5, <1>9 DEF FrameBoundary, FrameLen
    <2> QED BY <1>5, <1>9, <1>11, <2>2, <2>3 DEF ConsumedWholeFrames
  <1>13. MessagesAreFrames'
    <2> SUFFICES ASSUME NEW j \in 1..(L + 1), UntornUpTo(j)
                 PROVE  j <= Len(frames) /\ delivered'[j] = FrameBytes(j)
      BY <1>5, <1>9 DEF MessagesAreFrames, FrameBytes, FrameLen, UntornUpTo, Torn
    <2>1. CASE j = L + 1
      BY <1>11, <2>1
    <2>2. CASE j # L + 1
      <3>1. j \in 1..L
        BY <1>3, <2>2
      <3> QED BY <1>9, <3>1 DEF FramingInv, MessagesAreFrames
    <2> QED BY <2>1, <2>2
  <1>14. RejectedFrameBlocks' /\ NoSpaceMeansOversize'
    BY <1>5 DEF RejectedFrameBlocks, NoSpaceMeansOversize, Rejections
  <1> QED BY <1>7, <1>8, <1>12, <1>13, <1>14 DEF FramingInv

\* A rejection is about the frame behind the last one handed out.
LEMMA RejectionBlocks ==
  ASSUME FramingInv, AdvanceReject \/ AdvanceMore, [Next]_vars
  PROVE  RejectedFrameBlocks' /\ NoSpaceMeansOversize'
  <1> USE CapacityPositive, SizesAssumption
  <1> DEFINE L == Len(delivered)
  <1>0. /\ frames' = frames /\ delivered' = delivered /\ NoneTorn' = NoneTorn
        /\ L \in Nat /\ Len(frames) \in Nat /\ count \in Nat
    BY DEF AdvanceReject, AdvanceMore, writerVars, FramingInv, TypeOK, NoneTorn,
           UntornUpTo, Torn, FrameLen
  <1>1. NoneTorn => UntornUpTo(L + 1)
    BY <1>0 DEF NoneTorn, UntornUpTo, Torn
  <1>2. ASSUME NoneTorn, count >= HeaderSize
        PROVE  /\ L < Len(frames)
               /\ \A h \in DecodedHeaders : /\ h.kind = frames[L + 1].kind
                                            /\ h.body = frames[L + 1].body
                                            /\ h.body \in Nat
    <2>1. \A h \in DecodedHeaders : h.body \in Nat
      BY DEF DecodedHeaders, Headers
    <2> QED BY <1>0, <1>1, <1>2, <2>1, HeaderIsNextFrame DEF FramingInv
  <1>3. CASE AdvanceReject
    <2>1. PICK h \in DecodedHeaders :
              Parse(h) \in {"INVALID", "DESERIALIZATION"} /\ result' = Parse(h)
      BY <1>3 DEF AdvanceReject
    <2>2. count >= HeaderSize
      BY <1>3 DEF AdvanceReject
    <2>3. h.kind \in {"foreign", "broken"} \/ h.body > MaxBodySize
          \/ h.body > MaxMessageSize \/ h.body < FieldSize
      BY <2>1 DEF Parse
    <2>4. NoneTorn => L < Len(frames) /\ Unreadable(L + 1)
      BY <1>2, <2>1, <2>2, <2>3 DEF Unreadable
    <2>5. RejectedFrameBlocks'
      BY <1>0, <2>4 DEF RejectedFrameBlocks, Unreadable, FrameLen
    <2>6. NoSpaceMeansOversize'
      BY <2>1 DEF NoSpaceMeansOversize
    <2> QED BY <2>5, <2>6
  <1>4. CASE AdvanceMore
    <2>1. CASE Writable > 0
      <3>1. result' = result
        BY <1>4, <2>1 DEF AdvanceMore
      <3> QED BY <1>0, <3>1, KeptResultStillBlocks DEF FramingInv
    <2>2. CASE ~(Writable > 0)
      <3>1. count = Capacity /\ result' = "NO_SPACE"
        BY <1>4, <2>2 DEF AdvanceMore, Writable, FramingInv, TypeOK
      <3>2. CASE count < HeaderSize
        BY <3>1, <3>2 DEF RejectedFrameBlocks, NoSpaceMeansOversize
      <3>3. CASE count >= HeaderSize
        <4>1. PICK h \in DecodedHeaders : Parse(h) = "MORE"
          BY <1>0, <1>4, <3>3 DEF AdvanceMore
        <4>2. NoneTorn => L < Len(frames) /\ h.body = frames[L + 1].body /\ h.body \in Nat
          BY <1>2, <3>3, <4>1
        <4>3. count < HeaderSize + h.body
          BY <4>1 DEF Parse
        <4>4. NoneTorn => L < Len(frames) /\ FrameLen(L + 1) > Capacity
          BY <3>1, <4>2, <4>3 DEF FrameLen
        <4>5. RejectedFrameBlocks'
          BY <1>0, <4>4 DEF RejectedFrameBlocks, Unreadable, FrameLen
        <4>6. NoSpaceMeansOversize'
          BY <1>0, <4>4 DEF NoSpaceMeansOversize, FrameLen
        <4> QED BY <4>5, <4>6
      <3> QED BY <1>0, <3>2, <3>3
    <2> QED BY <2>1, <2>2
  <1> QED BY <1>3, <1>4

\* Every step of a connection preserves the framing invariant.
LEMMA FramingStep == FramingInv /\ [Next]_vars => FramingInv'
  <1> SUFFICES ASSUME FramingInv, [Next]_vars PROVE FramingInv' OBVIOUS
  <1> USE CapacityPositive
  <1>0. TypeOK /\ TypeOK'
    BY TypeStep DEF FramingInv
  <1>1. ASSUME UNCHANGED <<ringVars, readerVars>>, written <= written', StreamOfFrames'
        PROVE  FramingInv'
    <2>1. RingHoldsUnreadBytes'
      <3>1. received' <= written'
        BY <1>0, <1>1 DEF FramingInv, RingHoldsUnreadBytes, ringVars, TypeOK
      <3> QED BY <1>1, <3>1 DEF FramingInv, RingHoldsUnreadBytes, ringVars, Peek, Wrap
    <2>2. ConsumedWholeFrames' /\ MessagesAreFrames'
      BY <1>0, <1>1, QuietStepKeepsMessages DEF FramingInv, ringVars, readerVars
    <2>3. RejectedFrameBlocks' /\ NoSpaceMeansOversize'
      BY <1>0, <1>1, KeptResultStillBlocks DEF FramingInv, readerVars
    <2> QED BY <1>0, <1>1, <2>1, <2>2, <2>3 DEF FramingInv
  <1>2. ASSUME UNCHANGED <<writerVars, ringVars, delivered>>,
               RejectedFrameBlocks', NoSpaceMeansOversize'
        PROVE  FramingInv'
    <2>1. RingHoldsUnreadBytes'
      BY <1>2 DEF FramingInv, RingHoldsUnreadBytes, ringVars, writerVars, Peek, Wrap
    <2>2. ConsumedWholeFrames' /\ MessagesAreFrames'
      BY <1>0, <1>2, QuietStepKeepsMessages DEF FramingInv, ringVars
    <2>3. StreamOfFrames'
      BY <1>2 DEF FramingInv, StreamOfFrames, FrameEnd, FrameBoundary, FrameLen, writerVars
    <2> QED BY <1>0, <1>2, <2>1, <2>2, <2>3 DEF FramingInv
  <1>3. ASSUME NEW kind \in Kinds, NEW b \in Bodies, PutFrame(kind, b) PROVE FramingInv'
    <2>1. StreamOfFrames'
      BY <1>3 DEF PutFrame, FramingInv, StreamOfFrames, FrameEnd, FrameBoundary, FrameLen
    <2> QED BY <1>0, <1>1, <1>3, <2>1 DEF PutFrame, TypeOK
  <1>4. ASSUME NEW b \in Bodies, SendMessage(b) PROVE FramingInv'
    BY <1>3, <1>4 DEF SendMessage, Kinds
  <1>5. ASSUME NEW kind \in Kinds, NEW b \in Bodies, SendRaw(kind, b) PROVE FramingInv'
    BY <1>3, <1>5 DEF SendRaw
  <1>6. ASSUME NEW k \in 1..(HeaderSize + sending.body), OnWrite(k) PROVE FramingInv'
    <2>1. StreamOfFrames'
      BY <1>0, <1>6, WriteKeepsStream DEF FramingInv
    <2>2. written <= written'
      BY <1>0, <1>6 DEF OnWrite, TypeOK
    <2> QED BY <1>1, <1>6, <2>1, <2>2 DEF OnWrite
  <1>7. CASE AbortWrite
    <2>1. StreamOfFrames'
      BY <1>7 DEF AbortWrite, FramingInv, StreamOfFrames, FrameEnd, FrameBoundary, FrameLen
    <2> QED BY <1>0, <1>1, <1>7, <2>1 DEF AbortWrite, TypeOK
  <1>8. CASE Close
    <2>1. StreamOfFrames'
      BY <1>8 DEF Close, FramingInv, StreamOfFrames, FrameEnd, FrameBoundary, FrameLen
    <2> QED BY <1>0, <1>1, <1>8, <2>1 DEF Close, TypeOK
  <1>9. CASE GetMessage
    <2>1. RejectedFrameBlocks' /\ NoSpaceMeansOversize'
      BY <1>0, <1>9, KeptResultStillBlocks DEF GetMessage, FramingInv
    <2> QED BY <1>2, <1>9, <2>1 DEF GetMessage
  <1>10. CASE AdvanceMore
    BY <1>2, <1>10, RejectionBlocks DEF AdvanceMore
  <1>11. CASE AdvanceReject
    BY <1>2, <1>11, RejectionBlocks DEF AdvanceReject
  <1>12. CASE AdvanceDeliver
    BY <1>0, <1>12, DeliverKeepsFraming
  <1>13. ASSUME NEW k \in 1..Capacity, OnRead(k) PROVE FramingInv'
    <2>1. RingHoldsUnreadBytes'
      BY <1>0, <1>13, ReadExtendsWindow DEF FramingInv
    <2>2. received' - count' = received - count /\ delivered' = delivered /\ result' = result
      BY <1>0, <1>13 DEF OnRead, TypeOK
    <2>3. ConsumedWholeFrames' /\ MessagesAreFrames'
      BY <1>0, <2>2, QuietStepKeepsMessages DEF FramingInv
    <2>4. RejectedFrameBlocks' /\ NoSpaceMeansOversize'
      BY <1>0, <2>2, KeptResultStillBlocks DEF FramingInv
    <2>5. StreamOfFrames'
      BY <1>13 DEF OnRead, FramingInv, StreamOfFrames, FrameEnd, FrameBoundary, FrameLen,
                   writerVars
    <2> QED BY <1>0, <2>1, <2>3, <2>4, <2>5 DEF FramingInv
  <1>14. CASE OnPeerClosed
    <2>1. RejectedFrameBlocks' /\ NoSpaceMeansOversize'
      BY <1>14 DEF OnPeerClosed, RejectedFrameBlocks, NoSpaceMeansOversize, Rejections
    <2> QED BY <1>2, <1>14, <2>1 DEF OnPeerClosed
  <1>15. ASSUME NEW e \in Interrupts, OnReadError(e) PROVE FramingInv'
    <2>1. RejectedFrameBlocks' /\ NoSpaceMeansOversize'
      BY <1>15 DEF OnReadError, RejectedFrameBlocks, NoSpaceMeansOversize, Rejections,
                   Interrupts
    <2> QED BY <1>2, <1>15, <2>1 DEF OnReadError
  <1>16. CASE UNCHANGED vars
    <2>1. RejectedFrameBlocks' /\ NoSpaceMeansOversize'
      BY <1>0, <1>16, KeptResultStillBlocks DEF FramingInv, vars, readerVars
    <2> QED BY <1>2, <1>16, <2>1 DEF vars, readerVars
  <1> QED BY <1>4, <1>5, <1>6, <1>7, <1>8, <1>9, <1>10, <1>11, <1>12, <1>13,
             <1>14, <1>15, <1>16 DEF Next

\* The framing invariant holds throughout the life of a connection.
THEOREM Framing == Spec => []FramingInv
  BY FramingInit, FramingStep, PTL DEF Spec

\* The ring always holds exactly the unread bytes of the stream, in order, for
\* every ring capacity and every split of the bytes over readv calls.
THEOREM RingIsWindow == Spec => []RingHoldsUnreadBytes
  <1>1. FramingInv => RingHoldsUnreadBytes BY DEF FramingInv
  <1> QED BY <1>1, Framing, PTL

\* Messages are handed out whole, in order and exactly once, across partial
\* writes, partial reads, read timeouts and errors.
THEOREM MessagesWholeAndInOrder == Spec => []MessagesAreFrames
  <1>1. FramingInv => MessagesAreFrames BY DEF FramingInv
  <1> QED BY <1>1, Framing, PTL

\* The reader runs out of ring space only on a frame longer than the ring.
THEOREM NoSpaceOnlyOversize == Spec => []NoSpaceMeansOversize
  <1>1. FramingInv => NoSpaceMeansOversize BY DEF FramingInv
  <1> QED BY <1>1, Framing, PTL

\* After a rejected frame the connection hands out nothing any more.
THEOREM RejectionStops == Spec => RejectionIsFinal
  <1> USE CapacityPositive, SizesAssumption
  <1>1. ASSUME FramingInv, [Next]_vars
        PROVE  [(result \in Rejections /\ NoneTorn) => delivered' = delivered]_vars
    <2>1. CASE AdvanceDeliver /\ result \in Rejections /\ NoneTorn
      <3>1. PICK h \in DecodedHeaders : Parse(h) = "OK"
        BY <2>1 DEF AdvanceDeliver
      <3>2. h.body \in Nat /\ count \in Nat /\ count <= Capacity /\ count >= HeaderSize
            /\ Len(delivered) \in Nat
        <4>1. h.body \in Nat
          BY <3>1 DEF DecodedHeaders, Headers
        <4> QED BY <1>1, <2>1, <4>1 DEF FramingInv, TypeOK, AdvanceDeliver
      <3>3. UntornUpTo(Len(delivered) + 1)
        <4>1. Len(frames) \in Nat
          BY <1>1 DEF FramingInv, TypeOK
        <4>2. ASSUME NEW n \in 1..(Len(delivered) + 1) PROVE ~Torn(n)
          <5>1. CASE n \in 1..Len(frames)
            BY <2>1, <5>1 DEF NoneTorn, UntornUpTo
          <5>2. CASE n \notin 1..Len(frames)
            BY <3>2, <4>1, <5>2 DEF Torn
          <5> QED BY <5>1, <5>2
        <4> QED BY <4>2 DEF UntornUpTo
      <3>4. /\ h.kind = frames[Len(delivered) + 1].kind
            /\ h.body = frames[Len(delivered) + 1].body
        BY <1>1, <3>1, <3>2, <3>3, HeaderIsNextFrame DEF FramingInv
      <3>5. Unreadable(Len(delivered) + 1)
        BY <1>1, <2>1, <3>2 DEF FramingInv, RejectedFrameBlocks
      <3>6. /\ HeaderSize + h.body <= count /\ h.body >= FieldSize
            /\ h.kind \notin {"foreign", "broken"} /\ h.body <= MaxBodySize /\ h.body <= MaxMessageSize
        BY <3>1, <3>2, ParseOK
      <3> QED BY <3>2, <3>4, <3>5, <3>6 DEF Unreadable, FrameLen
    <2>2. CASE ~AdvanceDeliver
      BY <1>1, <2>2 DEF Next, SendMessage, SendRaw, PutFrame, OnWrite, AbortWrite, Close,
                        GetMessage, AdvanceMore, AdvanceReject, OnRead, OnPeerClosed,
                        OnReadError, readerVars
    <2> QED BY <2>1, <2>2
  <1> QED BY <1>1, Framing, PTL DEF Spec, RejectionIsFinal

-----------------------------------------------------------------------------
(* The borrowed payload.                                                     *)

\* The segments of a payload view read the bytes the iovecs would.
LEMMA PayloadViewReads ==
  ASSUME TypeOK, NEW off \in Nat, NEW n \in Nat, off + n <= count
  PROVE  LET v == payloadView(off, n) IN
         /\ v.len1 + v.len2 = n
         /\ v.len1 \in Nat /\ v.len2 \in Nat
         /\ \A i \in 0..(n - 1) :
               Peek(off + i) = IF i < v.len1 THEN mem[v.at1 + i]
                               ELSE mem[v.at2 + i - v.len1]
  <1> USE CapacityPositive
  <1>0. head \in 0..(Capacity - 1) /\ count \in 0..Capacity
    BY DEF TypeOK
  <1> DEFINE first == IF count <= Capacity - head THEN count ELSE Capacity - head
  <1> DEFINE take == IF n <= first - off THEN n ELSE first - off
  <1> DEFINE v == payloadView(off, n)
  <1>1. CASE n = 0
    BY <1>1 DEF payloadView, NoView
  <1>2. CASE n # 0 /\ off >= first
    <2>1. v = [at1 |-> off - first, len1 |-> n, at2 |-> 0, len2 |-> 0]
      BY <1>2 DEF payloadView
    <2>2. \A i \in 0..(n - 1) : Wrap(head + (off + i)) = (off - first) + i
      BY <1>0, <1>2 DEF Wrap
    <2> QED BY <2>1, <2>2 DEF Peek
  <1>3. CASE n # 0 /\ ~(off >= first)
    <2>1. v = [at1 |-> head + off, len1 |-> take, at2 |-> 0, len2 |-> n - take]
      BY <1>3 DEF payloadView
    <2>2. take \in Nat /\ n - take \in Nat /\ take + (n - take) = n
      BY <1>0, <1>3
    <2>3. \A i \in 0..(n - 1) : i < take => Wrap(head + (off + i)) = (head + off) + i
      BY <1>0, <1>3 DEF Wrap
    <2>4. \A i \in 0..(n - 1) : ~(i < take) => Wrap(head + (off + i)) = 0 + i - take
      BY <1>0, <1>3 DEF Wrap
    <2> QED BY <2>1, <2>2, <2>3, <2>4 DEF Peek
  <1> QED BY <1>1, <1>2, <1>3

\* The payload a message borrows from the ring is that message's payload for
\* as long as no readv has brought new bytes.
THEOREM BorrowIsSafe == Spec => []BorrowedPayloadIntact
  <1> USE CapacityPositive, SizesAssumption
  <1>1. Init => BorrowedPayloadIntact
    BY DEF Init, BorrowedPayloadIntact
  <1>2. ASSUME TypeOK, BorrowedPayloadIntact, [Next]_vars PROVE BorrowedPayloadIntact'
    <2>1. CASE AdvanceDeliver
      <3>1. PICK h \in DecodedHeaders :
          /\ Parse(h) = "OK"
          /\ delivered' = Append(delivered, [i \in 1..(HeaderSize + h.body) |-> Peek(i - 1)])
          /\ view' = payloadView(HeaderSize + FieldSize, h.body - FieldSize)
        BY <2>1 DEF AdvanceDeliver
      <3>2. h.body \in Nat /\ count \in Nat
        <4>1. h.body \in Nat
          BY <3>1 DEF DecodedHeaders, Headers
        <4> QED BY <1>2, <4>1 DEF TypeOK
      <3>3. HeaderSize + h.body <= count /\ h.body >= FieldSize
        BY <3>1, <3>2, ParseOK
      <3> DEFINE off == HeaderSize + FieldSize
      <3> DEFINE n == h.body - FieldSize
      <3>4. off \in Nat /\ n \in Nat /\ off + n = HeaderSize + h.body /\ off + n <= count
        BY <3>2, <3>3
      <3>5. /\ view'.len1 + view'.len2 = n
            /\ view'.len1 \in Nat /\ view'.len2 \in Nat
            /\ \A i \in 0..(n - 1) :
                  Peek(off + i) = IF i < view'.len1 THEN mem[view'.at1 + i]
                                  ELSE mem[view'.at2 + i - view'.len1]
        <4>1. view' = payloadView(off, n)
          BY <3>1
        <4> HIDE DEF off, n
        <4> QED BY <1>2, <3>4, <4>1, PayloadViewReads
      <3>6. delivered'[Len(delivered')] = [i \in 1..(HeaderSize + h.body) |-> Peek(i - 1)]
        BY <1>2, <3>1 DEF TypeOK
      <3>7. Len(delivered'[Len(delivered')]) = HeaderSize + h.body
        BY <3>2, <3>6
      <3>8. \A i \in 0..(n - 1) : delivered'[Len(delivered')][off + i + 1] = Peek(off + i)
        <4> TAKE i \in 0..(n - 1)
        <4>1. off + i + 1 \in 1..(HeaderSize + h.body) /\ (off + i + 1) - 1 = off + i
          BY <3>2, <3>3, <3>4
        <4> QED BY <3>6, <4>1
      <3>9. mem' = mem
        BY <2>1 DEF AdvanceDeliver
      <3>10. Len(delivered'[Len(delivered')]) = off + view'.len1 + view'.len2
        BY <3>4, <3>5, <3>7
      <3>11. \A i \in 0..(view'.len1 + view'.len2 - 1) :
                ViewByte(i)' = delivered'[Len(delivered')][off + i + 1]
        <4> TAKE i \in 0..(view'.len1 + view'.len2 - 1)
        <4>1. i \in 0..(n - 1)
          BY <3>5
        <4>2. Peek(off + i) = IF i < view'.len1 THEN mem[view'.at1 + i]
                              ELSE mem[view'.at2 + i - view'.len1]
          BY <3>5, <4>1
        <4>3. ViewByte(i)' = Peek(off + i)
          BY <3>9, <4>2 DEF ViewByte
        <4> QED BY <3>8, <4>1, <4>3
      <3> QED BY <3>10, <3>11 DEF BorrowedPayloadIntact
    <2>2. CASE \E k \in 1..Capacity : OnRead(k)
      BY <2>2 DEF OnRead, BorrowedPayloadIntact
    <2>3. CASE UNCHANGED <<mem, delivered, view>>
      BY <1>2, <2>3 DEF BorrowedPayloadIntact, ViewByte
    <2>4. \/ AdvanceDeliver \/ (\E k \in 1..Capacity : OnRead(k))
          \/ UNCHANGED <<mem, delivered, view>>
      BY <1>2 DEF Next, SendMessage, SendRaw, PutFrame, OnWrite, AbortWrite, Close,
                  GetMessage, AdvanceMore, AdvanceReject, OnPeerClosed, OnReadError,
                  readerVars, ringVars, writerVars, vars
    <2> QED BY <2>1, <2>2, <2>3, <2>4
  <1> QED BY <1>1, <1>2, TypeCorrect, PTL DEF Spec
=============================================================================
