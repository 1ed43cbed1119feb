-------------------------- MODULE RpcStreamReadProofs -------------------------
(***************************************************************************)
(* Proofs about RpcStreamRead: for every ring size, header size and set of *)
(* body lengths, AlignedInv is inductive, so the messages a stream reader  *)
(* returns are the frames that were sent, in order, as long as no read     *)
(* ended between a header and its body.                                    *)
(***************************************************************************)
EXTENDS RpcStreamRead, TLAPS

\* What the proofs use of the constants.
LEMMA Sizes ==
    /\ HeaderSize \in Nat /\ HeaderSize > 0 /\ Capacity \in Nat
    /\ \A b \in Bodies \cup {0} : b \in Nat
  BY StreamSizesAssumption

\* A header that is accepted has a type of the protocol and a length.
LEMMA ValidHeader ==
    ASSUME NEW h \in DecodedHeaders, Valid(h)
    PROVE  h.type \in Types /\ h.body \in Nat
<1>1. h \in Headers
  BY DEF DecodedHeaders
<1>2. h.type \in Types \cup {"foreign"} /\ h.body \in Bodies \cup {0}
  BY <1>1 DEF Headers
<1> QED
  BY <1>2, Sizes DEF Valid

\* What the header leaves is a message.
LEMMA WithHeaderType ==
    ASSUME message \in Messages, consumed \in Nat, NEW h, h.type \in Types
    PROVE  /\ WithHeader(h) \in Messages
           /\ WithHeader(h).type = h.type /\ WithHeader(h).header = consumed
<1>1. PICK e \in BOOLEAN : e = (message.isEnd \/ h.type \in EndTypes)
  BY Zenon
<1>2. WithHeader(h) = [message EXCEPT !.type = h.type, !.header = consumed, !.isEnd = e]
  BY <1>1, Zenon DEF WithHeader
<1> QED
  BY <1>2 DEF Messages

\* A reader that is in step decodes the frame behind the ones it has read.
LEMMA HeaderOfNextFrame ==
    ASSUME AlignedInv, slips = 0, rstate = "advance", phase = "ReadHeader",
           Unread >= HeaderSize, NEW h \in DecodedHeaders
    PROVE  /\ Len(delivered) + 1 \in 1..Len(frames)
           /\ frames[Len(delivered) + 1].start = consumed
           /\ h.type = frames[Len(delivered) + 1].type
           /\ h.body = frames[Len(delivered) + 1].body
<1> DEFINE n == Len(delivered)
<1>1. /\ n \in Nat /\ Len(frames) \in Nat
      /\ consumed \in Nat /\ received \in Nat /\ sent \in Nat /\ received <= sent
  BY DEF AlignedInv, TypeOK
<1>2. n <= Len(frames) /\ consumed = Boundary(n)
  BY DEF AlignedInv, ConsumedWholeFrames
<1>3. n # Len(frames)
  <2> SUFFICES ASSUME n = Len(frames)
               PROVE  FALSE
    OBVIOUS
  <2>1. consumed = sent
    BY <1>2 DEF AlignedInv, StreamOfFrames
  <2> HIDE DEF n
  <2> QED
    BY <2>1, <1>1, Sizes DEF Unread
<1>4. n + 1 \in 1..Len(frames) /\ (n + 1) - 1 = n
  <2> HIDE DEF n
  <2> QED
    BY <1>1, <1>2, <1>3
<1>5. frames[n + 1].start = consumed
  <2>1. frames[n + 1].start = Boundary((n + 1) - 1)
    BY <1>4 DEF AlignedInv, StreamOfFrames
  <2> QED
    BY <2>1, <1>4, <1>2
<1> QED
  BY <1>4, <1>5 DEF DecodedHeaders

-----------------------------------------------------------------------------
(* The parts of the invariant.                                               *)

\* The frames on the stream stay as they are.
LEMMA StreamUnchanged == StreamOfFrames /\ UNCHANGED wireVars => StreamOfFrames'
  BY DEF StreamOfFrames, Boundary, wireVars

\* So do the messages read, when none is delivered and no read slips back.
LEMMA MessagesUnchanged ==
    ASSUME MessagesAreFramesInOrder, UNCHANGED <<frames, delivered>>, slips' = 0 => slips = 0
    PROVE  MessagesAreFramesInOrder'
  BY DEF MessagesAreFramesInOrder, IsFrame

\* A message that is the next frame may be delivered; what is consumed then ends
\* at the frame.
LEMMA Delivering ==
    ASSUME AlignedInv, NEW msg \in Messages, delivered' = Append(delivered, msg),
           UNCHANGED wireVars, UNCHANGED slips, rstate' = "idle",
           slips = 0 => /\ Len(delivered) + 1 \in 1..Len(frames)
                        /\ IsFrame(msg, Len(delivered) + 1)
                        /\ consumed' = Boundary(Len(delivered) + 1)
    PROVE  MessagesAreFramesInOrder' /\ ConsumedWholeFrames'
<1>1. delivered \in Seq(Messages) /\ Len(delivered) \in Nat /\ Len(frames) \in Nat
  BY DEF AlignedInv, TypeOK
<1>2. /\ Len(delivered') = Len(delivered) + 1
      /\ \A j \in 1..Len(delivered) : delivered'[j] = delivered[j]
      /\ delivered'[Len(delivered) + 1] = msg
  BY <1>1
<1>3. frames' = frames /\ slips' = slips
  BY DEF wireVars
<1>4. MessagesAreFramesInOrder'
  <2> SUFFICES ASSUME slips = 0, NEW j \in 1..(Len(delivered) + 1)
               PROVE  j <= Len(frames) /\ IsFrame(delivered'[j], j)
    BY <1>2, <1>3 DEF MessagesAreFramesInOrder, IsFrame
  <2>1. CASE j = Len(delivered) + 1
    BY <2>1, <1>1, <1>2
  <2>2. CASE j \in 1..Len(delivered)
    BY <2>2, <1>2 DEF AlignedInv, MessagesAreFramesInOrder
  <2> QED
    BY <2>1, <2>2, <1>1
<1>5. ConsumedWholeFrames'
  <2>1. PICK n : n = Len(delivered) + 1
    OBVIOUS
  <2>2. Boundary(n)' = Boundary(n)
    BY <1>3 DEF Boundary
  <2>3. slips = 0 => consumed' = Boundary(n)' /\ n <= Len(frames)
    BY <2>1, <2>2, <1>1
  <2>4. Len(delivered') = n
    BY <1>2, <2>1
  <2> QED
    BY <2>3, <2>4, <1>3 DEF ConsumedWholeFrames
<1> QED
  BY <1>4, <1>5

-----------------------------------------------------------------------------
\* Nothing has been sent or read at first.
LEMMA AlignedInit == Init => AlignedInv
<1> SUFFICES ASSUME Init
             PROVE  AlignedInv
  OBVIOUS
<1>1. NewMessage \in Messages
  BY DEF NewMessage, Messages, Types, DataTypes
<1>2. TypeOK
  <2>1. /\ frames \in Seq(Frames) /\ delivered \in Seq(Messages)
        /\ sent \in Nat /\ consumed \in Nat /\ received \in Nat /\ need \in Nat /\ slips \in Nat
    BY DEF Init
  <2>2. consumed <= received /\ received <= sent /\ Unread <= Capacity
    BY Sizes DEF Init, Unread
  <2>3. /\ rstate \in {"idle", "advance", "wait"} /\ phase \in {"ReadHeader", "ReadBody"}
        /\ message \in Messages /\ result \in Results
    BY <1>1 DEF Init, Results
  <2>4. eof \in BOOLEAN
    BY Zenon DEF Init
  <2> QED
    BY <2>1, <2>2, <2>3, <2>4, Zenon DEF TypeOK
<1>3. Len(frames) = 0 /\ Len(delivered) = 0
  BY DEF Init
<1>4. StreamOfFrames
  BY <1>3 DEF Init, StreamOfFrames, Boundary
<1>5. ConsumedWholeFrames /\ MessagesAreFramesInOrder
  BY <1>3 DEF Init, ConsumedWholeFrames, Boundary, MessagesAreFramesInOrder
<1> QED
  BY <1>2, <1>4, <1>5 DEF AlignedInv

\* A frame is sent.
LEMMA AlignedSend ==
    ASSUME AlignedInv, NEW t \in Types, NEW b \in Bodies \cup {0}, Send(t, b)
    PROVE  AlignedInv'
<1> DEFINE f == [start |-> sent, type |-> t, body |-> b]
<1>0. PICK N : N = Len(frames)
  OBVIOUS
<1>1. b \in Nat /\ f \in Frames /\ frames \in Seq(Frames) /\ N \in Nat /\ sent \in Nat
  BY <1>0, Sizes DEF AlignedInv, TypeOK, Frames
<1>2. /\ frames' = Append(frames, f) /\ sent' = sent + HeaderSize + b
      /\ UNCHANGED <<eof, received, consumed, rstate, phase, need, message, result,
                     delivered, slips>>
  BY DEF Send
<1>3. /\ frames' \in Seq(Frames) /\ Len(frames') = N + 1 /\ frames'[N + 1] = f
      /\ \A n \in 1..N : frames'[n] = frames[n]
  <2> HIDE DEF f
  <2> QED
    BY <1>0, <1>1, <1>2
<1>4. TypeOK'
  <2>1. sent' \in Nat /\ received <= sent'
    BY <1>1, <1>2, Sizes DEF AlignedInv, TypeOK
  <2> QED
    BY <2>1, <1>2, <1>3 DEF AlignedInv, TypeOK, Unread
<1>5. \A n \in 0..N : Boundary(n)' = Boundary(n)
  BY <1>3, <1>1 DEF Boundary
<1>6. StreamOfFrames'
  <2>1. sent' = Boundary(N + 1)'
    BY <1>1, <1>2, <1>3 DEF Boundary
  <2>2. ASSUME NEW n \in 1..N
        PROVE  /\ frames'[n].start = Boundary(n - 1)'
               /\ (frames'[n].type \in EndTypes => frames'[n].body = 0)
    <3>1. n - 1 \in 0..N
      BY <1>1
    <3> QED
      BY <3>1, <1>0, <1>3, <1>5 DEF AlignedInv, StreamOfFrames
  <2>3. /\ frames'[N + 1].start = Boundary(N)'
        /\ (frames'[N + 1].type \in EndTypes => frames'[N + 1].body = 0)
    <3>1. Boundary(N)' = sent
      BY <1>0, <1>1, <1>5 DEF AlignedInv, StreamOfFrames
    <3>2. t \in EndTypes => b = 0
      BY DEF Send, DataTypes, EndTypes
    <3> QED
      BY <3>1, <3>2, <1>3
  <2>4. \A n \in 1..(N + 1) : n \in 1..N \/ (n = N + 1 /\ n - 1 = N)
    BY <1>1
  <2> QED
    BY <2>1, <2>2, <2>3, <2>4, <1>3 DEF StreamOfFrames
<1>7. ConsumedWholeFrames'
  <2>1. PICK n \in Nat : n = Len(delivered)
    BY DEF AlignedInv, TypeOK
  <2>2. slips = 0 => n <= N
    BY <2>1, <1>0 DEF AlignedInv, ConsumedWholeFrames
  <2>3. slips = 0 => Boundary(n)' = Boundary(n)
    BY <2>1, <2>2, <1>1, <1>5
  <2>4. slips = 0 /\ n < N => frames'[n + 1] = frames[n + 1]
    BY <2>1, <1>1, <1>3
  <2> QED
    BY <2>1, <2>2, <2>3, <2>4, <1>0, <1>1, <1>2, <1>3 DEF AlignedInv, ConsumedWholeFrames
<1>8. MessagesAreFramesInOrder'
  BY <1>0, <1>1, <1>2, <1>3 DEF AlignedInv, MessagesAreFramesInOrder, IsFrame
<1> QED
  BY <1>4, <1>6, <1>7, <1>8 DEF AlignedInv

\* A step that sends and delivers nothing, and keeps the types, has to keep only
\* what is consumed in step.
LEMMA AlignedQuiet ==
    ASSUME AlignedInv, UNCHANGED <<frames, sent, delivered>>, slips' = 0 => slips = 0,
           TypeOK',
           slips' = 0 => ConsumedWholeFrames'
    PROVE  AlignedInv'
<1>1. StreamOfFrames'
  BY DEF AlignedInv, StreamOfFrames, Boundary
<1>2. MessagesAreFramesInOrder'
  BY MessagesUnchanged DEF AlignedInv
<1>3. ConsumedWholeFrames'
  BY DEF ConsumedWholeFrames
<1> QED
  BY <1>1, <1>2, <1>3 DEF AlignedInv

\* The sender closes.
LEMMA AlignedClose ==
    ASSUME AlignedInv, Close
    PROVE  AlignedInv'
<1>1. TypeOK'
  <2>1. eof' \in BOOLEAN
    BY Zenon DEF Close
  <2> QED
    BY <2>1 DEF AlignedInv, TypeOK, Close, Unread
<1>2. ConsumedWholeFrames'
  BY DEF AlignedInv, ConsumedWholeFrames, Boundary, Close
<1> QED
  BY <1>1, <1>2, AlignedQuiet DEF Close

\* A read begins, with a new message or one used before.
LEMMA AlignedGetMessage ==
    ASSUME AlignedInv, NEW msg \in Messages, getMessage(msg)
    PROVE  AlignedInv'
<1>1. TypeOK'
  BY DEF AlignedInv, TypeOK, getMessage, wireVars, Unread
<1>2. ConsumedWholeFrames'
  BY DEF AlignedInv, ConsumedWholeFrames, Boundary, getMessage, wireVars
<1> QED
  BY <1>1, <1>2, AlignedQuiet DEF getMessage, wireVars

\* readv brings bytes: no more than were sent and than the ring has room for.
LEMMA AlignedOnRead ==
    ASSUME AlignedInv, NEW k \in 1..Capacity, OnRead(k)
    PROVE  AlignedInv'
<1>1. TypeOK'
  <2>1. /\ received' \in Nat /\ consumed <= received' /\ received' <= sent
        /\ received' - consumed <= Capacity
    BY Sizes DEF AlignedInv, TypeOK, OnRead, Unread
  <2> QED
    BY <2>1 DEF AlignedInv, TypeOK, OnRead, wireVars, Unread
<1>2. ConsumedWholeFrames'
  BY DEF AlignedInv, ConsumedWholeFrames, Boundary, OnRead, wireVars
<1> QED
  BY <1>1, <1>2, AlignedQuiet DEF OnRead, wireVars

\* A read ends without a message: in step only if it waited for a header.
LEMMA AlignedInterrupt ==
    ASSUME AlignedInv, NEW e \in Interrupts, Interrupt(e)
    PROVE  AlignedInv'
<1>1. slips \in Nat /\ slips' \in Nat /\ (slips' = 0 => slips = 0 /\ phase = "ReadHeader")
  BY DEF AlignedInv, TypeOK, Interrupt
<1>2. TypeOK'
  BY <1>1 DEF AlignedInv, TypeOK, Interrupt, wireVars, Unread, Results
<1>3. ConsumedWholeFrames'
  BY <1>1 DEF AlignedInv, ConsumedWholeFrames, Boundary, Interrupt, wireVars
<1> QED
  BY <1>1, <1>2, <1>3, AlignedQuiet DEF Interrupt, wireVars

-----------------------------------------------------------------------------
(* advance().                                                                *)

\* Whether it waits or fails, a read that is still in step afterwards either
\* waits or was waiting for a header.
LEMMA WaitOrFailFacts ==
    ASSUME slips \in Nat, result \in Results, WaitOrFail
    PROVE  /\ slips' \in Nat /\ result' \in Results
           /\ rstate' \in {"idle", "wait"}
           /\ slips' = 0 => slips = 0 /\ (rstate' = "wait" \/ phase' # "ReadBody")
  BY DEF WaitOrFail, Results

\* The header has not arrived.
LEMMA AlignedNoHeader ==
    ASSUME AlignedInv, AdvanceNoHeader
    PROVE  AlignedInv'
<1>1. /\ slips' \in Nat /\ result' \in Results /\ rstate' \in {"idle", "wait"}
      /\ slips' = 0 => slips = 0
  BY WaitOrFailFacts DEF AlignedInv, TypeOK, AdvanceNoHeader
<1>2. /\ phase = "ReadHeader" /\ rstate = "advance"
      /\ UNCHANGED <<wireVars, received, consumed, phase, need, message, delivered>>
  BY DEF AdvanceNoHeader
<1>3. TypeOK'
  BY <1>1, <1>2 DEF AlignedInv, TypeOK, wireVars, Unread
<1>4. slips' = 0 => ConsumedWholeFrames'
  BY <1>1, <1>2 DEF AlignedInv, ConsumedWholeFrames, Boundary, wireVars
<1> QED
  BY <1>1, <1>2, <1>3, <1>4, AlignedQuiet DEF wireVars

\* The header is consumed, or was, and the body has not arrived.
LEMMA AlignedNoBody ==
    ASSUME AlignedInv, AdvanceNoBody
    PROVE  AlignedInv'
<1>1. /\ slips' \in Nat /\ result' \in Results /\ rstate' \in {"idle", "wait"}
      /\ slips' = 0 => slips = 0 /\ (rstate' = "wait" \/ phase' # "ReadBody")
  BY WaitOrFailFacts DEF AlignedInv, TypeOK, AdvanceNoBody
<1>2. rstate = "advance" /\ UNCHANGED <<wireVars, received, delivered>>
  BY DEF AdvanceNoBody
<1>3. CASE phase = "ReadBody" /\ UNCHANGED <<consumed, phase, need, message>>
  <2>1. TypeOK'
    BY <1>1, <1>2, <1>3 DEF AlignedInv, TypeOK, wireVars, Unread
  <2>2. slips' = 0 => ConsumedWholeFrames'
    BY <1>1, <1>2, <1>3 DEF AlignedInv, ConsumedWholeFrames, Boundary, wireVars
  <2> QED
    BY <1>1, <1>2, <2>1, <2>2, AlignedQuiet DEF wireVars
<1>4. ASSUME phase = "ReadHeader", Unread >= HeaderSize,
             NEW h \in DecodedHeaders, Valid(h), HasBody(h),
             need' = h.body, phase' = "ReadBody", message' = WithHeader(h),
             consumed' = consumed + HeaderSize
      PROVE  AlignedInv'
  <2>1. h.type \in Types /\ h.body \in Nat
    BY <1>4, ValidHeader
  <2>2. /\ message' \in Messages /\ message'.type = h.type
        /\ message'.header = consumed
    BY <1>4, <2>1, WithHeaderType DEF AlignedInv, TypeOK
  <2>3. /\ consumed' \in Nat /\ consumed' <= received /\ received - consumed' <= Capacity
    BY <1>4, Sizes DEF AlignedInv, TypeOK, Unread
  <2>4. TypeOK'
    BY <1>1, <1>2, <1>4, <2>1, <2>2, <2>3 DEF AlignedInv, TypeOK, wireVars, Unread
  <2>5. slips' = 0 => ConsumedWholeFrames'
    <3> SUFFICES ASSUME slips' = 0
                 PROVE  ConsumedWholeFrames'
      OBVIOUS
    <3>1. PICK n \in Nat : n = Len(delivered)
      BY DEF AlignedInv, TypeOK
    <3>2. /\ n + 1 \in 1..Len(frames) /\ frames[n + 1].start = consumed
          /\ h.type = frames[n + 1].type /\ h.body = frames[n + 1].body
      BY <1>1, <1>2, <1>4, <3>1, HeaderOfNextFrame
    <3>3. n < Len(frames) /\ n <= Len(frames)
      BY <3>1, <3>2
    <3>4. need' # 0
      BY <1>4 DEF HasBody
    <3>5. frames' = frames /\ Len(delivered') = n
      BY <1>2, <3>1 DEF wireVars
    <3> QED
      BY <1>1, <1>4, <2>2, <3>2, <3>3, <3>4, <3>5 DEF ConsumedWholeFrames
  <2> QED
    BY <1>1, <1>2, <2>4, <2>5, AlignedQuiet DEF wireVars
<1> QED
  BY <1>3, <1>4 DEF AdvanceNoBody

\* The header is refused and stays in the ring.
LEMMA AlignedReject ==
    ASSUME AlignedInv, AdvanceReject
    PROVE  AlignedInv'
<1>1. TypeOK'
  BY DEF AlignedInv, TypeOK, AdvanceReject, wireVars, Unread, Results
<1>2. ConsumedWholeFrames'
  BY DEF AlignedInv, ConsumedWholeFrames, Boundary, AdvanceReject, wireVars
<1> QED
  BY <1>1, <1>2, AlignedQuiet DEF AdvanceReject, wireVars

\* Consuming makes room.
LEMMA StillFits ==
    ASSUME NEW r \in Nat, NEW c \in Nat, NEW d \in Nat, NEW k \in Nat, c <= d, r - c <= k
    PROVE  r - d <= k
  OBVIOUS

\* A message is delivered that is the next frame.
LEMMA AlignedDeliver ==
    ASSUME AlignedInv, NEW msg \in Messages, Deliver(msg),
           consumed' \in Nat, consumed <= consumed', consumed' <= received,
           slips = 0 => /\ Len(delivered) + 1 \in 1..Len(frames)
                        /\ IsFrame(msg, Len(delivered) + 1)
                        /\ consumed' = Boundary(Len(delivered) + 1)
    PROVE  AlignedInv'
<1>1. received - consumed' <= Capacity
  <2>1. /\ received \in Nat /\ consumed \in Nat /\ received - consumed <= Capacity
        /\ Capacity \in Nat
    BY Sizes DEF AlignedInv, TypeOK, Unread
  <2> QED
    BY <2>1, StillFits, Zenon
<1>2. delivered' \in Seq(Messages)
  BY DEF AlignedInv, TypeOK, Deliver
<1>3. TypeOK'
  BY <1>1, <1>2 DEF AlignedInv, TypeOK, Deliver, wireVars, Unread, Results
<1>4. MessagesAreFramesInOrder' /\ ConsumedWholeFrames'
  BY Delivering DEF Deliver
<1>5. StreamOfFrames'
  BY StreamUnchanged DEF AlignedInv, Deliver
<1> QED
  BY <1>3, <1>4, <1>5 DEF AlignedInv

\* A message without a body: a control frame, or an empty data frame.
LEMMA AlignedControl ==
    ASSUME AlignedInv, AdvanceControl
    PROVE  AlignedInv'
<1>1. /\ rstate = "advance" /\ phase = "ReadHeader" /\ Unread >= HeaderSize
      /\ consumed' = consumed + HeaderSize
  BY DEF AdvanceControl
<1>2. PICK h \in DecodedHeaders :
        /\ Valid(h) /\ ~HasBody(h)
        /\ Deliver([WithHeader(h) EXCEPT !.at = 0, !.len = 0])
  BY DEF AdvanceControl
<1> DEFINE msg == [WithHeader(h) EXCEPT !.at = 0, !.len = 0]
<1>3. h.type \in Types /\ h.body \in Nat
  BY <1>2, ValidHeader
<1>4. /\ WithHeader(h) \in Messages /\ WithHeader(h).type = h.type
      /\ WithHeader(h).header = consumed
  BY <1>3, WithHeaderType DEF AlignedInv, TypeOK
<1>5. /\ msg \in Messages /\ msg.type = h.type /\ msg.header = consumed /\ msg.len = 0
  BY <1>4 DEF Messages
<1>6. consumed' \in Nat /\ consumed <= consumed' /\ consumed' <= received
  BY <1>1, Sizes DEF AlignedInv, TypeOK, Unread
<1>7. ASSUME slips = 0
      PROVE  /\ Len(delivered) + 1 \in 1..Len(frames)
             /\ IsFrame(msg, Len(delivered) + 1)
             /\ consumed' = Boundary(Len(delivered) + 1)
  <2>1. PICK n \in Nat : n = Len(delivered) + 1
    BY DEF AlignedInv, TypeOK
  <2>2. /\ n \in 1..Len(frames) /\ frames[n].start = consumed
        /\ h.type = frames[n].type /\ h.body = frames[n].body
    BY <1>1, <1>7, <2>1, HeaderOfNextFrame
  <2>3. h.body = 0
    BY <1>2, <2>2 DEF HasBody, AlignedInv, StreamOfFrames
  <2>4. IsFrame(msg, n)
    <3> HIDE DEF msg
    <3> QED
      BY <1>5, <2>2, <2>3 DEF IsFrame
  <2>5. consumed' = Boundary(n)
    BY <1>1, <2>2, <2>3, Sizes DEF Boundary, AlignedInv, TypeOK
  <2> QED
    BY <2>1, <2>2, <2>4, <2>5
<1>8. Deliver(msg)
  BY <1>2
<1> HIDE DEF msg
<1> QED
  BY <1>5, <1>6, <1>7, <1>8, AlignedDeliver

\* A message with its body, after one look at the ring or after several.
LEMMA AlignedBody ==
    ASSUME AlignedInv, AdvanceBody
    PROVE  AlignedInv'
<1>1. rstate = "advance"
  BY DEF AdvanceBody
<1>2. ASSUME phase = "ReadHeader", NEW h \in DecodedHeaders,
             Valid(h), HasBody(h), Unread >= HeaderSize + h.body,
             Deliver([WithHeader(h) EXCEPT !.at = consumed + HeaderSize, !.len = h.body]),
             consumed' = consumed + HeaderSize + h.body
      PROVE  AlignedInv'
  <2> DEFINE msg == [WithHeader(h) EXCEPT !.at = consumed + HeaderSize, !.len = h.body]
  <2>1. h.type \in Types /\ h.body \in Nat
    BY <1>2, ValidHeader
  <2>2. /\ WithHeader(h) \in Messages /\ WithHeader(h).type = h.type
        /\ WithHeader(h).header = consumed
    BY <2>1, WithHeaderType DEF AlignedInv, TypeOK
  <2>3. consumed \in Nat /\ consumed + HeaderSize \in Nat
    BY Sizes DEF AlignedInv, TypeOK
  <2>4. /\ msg \in Messages /\ msg.type = h.type /\ msg.header = consumed
        /\ msg.len = h.body /\ msg.at = consumed + HeaderSize
    BY <2>1, <2>2, <2>3 DEF Messages
  <2>5. /\ consumed' \in Nat /\ consumed <= consumed' /\ consumed' <= received
        /\ Unread >= HeaderSize
    BY <1>2, <2>1, Sizes DEF AlignedInv, TypeOK, Unread
  <2>6. ASSUME slips = 0
        PROVE  /\ Len(delivered) + 1 \in 1..Len(frames)
               /\ IsFrame(msg, Len(delivered) + 1)
               /\ consumed' = Boundary(Len(delivered) + 1)
    <3>1. PICK n \in Nat : n = Len(delivered) + 1
      BY DEF AlignedInv, TypeOK
    <3>2. /\ n \in 1..Len(frames) /\ frames[n].start = consumed
          /\ h.type = frames[n].type /\ h.body = frames[n].body
      BY <1>1, <1>2, <2>5, <2>6, <3>1, HeaderOfNextFrame
    <3>3. IsFrame(msg, n)
      <4> HIDE DEF msg
      <4> QED
        BY <2>4, <3>2 DEF IsFrame
    <3>4. consumed' = Boundary(n)
      BY <1>2, <3>2 DEF Boundary
    <3> QED
      BY <3>1, <3>2, <3>3, <3>4
  <2>7. Deliver(msg)
    BY <1>2
  <2> HIDE DEF msg
  <2> QED
    BY <2>4, <2>5, <2>6, <2>7, AlignedDeliver
<1>3. ASSUME phase = "ReadBody", Unread >= need,
             Deliver([message EXCEPT !.at = consumed, !.len = need]),
             consumed' = consumed + need
      PROVE  AlignedInv'
  <2> DEFINE msg == [message EXCEPT !.at = consumed, !.len = need]
  <2>1. /\ message \in Messages /\ consumed \in Nat /\ need \in Nat
    BY DEF AlignedInv, TypeOK
  <2>2. /\ msg \in Messages /\ msg.type = message.type /\ msg.header = message.header
        /\ msg.len = need /\ msg.at = consumed
    BY <2>1 DEF Messages
  <2>3. consumed' \in Nat /\ consumed <= consumed' /\ consumed' <= received
    BY <1>3, <2>1 DEF AlignedInv, TypeOK, Unread
  <2>4. ASSUME slips = 0
        PROVE  /\ Len(delivered) + 1 \in 1..Len(frames)
               /\ IsFrame(msg, Len(delivered) + 1)
               /\ consumed' = Boundary(Len(delivered) + 1)
    <3>1. PICK n \in Nat : n = Len(delivered) + 1
      BY DEF AlignedInv, TypeOK
    <3>2. /\ Len(delivered) < Len(frames) /\ consumed = frames[n].start + HeaderSize
          /\ need = frames[n].body
          /\ message.type = frames[n].type /\ message.header = frames[n].start
      BY <1>1, <1>3, <2>4, <3>1 DEF AlignedInv, ConsumedWholeFrames
    <3>3. n \in 1..Len(frames)
      BY <3>1, <3>2 DEF AlignedInv, TypeOK
    <3>4. IsFrame(msg, n)
      <4> HIDE DEF msg
      <4> QED
        BY <2>2, <3>2 DEF IsFrame
    <3>5. consumed' = Boundary(n)
      BY <1>3, <3>2, <3>3 DEF Boundary
    <3> QED
      BY <3>1, <3>3, <3>4, <3>5
  <2>5. Deliver(msg)
    BY <1>3
  <2> HIDE DEF msg
  <2> QED
    BY <2>2, <2>3, <2>4, <2>5, AlignedDeliver
<1> QED
  BY <1>2, <1>3 DEF AdvanceBody

-----------------------------------------------------------------------------
\* The stream reader stays in step with the frames on the stream.
THEOREM StreamAligned == Spec => []AlignedInv
<1>1. AlignedInv /\ [Next]_vars => AlignedInv'
  <2> SUFFICES ASSUME AlignedInv, [Next]_vars
               PROVE  AlignedInv'
    OBVIOUS
  <2>1. CASE \E t \in Types, b \in Bodies \cup {0} : Send(t, b)
    BY <2>1, AlignedSend
  <2>2. CASE Close
    BY <2>2, AlignedClose
  <2>3. CASE \E msg \in {NewMessage, message} : getMessage(msg)
    <3>1. NewMessage \in Messages /\ message \in Messages
      BY DEF NewMessage, Messages, Types, DataTypes, AlignedInv, TypeOK
    <3> QED
      BY <3>1, <2>3, AlignedGetMessage
  <2>4. CASE Advance
    BY <2>4, AlignedNoHeader, AlignedNoBody, AlignedReject, AlignedControl, AlignedBody
       DEF Advance
  <2>5. CASE \E k \in 1..Capacity : OnRead(k)
    BY <2>5, AlignedOnRead
  <2>6. CASE \E e \in Interrupts : Interrupt(e)
    BY <2>6, AlignedInterrupt
  <2>7. CASE UNCHANGED vars
    <3>1. TypeOK'
      BY <2>7 DEF AlignedInv, TypeOK, Unread, vars, wireVars
    <3>2. ConsumedWholeFrames'
      BY <2>7 DEF AlignedInv, ConsumedWholeFrames, Boundary, vars, wireVars
    <3> QED
      BY <2>7, <3>1, <3>2, AlignedQuiet DEF vars, wireVars
  <2> QED
    BY <2>1, <2>2, <2>3, <2>4, <2>5, <2>6, <2>7 DEF Next
<1> QED
  BY AlignedInit, <1>1, PTL DEF Spec

\* Every variable keeps its type and the ring never holds more than it can.
THEOREM StreamTypeCorrect == Spec => []TypeOK
<1>1. AlignedInv => TypeOK
  BY DEF AlignedInv
<1> QED
  BY StreamAligned, <1>1, PTL

\* The j-th message read is the j-th frame sent, as long as no read ended between
\* a header and its body: for every ring, every split of the bytes and every
\* number of reads that timed out while they waited for a header.
THEOREM StreamInOrder == Spec => []MessagesAreFramesInOrder
<1>1. AlignedInv => MessagesAreFramesInOrder
  BY DEF AlignedInv
<1> QED
  BY StreamAligned, <1>1, PTL

-----------------------------------------------------------------------------
(* "No writable ring buffer space".                                          *)

\* A header that fits the ring is never short of room, so the read that fails
\* has consumed a header: it is the read that slips.
NoSpaceInv ==
    /\ NoSpaceMeansOversizeBody
    /\ result = "NO_SPACE" => HeaderSize > Capacity \/ slips >= 1

\* A step that leaves the result alone.
LEMMA NoSpaceKept ==
    ASSUME AlignedInv, NoSpaceInv, UNCHANGED <<result, slips, delivered>>,
           \/ frames' = frames
           \/ \E f : frames' = Append(frames, f)
    PROVE  NoSpaceInv'
<1>1. /\ frames \in Seq(Frames) /\ Len(frames) \in Nat /\ Len(delivered) \in Nat
  BY DEF AlignedInv, TypeOK
<1>2. Len(delivered) < Len(frames) =>
         /\ Len(delivered) < Len(frames')
         /\ frames'[Len(delivered) + 1] = frames[Len(delivered) + 1]
  <2>1. CASE frames' = frames
    BY <2>1
  <2>2. ASSUME NEW f, frames' = Append(frames, f)
        PROVE  Len(frames') = Len(frames) + 1 /\ \A n \in 1..Len(frames) : frames'[n] = frames[n]
    BY <1>1, <2>2
  <2> QED
    BY <2>1, <2>2, <1>1
<1> QED
  BY <1>2 DEF NoSpaceInv, NoSpaceMeansOversizeBody

\* A step whose result is another one.
LEMMA NoSpaceElse ==
    ASSUME result' # "NO_SPACE"
    PROVE  NoSpaceInv'
  BY DEF NoSpaceInv, NoSpaceMeansOversizeBody

\* Without a header there is room, if a header fits at all.
LEMMA NoSpaceNoHeader ==
    ASSUME AlignedInv, NoSpaceInv, AdvanceNoHeader
    PROVE  NoSpaceInv'
<1>1. /\ Unread < HeaderSize /\ UNCHANGED <<frames, delivered>>
      /\ received - consumed' = Unread
  BY DEF AdvanceNoHeader, Unread, wireVars
<1>2. CASE received - consumed' < Capacity
  <2>1. UNCHANGED <<result, slips>>
    BY <1>2 DEF AdvanceNoHeader, WaitOrFail
  <2> QED
    BY <1>1, <2>1, NoSpaceKept
<1>3. CASE ~(received - consumed' < Capacity)
  <2>1. Unread \in Int
    BY DEF AlignedInv, TypeOK, Unread
  <2>2. HeaderSize > Capacity
    BY <1>1, <1>3, <2>1, StreamSizesAssumption
  <2> QED
    BY <2>2 DEF NoSpaceInv, NoSpaceMeansOversizeBody
<1> QED
  BY <1>2, <1>3

\* The body that is waited for is larger than the ring when there is no room.
LEMMA NoSpaceNoBody ==
    ASSUME AlignedInv, NoSpaceInv, AdvanceNoBody
    PROVE  NoSpaceInv'
<1>1. rstate = "advance" /\ UNCHANGED <<frames, delivered>> /\ UNCHANGED received
  BY DEF AdvanceNoBody, wireVars
<1>2. CASE received - consumed' < Capacity
  <2>1. UNCHANGED <<result, slips>>
    BY <1>2 DEF AdvanceNoBody, WaitOrFail
  <2> QED
    BY <1>1, <2>1, NoSpaceKept
<1>3. CASE ~(received - consumed' < Capacity)
  <2>1. slips \in Nat /\ slips' = slips + 1
    BY <1>3 DEF AdvanceNoBody, WaitOrFail, AlignedInv, TypeOK
  <2>2. ASSUME slips = 0
        PROVE  /\ Len(delivered) < Len(frames)
               /\ frames[Len(delivered) + 1].body > Capacity
    <3>1. CASE phase = "ReadBody" /\ Unread < need /\ UNCHANGED consumed
      <4>1. /\ Len(delivered) < Len(frames)
            /\ need = frames[Len(delivered) + 1].body
        BY <1>1, <2>2, <3>1 DEF AlignedInv, ConsumedWholeFrames
      <4>2. need \in Nat /\ Unread \in Int /\ ~(Unread < Capacity) /\ Capacity \in Nat
        BY <1>3, <3>1, Sizes DEF AlignedInv, TypeOK, Unread
      <4>3. need > Capacity
        BY <3>1, <4>2
      <4> QED
        BY <4>1, <4>3
    <3>2. ASSUME phase = "ReadHeader", Unread >= HeaderSize,
                 NEW h \in DecodedHeaders, Valid(h), Unread - HeaderSize < h.body,
                 consumed' = consumed + HeaderSize
          PROVE  /\ Len(delivered) < Len(frames)
                 /\ frames[Len(delivered) + 1].body > Capacity
      <4>1. /\ Len(delivered) + 1 \in 1..Len(frames)
            /\ h.body = frames[Len(delivered) + 1].body
        BY <1>1, <2>2, <3>2, HeaderOfNextFrame
      <4>2. h.body \in Nat
        BY <3>2, ValidHeader
      <4>3. Unread - HeaderSize \in Int /\ ~(Unread - HeaderSize < Capacity) /\ Capacity \in Nat
        BY <1>3, <3>2, Sizes DEF AlignedInv, TypeOK, Unread
      <4>4. h.body > Capacity
        BY <3>2, <4>2, <4>3
      <4>5. Len(delivered) \in Nat /\ Len(frames) \in Nat
        BY DEF AlignedInv, TypeOK
      <4> QED
        BY <4>1, <4>4, <4>5
    <3> QED
      BY <3>1, <3>2 DEF AdvanceNoBody
  <2>3. slips' <= 1 => slips = 0
    BY <2>1
  <2>4. slips' >= 1
    BY <2>1
  <2> QED
    BY <1>1, <2>2, <2>3, <2>4 DEF NoSpaceInv, NoSpaceMeansOversizeBody
<1> QED
  BY <1>2, <1>3

\* A stream read runs out of room only for a body that is larger than the whole
\* ring, whatever the sizes are.
THEOREM StreamNoSpace == Spec => []NoSpaceMeansOversizeBody
<1>1. Init => NoSpaceInv
  BY DEF Init, NoSpaceInv, NoSpaceMeansOversizeBody
<1>2. AlignedInv /\ NoSpaceInv /\ [Next]_vars => NoSpaceInv'
  <2> SUFFICES ASSUME AlignedInv, NoSpaceInv, [Next]_vars
               PROVE  NoSpaceInv'
    OBVIOUS
  <2>1. CASE \E t \in Types, b \in Bodies \cup {0} : Send(t, b)
    BY <2>1, NoSpaceKept DEF Send
  <2>2. CASE Close
    BY <2>2, NoSpaceKept DEF Close
  <2>3. CASE \E msg \in {NewMessage, message} : getMessage(msg)
    BY <2>3, NoSpaceKept DEF getMessage, wireVars
  <2>4. CASE Advance
    <3>1. CASE AdvanceReject
      BY <3>1, NoSpaceElse DEF AdvanceReject
    <3>2. CASE AdvanceControl
      BY <3>2, NoSpaceElse DEF AdvanceControl, Deliver
    <3>3. CASE AdvanceBody
      BY <3>3, NoSpaceElse DEF AdvanceBody, Deliver
    <3> QED
      BY <2>4, <3>1, <3>2, <3>3, NoSpaceNoHeader, NoSpaceNoBody DEF Advance
  <2>5. CASE \E k \in 1..Capacity : OnRead(k)
    BY <2>5, NoSpaceKept DEF OnRead, wireVars
  <2>6. CASE \E e \in Interrupts : Interrupt(e)
    BY <2>6, NoSpaceElse DEF Interrupts, Interrupt
  <2>7. CASE UNCHANGED vars
    BY <2>7, NoSpaceKept DEF vars, wireVars
  <2> QED
    BY <2>1, <2>2, <2>3, <2>4, <2>5, <2>6, <2>7 DEF Next
<1>3. NoSpaceInv => NoSpaceMeansOversizeBody
  BY DEF NoSpaceInv
<1> QED
  BY StreamAligned, <1>1, <1>2, <1>3, PTL DEF Spec

-----------------------------------------------------------------------------
(* Loops that read until isEnd().                                            *)

\* An end or a cancel is among these messages.
Ended(msgs) == \E i \in 1..Len(msgs) : msgs[i].type \in EndTypes

\* The flag of the caller's message comes from an end or a cancel that was
\* delivered, and a read that waits for a body has read neither.
EndInv ==
    /\ LoopsStopAtTheEnd
    /\ message.isEnd => Ended(delivered)
    /\ rstate # "idle" /\ phase = "ReadBody" => message.type \notin EndTypes

\* A step that delivers nothing and sets no flag.
LEMMA EndKept ==
    ASSUME EndInv, UNCHANGED delivered, message'.isEnd => message.isEnd,
           rstate' # "idle" /\ phase' = "ReadBody" => message'.type \notin EndTypes
    PROVE  EndInv'
<1>1. LoopsStopAtTheEnd'
  BY DEF EndInv, LoopsStopAtTheEnd
<1> QED
  BY <1>1 DEF EndInv, Ended

\* A message that is delivered has the flag if it is an end or a cancel, and
\* otherwise only when it had it before.
LEMMA EndDelivered ==
    ASSUME AlignedInv, EndInv, NEW msg \in Messages, Deliver(msg),
           msg.type \in EndTypes => msg.isEnd,
           msg.isEnd => msg.type \in EndTypes \/ message.isEnd
    PROVE  EndInv'
<1>1. PICK n \in Nat : n = Len(delivered)
  BY DEF AlignedInv, TypeOK
<1>2. /\ Len(delivered') = n + 1 /\ delivered'[n + 1] = msg
      /\ \A i \in 1..n : delivered'[i] = delivered[i]
  BY <1>1 DEF AlignedInv, TypeOK, Deliver
<1>3. msg.isEnd => \E i \in 1..(n + 1) : delivered'[i].type \in EndTypes
  <2>1. CASE msg.type \in EndTypes
    BY <1>2, <2>1
  <2>2. CASE message.isEnd
    BY <1>1, <1>2, <2>2 DEF EndInv, Ended
  <2> QED
    BY <2>1, <2>2
<1>4. LoopsStopAtTheEnd'
  <2> SUFFICES ASSUME NEW j \in 1..(n + 1)
               PROVE  /\ delivered'[j].type \in EndTypes => delivered'[j].isEnd
                      /\ delivered'[j].isEnd =>
                            \E i \in 1..j : delivered'[i].type \in EndTypes
    BY <1>2 DEF LoopsStopAtTheEnd
  <2>1. CASE j = n + 1
    BY <1>2, <1>3, <2>1
  <2>2. CASE j \in 1..n
    <3>1. \A i \in 1..j : i \in 1..n
      BY <2>2
    <3> QED
      BY <1>1, <1>2, <2>2, <3>1 DEF EndInv, LoopsStopAtTheEnd
  <2> QED
    BY <2>1, <2>2
<1>5. message'.isEnd => Ended(delivered)'
  BY <1>2, <1>3 DEF Deliver, Ended
<1> QED
  BY <1>4, <1>5 DEF EndInv, Deliver

\* The flag a header leaves.
LEMMA WithHeaderFlag ==
    ASSUME message \in Messages, NEW h, h.type \in Types
    PROVE  /\ WithHeader(h).isEnd => message.isEnd \/ h.type \in EndTypes
           /\ h.type \in EndTypes => WithHeader(h).isEnd
<1>1. PICK e \in BOOLEAN : e = (message.isEnd \/ h.type \in EndTypes)
  BY Zenon
<1>2. WithHeader(h) = [message EXCEPT !.type = h.type, !.header = consumed, !.isEnd = e]
  BY <1>1, Zenon DEF WithHeader
<1>3. WithHeader(h).isEnd = e
  BY <1>2 DEF Messages
<1> QED
  BY <1>1, <1>3, Zenon

\* Where the payload lies is no matter of type and flag.
LEMMA PlacedMessage ==
    ASSUME NEW m \in Messages, NEW a \in Nat, NEW l \in Nat
    PROVE  \E msg \in Messages : /\ msg = [m EXCEPT !.at = a, !.len = l]
                                 /\ msg.type = m.type /\ msg.isEnd = m.isEnd
<1> DEFINE msg == [m EXCEPT !.at = a, !.len = l]
<1>1. msg \in Messages /\ msg.type = m.type /\ msg.isEnd = m.isEnd
  BY DEF Messages
<1> QED
  BY <1>1

\* The header was consumed and its body is still to come: no end and no cancel.
LEMMA EndNoBody ==
    ASSUME AlignedInv, EndInv, AdvanceNoBody
    PROVE  EndInv'
<1>1. UNCHANGED delivered /\ rstate = "advance" /\ message \in Messages /\ consumed \in Nat
  BY DEF AdvanceNoBody, AlignedInv, TypeOK
<1>2. CASE phase = "ReadBody" /\ UNCHANGED <<phase, message>>
  BY <1>1, <1>2, EndKept DEF EndInv
<1>3. ASSUME NEW h \in DecodedHeaders, Valid(h), HasBody(h), message' = WithHeader(h)
      PROVE  EndInv'
  <2>1. h.type \in Types /\ h.type \notin EndTypes
    BY <1>3, ValidHeader DEF HasBody
  <2>2. message'.isEnd => message.isEnd
    BY <1>1, <1>3, <2>1, WithHeaderFlag
  <2>3. message'.type = h.type
    BY <1>1, <1>3, <2>1, WithHeaderType
  <2> QED
    BY <1>1, <2>1, <2>2, <2>3, EndKept
<1> QED
  BY <1>2, <1>3 DEF AdvanceNoBody

\* A message without a body, which may be an end or a cancel.
LEMMA EndControl ==
    ASSUME AlignedInv, EndInv, AdvanceControl
    PROVE  EndInv'
<1>1. message \in Messages /\ consumed \in Nat
  BY DEF AlignedInv, TypeOK
<1>2. PICK h \in DecodedHeaders :
        Valid(h) /\ Deliver([WithHeader(h) EXCEPT !.at = 0, !.len = 0])
  BY DEF AdvanceControl
<1>3. h.type \in Types
  BY <1>2, ValidHeader
<1>4. /\ WithHeader(h) \in Messages /\ WithHeader(h).type = h.type
      /\ WithHeader(h).isEnd => message.isEnd \/ h.type \in EndTypes
      /\ h.type \in EndTypes => WithHeader(h).isEnd
  BY <1>1, <1>3, WithHeaderType, WithHeaderFlag
<1>5. PICK w \in Messages : w = WithHeader(h)
  BY <1>4
<1>6. PICK msg \in Messages : /\ msg = [w EXCEPT !.at = 0, !.len = 0]
                              /\ msg.type = w.type /\ msg.isEnd = w.isEnd
  <2>1. w \in Messages /\ 0 \in Nat
    BY <1>5
  <2> QED
    BY <2>1, PlacedMessage
<1> QED
  BY <1>2, <1>4, <1>5, <1>6, EndDelivered

\* A message with a body, which is neither an end nor a cancel.
LEMMA EndBody ==
    ASSUME AlignedInv, EndInv, AdvanceBody
    PROVE  EndInv'
<1>1. message \in Messages /\ consumed \in Nat /\ need \in Nat /\ rstate = "advance"
  BY DEF AlignedInv, TypeOK, AdvanceBody
<1>2. ASSUME phase = "ReadBody", Deliver([message EXCEPT !.at = consumed, !.len = need])
      PROVE  EndInv'
  <2>1. PICK msg \in Messages :
          /\ msg = [message EXCEPT !.at = consumed, !.len = need]
          /\ msg.type = message.type /\ msg.isEnd = message.isEnd
    BY <1>1, PlacedMessage, Zenon
  <2>2. message.type \notin EndTypes
    BY <1>1, <1>2 DEF EndInv
  <2> QED
    BY <1>2, <2>1, <2>2, EndDelivered
<1>3. ASSUME NEW h \in DecodedHeaders, Valid(h), HasBody(h),
             Deliver([WithHeader(h) EXCEPT !.at = consumed + HeaderSize, !.len = h.body])
      PROVE  EndInv'
  <2>1. h.type \in Types /\ h.type \notin EndTypes /\ h.body \in Nat
    BY <1>3, ValidHeader DEF HasBody
  <2>2. /\ WithHeader(h) \in Messages /\ WithHeader(h).type = h.type
        /\ WithHeader(h).isEnd => message.isEnd \/ h.type \in EndTypes
    BY <1>1, <2>1, WithHeaderType, WithHeaderFlag
  <2>3. PICK w \in Messages : w = WithHeader(h)
    BY <2>2
  <2>4. PICK a \in Nat : a = consumed + HeaderSize
    <3>1. consumed + HeaderSize \in Nat
      BY <1>1, Sizes
    <3> QED
      BY <3>1
  <2>5. PICK l \in Nat : l = h.body
    BY <2>1
  <2>6. PICK msg \in Messages :
          /\ msg = [w EXCEPT !.at = a, !.len = l]
          /\ msg.type = w.type /\ msg.isEnd = w.isEnd
    BY PlacedMessage, Zenon
  <2>7. Deliver(msg)
    BY <1>3, <2>3, <2>4, <2>5, <2>6
  <2> QED
    BY <2>1, <2>2, <2>3, <2>6, <2>7, EndDelivered
<1> QED
  BY <1>2, <1>3 DEF AdvanceBody

\* A caller that reads until isEnd() stops at an end or a cancel, also with a
\* message that is used again and also behind reads that slipped.
THEOREM StreamLoopsStop == Spec => []LoopsStopAtTheEnd
<1>1. Init => EndInv
  BY DEF Init, EndInv, LoopsStopAtTheEnd, NewMessage
<1>2. AlignedInv /\ EndInv /\ [Next]_vars => EndInv'
  <2> SUFFICES ASSUME AlignedInv, EndInv, [Next]_vars
               PROVE  EndInv'
    OBVIOUS
  <2>1. CASE \E t \in Types, b \in Bodies \cup {0} : Send(t, b)
    BY <2>1, EndKept DEF Send, EndInv
  <2>2. CASE Close
    BY <2>2, EndKept DEF Close, EndInv
  <2>3. CASE \E msg \in {NewMessage, message} : getMessage(msg)
    <3>1. UNCHANGED delivered /\ phase' = "ReadHeader" /\ message' \in {NewMessage, message}
      BY <2>3 DEF getMessage
    <3>2. message'.isEnd => message.isEnd
      BY <3>1 DEF NewMessage
    <3> QED
      BY <3>1, <3>2, EndKept
  <2>4. CASE Advance
    <3>1. CASE AdvanceNoHeader
      BY <3>1, EndKept DEF AdvanceNoHeader
    <3>2. CASE AdvanceReject
      BY <3>2, EndKept DEF AdvanceReject
    <3> QED
      BY <2>4, <3>1, <3>2, EndNoBody, EndControl, EndBody DEF Advance
  <2>5. CASE \E k \in 1..Capacity : OnRead(k)
    BY <2>5, EndKept DEF OnRead, EndInv
  <2>6. CASE \E e \in Interrupts : Interrupt(e)
    BY <2>6, EndKept DEF Interrupt
  <2>7. CASE UNCHANGED vars
    BY <2>7, EndKept DEF vars, EndInv
  <2> QED
    BY <2>1, <2>2, <2>3, <2>4, <2>5, <2>6, <2>7 DEF Next
<1>3. EndInv => LoopsStopAtTheEnd
  BY DEF EndInv
<1> QED
  BY StreamAligned, <1>1, <1>2, <1>3, PTL DEF Spec
=============================================================================
