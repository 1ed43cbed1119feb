-------------------------- MODULE RpcParsersProofs ----------------------------
(***************************************************************************)
(* Proofs about RpcParsers for every size of the header and of the body,   *)
(* every byte and every place where the ring wraps around.                 *)
(***************************************************************************)
EXTENDS RpcParsers, SequenceTheorems, TLAPS

(* Pieces of a sequence.                                                     *)

\* c is the n elements of s behind the first offset ones.
PieceOf(c, s, offset, n) ==
    Len(c) = n /\ \A i \in 1..n : c[i] = s[offset + i]

\* SubSeq takes such a piece.
LEMMA SubSeqPiece ==
    ASSUME NEW S, NEW s \in Seq(S), NEW m \in Nat, NEW n \in Nat, m <= n, n <= Len(s)
    PROVE  /\ SubSeq(s, m + 1, n) \in Seq(S)
           /\ PieceOf(SubSeq(s, m + 1, n), s, m, n - m)
  BY DEF PieceOf

\* Or none, when it ends before it begins.
LEMMA NoPiece ==
    ASSUME NEW S, NEW s \in Seq(S), NEW m \in Nat, NEW n \in Nat, n <= m, n <= Len(s)
    PROVE  /\ SubSeq(s, m + 1, n) \in Seq(S)
           /\ PieceOf(SubSeq(s, m + 1, n), s, m, 0)
  BY DEF PieceOf

\* The same piece is the same sequence.
LEMMA SamePiece ==
    ASSUME NEW S, NEW s, NEW c \in Seq(S), NEW d \in Seq(S), NEW offset \in Nat, NEW n \in Nat,
           PieceOf(c, s, offset, n), PieceOf(d, s, offset, n)
    PROVE  c = d
<1>1. Len(c) = n /\ Len(d) = n /\ \A i \in 1..n : c[i] = d[i]
  BY DEF PieceOf
<1> QED
  BY <1>1, SeqEqual

\* A piece of a piece.
LEMMA PieceOfPiece ==
    ASSUME NEW S, NEW s \in Seq(S), NEW b \in Seq(S), NEW c \in Seq(S),
           NEW p \in Nat, NEW len \in Nat, NEW q \in Nat, NEW n \in Nat, q + n <= len,
           PieceOf(b, s, p, len), PieceOf(c, b, q, n)
    PROVE  PieceOf(c, s, p + q, n)
<1>1. ASSUME NEW i \in 1..n PROVE c[i] = s[p + q + i]
  <2>1. q + i \in 1..len /\ p + (q + i) = p + q + i
    BY <1>1
  <2>2. c[i] = b[q + i] /\ b[q + i] = s[p + (q + i)]
    BY <1>1, <2>1 DEF PieceOf
  <2> QED
    BY <2>1, <2>2
<1> QED
  BY <1>1 DEF PieceOf

\* Two pieces that meet.
LEMMA JoinPieces ==
    ASSUME NEW S, NEW s \in Seq(S), NEW x \in Seq(S), NEW y \in Seq(S),
           NEW p \in Nat, NEW m \in Nat, NEW q \in Nat, NEW n \in Nat,
           PieceOf(x, s, p, m), PieceOf(y, s, q, n), n = 0 \/ q = p + m
    PROVE  x \o y \in Seq(S) /\ PieceOf(x \o y, s, p, m + n)
<1>1. Len(x) = m /\ Len(y) = n
  BY DEF PieceOf
<1>2. /\ x \o y \in Seq(S) /\ Len(x \o y) = m + n
      /\ \A i \in 1..(m + n) : (x \o y)[i] = IF i <= m THEN x[i] ELSE y[i - m]
  <2>1. /\ x \o y \in Seq(S) /\ Len(x \o y) = Len(x) + Len(y)
        /\ \A i \in 1..(Len(x) + Len(y)) :
              (x \o y)[i] = IF i <= Len(x) THEN x[i] ELSE y[i - Len(x)]
    BY ConcatProperties
  <2> QED
    BY <1>1, <2>1
<1>3. ASSUME NEW i \in 1..(m + n) PROVE (x \o y)[i] = s[p + i]
  <2>1. CASE i <= m
    <3>1. i \in 1..m
      BY <2>1
    <3>2. (x \o y)[i] = x[i]
      BY <1>2, <2>1
    <3>3. x[i] = s[p + i]
      BY <3>1 DEF PieceOf
    <3> QED
      BY <3>2, <3>3
  <2>2. CASE i > m
    <3>1. i - m \in 1..n /\ q + (i - m) = p + i
      BY <2>2
    <3>2. (x \o y)[i] = y[i - m] /\ y[i - m] = s[q + (i - m)]
      BY <1>2, <2>2, <3>1 DEF PieceOf
    <3> QED
      BY <3>1, <3>2
  <2>3. i <= m \/ i > m
    OBVIOUS
  <2> QED
    BY <2>1, <2>2, <2>3, Zenon
<1> QED
  BY <1>2, <1>3 DEF PieceOf

\* How many of len elements there are behind the first offset ones, if at most n
\* are wanted.
Within(len, offset, n) ==
    IF offset + n <= len THEN n ELSE IF offset <= len THEN len - offset ELSE 0

\* There are no more than are wanted, and none beyond the end.
LEMMA WithinType ==
    ASSUME NEW len \in Nat, NEW offset \in Nat, NEW n \in Nat
    PROVE  /\ Within(len, offset, n) \in Nat /\ Within(len, offset, n) <= n
           /\ Within(len, offset, n) = 0 \/ offset + Within(len, offset, n) <= len
  BY DEF Within

\* Clip takes as many as there are.
LEMMA ClipIs ==
    ASSUME NEW S, NEW s \in Seq(S), NEW offset \in Nat, NEW n \in Nat
    PROVE  /\ Clip(s, offset, n) \in Seq(S)
           /\ PieceOf(Clip(s, offset, n), s, offset, Within(Len(s), offset, n))
<1>1. PICK len \in Nat : len = Len(s)
  OBVIOUS
<1>2. CASE offset + n < len
  <2>1. Clip(s, offset, n) = SubSeq(s, offset + 1, offset + n)
    BY <1>1, <1>2 DEF Clip
  <2>2. Within(len, offset, n) = (offset + n) - offset
    BY <1>2 DEF Within
  <2>3. offset + n \in Nat /\ offset <= offset + n /\ offset + n <= Len(s)
    BY <1>1, <1>2
  <2> QED
    BY <1>1, <2>1, <2>2, <2>3, SubSeqPiece
<1>3. CASE offset + n >= len /\ offset <= len
  <2>1. Clip(s, offset, n) = SubSeq(s, offset + 1, len)
    BY <1>1, <1>3 DEF Clip
  <2>2. Within(len, offset, n) = len - offset
    BY <1>3 DEF Within
  <2>3. offset <= len /\ len <= Len(s)
    BY <1>1, <1>3
  <2>4. /\ SubSeq(s, offset + 1, len) \in Seq(S)
        /\ PieceOf(SubSeq(s, offset + 1, len), s, offset, len - offset)
    BY <2>3, SubSeqPiece
  <2> QED
    BY <1>1, <2>1, <2>2, <2>4
<1>4. CASE offset > len
  <2>1. Clip(s, offset, n) = SubSeq(s, offset + 1, len)
    BY <1>1, <1>4 DEF Clip
  <2>2. Within(len, offset, n) = 0
    BY <1>4 DEF Within
  <2>3. len <= offset /\ len <= Len(s)
    BY <1>1, <1>4
  <2>4. /\ SubSeq(s, offset + 1, len) \in Seq(S)
        /\ PieceOf(SubSeq(s, offset + 1, len), s, offset, 0)
    BY <2>3, NoPiece
  <2> QED
    BY <1>1, <2>1, <2>2, <2>4
<1> QED
  BY <1>1, <1>2, <1>3, <1>4

-----------------------------------------------------------------------------
(* The ring.                                                                 *)

\* The offset in the second iovec, when the first has k bytes.
Rest(k, offset) == IF offset >= k THEN offset - k ELSE 0

\* What is wanted of the two iovecs is what is wanted of both together.
LEMMA WithinAdds ==
    ASSUME NEW len \in Nat, NEW k \in Nat, k <= len, NEW offset \in Nat, NEW n \in Nat
    PROVE  LET f == Within(k, offset, n)
               r == Rest(k, offset)
               g == Within(len - k, r, n - f)
           IN  /\ Within(len, offset, n) = f + g
               /\ g = 0 \/ k + r = offset + f
<1> DEFINE f == Within(k, offset, n)
           r == Rest(k, offset)
           g == Within(len - k, r, n - f)
<1>1. CASE offset + n <= k
  <2>1. f = n /\ n - f = 0 /\ r \in Nat
    BY <1>1 DEF Within, Rest
  <2> HIDE DEF f, r
  <2>2. g = 0
    BY <2>1 DEF Within
  <2> HIDE DEF g
  <2>3. Within(len, offset, n) = f + g
    BY <1>1, <2>1, <2>2 DEF Within
  <2> QED
    BY <2>2, <2>3 DEF f, r, g
<1>2. CASE offset + n > k /\ offset < k
  <2>1. f = k - offset /\ r = 0 /\ n - f = n - (k - offset)
    BY <1>2 DEF Within, Rest
  <2> HIDE DEF f, r
  <2>2. Within(len, offset, n) = f + g /\ k + r = offset + f
    BY <1>2, <2>1 DEF Within
  <2> QED
    BY <2>2 DEF f, r
<1>3. CASE offset + n > k /\ offset >= k
  <2>1. f = 0 /\ r = offset - k /\ n - f = n
    BY <1>3 DEF Within, Rest
  <2> HIDE DEF f, r
  <2>2. Within(len, offset, n) = f + g /\ k + r = offset + f
    BY <1>3, <2>1 DEF Within
  <2> QED
    BY <2>2 DEF f, r
<1> QED
  BY <1>1, <1>2, <1>3

\* A piece that is clipped from one of the iovecs.
LEMMA ClipPiece ==
    ASSUME NEW S, NEW s \in Seq(S), NEW a \in Seq(S), NEW p \in Nat, NEW len \in Nat,
           PieceOf(a, s, p, len), NEW offset \in Nat, NEW n \in Nat
    PROVE  /\ Clip(a, offset, n) \in Seq(S)
           /\ PieceOf(Clip(a, offset, n), s, p + offset, Within(len, offset, n))
<1>1. Len(a) = len
  BY DEF PieceOf
<1>2. PICK c \in Seq(S) : c = Clip(a, offset, n) /\ PieceOf(c, a, offset, Within(len, offset, n))
  BY <1>1, ClipIs
<1>3. PICK w \in Nat : w = Within(len, offset, n) /\ (w = 0 \/ offset + w <= len)
  BY WithinType, Zenon
<1>4. CASE offset + w <= len
  <2>1. PieceOf(c, a, offset, w)
    BY <1>2, <1>3
  <2>2. PieceOf(c, s, p + offset, w)
    BY <1>4, <2>1, PieceOfPiece
  <2> QED
    BY <1>2, <1>3, <2>2
<1>5. CASE w = 0
  <2>1. Len(c) = 0 /\ PieceOf(c, s, p + offset, 0)
    BY <1>2, <1>3, <1>5 DEF PieceOf
  <2> QED
    BY <1>2, <1>3, <1>5, <2>1
<1> QED
  BY <1>3, <1>4, <1>5

\* Where the ring wraps around makes no difference to what is collected from it.
LEMMA Collects ==
    ASSUME NEW S, NEW d \in Seq(S), d = data, NEW k \in 0..Len(d),
           NEW offset \in Nat, NEW n \in Nat
    PROVE  copyFromIovecs(ReadIovecs(k), offset, n) = Clip(d, offset, n)
<1>0. Len(d) \in Nat /\ k \in Nat /\ k <= Len(d) /\ Len(d) - k \in Nat
  OBVIOUS
<1>1. PICK len \in Nat : len = Len(d) /\ k \in Nat /\ k <= len /\ len - k \in Nat
  BY <1>0
<1>2. PICK a \in Seq(S) : a = SubSeq(d, 1, k) /\ PieceOf(a, d, 0, k)
  <2>1. SubSeq(d, 0 + 1, k) \in Seq(S) /\ PieceOf(SubSeq(d, 0 + 1, k), d, 0, k - 0)
    BY <1>1, SubSeqPiece
  <2>2. 0 + 1 = 1 /\ k - 0 = k
    BY <1>1
  <2> QED
    BY <2>1, <2>2
<1>3. PICK b \in Seq(S) : b = SubSeq(d, k + 1, len) /\ PieceOf(b, d, k, len - k)
  <2>1. SubSeq(d, k + 1, len) \in Seq(S) /\ PieceOf(SubSeq(d, k + 1, len), d, k, len - k)
    BY <1>1, SubSeqPiece
  <2> QED
    BY <2>1
<1>4. PICK f \in Nat : f = Within(k, offset, n) /\ f <= n /\ n - f \in Nat
  <2>1. Within(k, offset, n) \in Nat /\ Within(k, offset, n) <= n
    BY <1>1, WithinType
  <2> QED
    BY <2>1
<1>5. PICK r \in Nat : r = Rest(k, offset)
  <2>1. Rest(k, offset) \in Nat
    BY <1>1 DEF Rest
  <2> QED
    BY <2>1
<1>6. PICK g \in Nat : g = Within(len - k, r, n - f)
  <2>1. Within(len - k, r, n - f) \in Nat
    BY <1>1, <1>4, WithinType
  <2> QED
    BY <2>1
<1>7. Within(len, offset, n) = f + g /\ (g = 0 \/ k + r = offset + f)
  <2>1. /\ Within(len, offset, n) =
              Within(k, offset, n) + Within(len - k, Rest(k, offset), n - Within(k, offset, n))
        /\ \/ Within(len - k, Rest(k, offset), n - Within(k, offset, n)) = 0
           \/ k + Rest(k, offset) = offset + Within(k, offset, n)
    BY <1>1, WithinAdds
  <2> QED
    BY <1>4, <1>5, <1>6, <2>1
<1>8. PICK x \in Seq(S) : x = Clip(a, offset, n) /\ PieceOf(x, d, offset, f)
  <2>1. Clip(a, offset, n) \in Seq(S) /\ PieceOf(Clip(a, offset, n), d, 0 + offset, Within(k, offset, n))
    BY <1>1, <1>2, ClipPiece
  <2>2. 0 + offset = offset
    OBVIOUS
  <2> QED
    BY <1>4, <2>1, <2>2
<1>9. PICK y \in Seq(S) : y = Clip(b, r, n - f) /\ PieceOf(y, d, k + r, g)
  <2>1. /\ Clip(b, r, n - f) \in Seq(S)
        /\ PieceOf(Clip(b, r, n - f), d, k + r, Within(len - k, r, n - f))
    BY <1>1, <1>3, <1>4, ClipPiece
  <2> QED
    BY <1>6, <2>1
<1>10. PICK z \in Seq(S) : z = Clip(d, offset, n) /\ PieceOf(z, d, offset, f + g)
  <2>1. /\ Clip(d, offset, n) \in Seq(S)
        /\ PieceOf(Clip(d, offset, n), d, offset, Within(len, offset, n))
    BY <1>1, ClipIs
  <2> QED
    BY <1>7, <2>1
<1>11. x \o y = z
  <2>1. k + r \in Nat /\ f + g \in Nat
    BY <1>1
  <2>2. x \o y \in Seq(S) /\ PieceOf(x \o y, d, offset, f + g)
    BY <1>7, <1>8, <1>9, <2>1, JoinPieces
  <2> QED
    BY <1>10, <2>1, <2>2, SamePiece
<1>12. ReadIovecs(k) = <<a, b>>
  BY <1>1, <1>2, <1>3 DEF ReadIovecs
<1>13. Len(a) = k /\ Len(x) = f
  BY <1>2, <1>8 DEF PieceOf
<1>14. copyFromIovecs(<<a, b>>, offset, n) = x \o y
  BY <1>5, <1>8, <1>9, <1>13 DEF copyFromIovecs, Rest
<1> QED
  BY <1>10, <1>11, <1>12, <1>14
-----------------------------------------------------------------------------
(* The bytes of a message.                                                   *)

Bytes == 0..(Base - 1)

\* Every variable has its type.
WellFormed ==
    /\ header \in [magic : BOOLEAN, type : {"REQUEST", "RESPONSE", "OTHER"}, body : 0..MaxBody]
    /\ data \in Seq(Bytes)

\* A length field holds a natural number.
LEMMA ValueType ==
    ASSUME NEW f \in Seq(Bytes), Len(f) >= 2
    PROVE  Value(f) \in Nat
<1>1. f[1] \in Nat /\ f[2] \in Nat /\ Base \in Nat
  BY ParsersAssumption DEF Bytes
<1>2. f[1] * Base \in Nat
  BY <1>1
<1> QED
  BY <1>1, <1>2 DEF Value

\* The body is the piece of a received message behind its header.
LEMMA BodyIs ==
    ASSUME WellFormed, NEW d \in Seq(Bytes), d = data, Len(d) >= MsgLen
    PROVE  /\ header.body \in Nat /\ HeaderSize \in Nat /\ Len(d) \in Nat
           /\ MsgLen = HeaderSize + header.body
           /\ Body \in Seq(Bytes) /\ Len(Body) = header.body
           /\ PieceOf(Body, d, HeaderSize, header.body)
<1>1. header.body \in Nat /\ HeaderSize \in Nat /\ Len(d) \in Nat
  BY ParsersAssumption DEF WellFormed
<1>2. PICK m \in Nat : m = MsgLen /\ m = HeaderSize + header.body
  BY <1>1 DEF MsgLen
<1>3. HeaderSize <= m /\ m <= Len(d) /\ m - HeaderSize = header.body
  BY <1>1, <1>2
<1>4. /\ SubSeq(d, HeaderSize + 1, m) \in Seq(Bytes)
      /\ PieceOf(SubSeq(d, HeaderSize + 1, m), d, HeaderSize, header.body)
  BY <1>1, <1>3, SubSeqPiece
<1>5. Body = SubSeq(d, HeaderSize + 1, m)
  BY <1>2 DEF Body
<1>6. Body \in Seq(Bytes) /\ PieceOf(Body, d, HeaderSize, header.body)
  BY <1>4, <1>5
<1>7. Len(Body) = header.body
  BY <1>6 DEF PieceOf
<1> QED
  BY <1>1, <1>2, <1>6, <1>7

\* A field inside the body is found by both.
LEMMA FieldIs ==
    ASSUME WellFormed, NEW d \in Seq(Bytes), d = data, Len(d) >= MsgLen,
           NEW q \in Nat, NEW n \in Nat, q + n <= header.body
    PROVE  /\ Clip(d, HeaderSize + q, n) = SubSeq(Body, q + 1, q + n)
           /\ Clip(d, HeaderSize + q, n) \in Seq(Bytes) /\ Len(Clip(d, HeaderSize + q, n)) = n
<1>1. /\ header.body \in Nat /\ HeaderSize \in Nat /\ MsgLen = HeaderSize + header.body
      /\ Body \in Seq(Bytes) /\ Len(Body) = header.body /\ Len(d) \in Nat
      /\ PieceOf(Body, d, HeaderSize, header.body)
  BY BodyIs
<1>2. HeaderSize + q \in Nat /\ Within(Len(d), HeaderSize + q, n) = n
  BY <1>1 DEF Within
<1>3. PICK c \in Seq(Bytes) : c = Clip(d, HeaderSize + q, n) /\ PieceOf(c, d, HeaderSize + q, n)
  <2>1. /\ Clip(d, HeaderSize + q, n) \in Seq(Bytes)
        /\ PieceOf(Clip(d, HeaderSize + q, n), d, HeaderSize + q, n)
    BY <1>2, ClipIs
  <2> QED
    BY <2>1
<1>4. PICK b \in Seq(Bytes) : b = SubSeq(Body, q + 1, q + n) /\ PieceOf(b, Body, q, n)
  <2>1. q + n \in Nat /\ q <= q + n /\ q + n <= Len(Body) /\ (q + n) - q = n
    BY <1>1
  <2>2. /\ SubSeq(Body, q + 1, q + n) \in Seq(Bytes)
        /\ PieceOf(SubSeq(Body, q + 1, q + n), Body, q, (q + n) - q)
    BY <1>1, <2>1, SubSeqPiece
  <2> QED
    BY <2>1, <2>2
<1>5. PieceOf(b, d, HeaderSize + q, n)
  BY <1>1, <1>4, PieceOfPiece
<1>6. b = c
  BY <1>2, <1>3, <1>5, SamePiece
<1>7. Len(c) = n
  BY <1>3 DEF PieceOf
<1> QED
  BY <1>3, <1>4, <1>6, <1>7

-----------------------------------------------------------------------------
(* The parsers.                                                              *)

\* What the connection copies from the ring are bytes; inside the body they are
\* those of the body.
LEMMA CopyIs ==
    ASSUME WellFormed, NEW k \in 0..Len(data)
    PROVE  /\ \A offset, m \in Nat :
                 /\ copyFromIovecs(ReadIovecs(k), offset, m) \in Seq(Bytes)
                 /\ Len(copyFromIovecs(ReadIovecs(k), offset, m)) \in Nat
           /\ Len(data) >= MsgLen => \A q, m \in Nat : q + m <= header.body =>
                 /\ copyFromIovecs(ReadIovecs(k), HeaderSize + q, m) = SubSeq(Body, q + 1, q + m)
                 /\ Len(copyFromIovecs(ReadIovecs(k), HeaderSize + q, m)) = m
<1>1. PICK d \in Seq(Bytes) : d = data /\ k \in 0..Len(d)
  BY DEF WellFormed
<1>2. ASSUME NEW offset \in Nat, NEW m \in Nat
      PROVE  /\ copyFromIovecs(ReadIovecs(k), offset, m) = Clip(d, offset, m)
             /\ Clip(d, offset, m) \in Seq(Bytes) /\ Len(Clip(d, offset, m)) \in Nat
  <2>1. copyFromIovecs(ReadIovecs(k), offset, m) = Clip(d, offset, m)
    BY <1>1, Collects
  <2>2. Clip(d, offset, m) \in Seq(Bytes)
    BY ClipIs
  <2> QED
    BY <2>1, <2>2, LenProperties
<1>3. ASSUME Len(data) >= MsgLen, NEW q \in Nat, NEW m \in Nat, q + m <= header.body
      PROVE  /\ copyFromIovecs(ReadIovecs(k), HeaderSize + q, m) = SubSeq(Body, q + 1, q + m)
             /\ Len(copyFromIovecs(ReadIovecs(k), HeaderSize + q, m)) = m
  <2>1. HeaderSize + q \in Nat
    BY ParsersAssumption
  <2>2. /\ Clip(d, HeaderSize + q, m) = SubSeq(Body, q + 1, q + m)
        /\ Len(Clip(d, HeaderSize + q, m)) = m
    BY <1>1, <1>3, FieldIs
  <2> QED
    BY <1>2, <2>1, <2>2
<1> QED
  BY <1>2, <1>3

\* parseRequest, with a name for what is read on the way.
LEMMA ParseSteps ==
    ASSUME NEW vecs, NEW service, service = copyFromIovecs(vecs, HeaderSize, 2),
           NEW sl, sl = Value(service), NEW behind, behind = HeaderSize + 2 + sl,
           NEW method, method = copyFromIovecs(vecs, behind, 2),
           NEW ml, ml = Value(method), NEW end, end = behind + 2 + ml
    PROVE  parseRequest(vecs) =
              IF Len(service) < 2 \/ behind > MsgLen \/ Len(method) < 2 \/ end > MsgLen
              THEN Failed("DESERIALIZATION_ERROR")
              ELSE Request(copyFromIovecs(vecs, HeaderSize + 2, sl),
                           copyFromIovecs(vecs, behind + 2, ml),
                           copyFromIovecs(vecs, end, MsgLen - end))
  BY DEF parseRequest

\* The same for deserializeRequest.
LEMMA DeserializeSteps ==
    ASSUME NEW body, NEW n, n = Len(body), NEW sl, sl = Value(SubSeq(body, 1, 2)),
           NEW ml, ml = Value(SubSeq(body, sl + 3, sl + 4))
    PROVE  deserializeRequest(body) =
              IF n < 4 \/ 2 + sl > n \/ 4 + sl > n \/ 4 + sl + ml > n
              THEN Failed("DESERIALIZATION_ERROR")
              ELSE Request(SubSeq(body, 3, sl + 2), SubSeq(body, sl + 5, sl + ml + 4),
                           SubSeq(body, sl + ml + 5, n))
  BY DEF deserializeRequest

\* What is left of a message behind the first q bytes of its body.
LEMMA WhatIsLeft ==
    ASSUME NEW h \in Nat, NEW n \in Nat, NEW q \in Nat, q <= n
    PROVE  /\ (h + n) - (h + q) \in Nat
           /\ q + ((h + n) - (h + q)) = n /\ q + ((h + n) - (h + q)) <= n
  OBVIOUS

\* A request that has arrived: the connection's parser, which copies the length
\* fields without a look at the end of the message, and RpcRequest's.
LEMMA RequestsAgree ==
    ASSUME WellFormed, NEW k \in 0..Len(data), Len(data) >= MsgLen
    PROVE  parseRequest(ReadIovecs(k)) = deserializeRequest(Body)
<1>1. PICK v : v = ReadIovecs(k)
  OBVIOUS
<1>2. PICK h \in Nat : h = HeaderSize
  BY ParsersAssumption
<1>3. PICK n \in Nat : n = header.body /\ MsgLen = h + n /\ Len(Body) = n
  <2>1. data \in Seq(Bytes)
    BY DEF WellFormed
  <2>2. header.body \in Nat /\ MsgLen = HeaderSize + header.body /\ Len(Body) = header.body
    BY <2>1, BodyIs
  <2> QED
    BY <1>2, <2>2
<1>4. ASSUME NEW offset \in Nat
      PROVE  /\ copyFromIovecs(v, offset, 2) \in Seq(Bytes)
             /\ Len(copyFromIovecs(v, offset, 2)) \in Nat
  BY <1>1, CopyIs
<1>5. ASSUME NEW q \in Nat, NEW m \in Nat, q + m <= n
      PROVE  /\ copyFromIovecs(v, h + q, m) = SubSeq(Body, q + 1, q + m)
             /\ Len(copyFromIovecs(v, h + q, m)) = m
  BY <1>1, <1>2, <1>3, <1>5, CopyIs
<1>6. PICK service \in Seq(Bytes) : service = copyFromIovecs(v, h, 2) /\ Len(service) \in Nat
  BY <1>4
<1>7. PICK sl : sl = Value(service)
  OBVIOUS
<1>8. PICK behind : behind = h + 2 + sl
  OBVIOUS
<1>9. PICK method : method = copyFromIovecs(v, behind, 2)
  OBVIOUS
<1>10. PICK ml : ml = Value(method)
  OBVIOUS
<1>11. PICK end : end = behind + 2 + ml
  OBVIOUS
<1>12. PICK bad : bad = Failed("DESERIALIZATION_ERROR")
  OBVIOUS
<1>13. parseRequest(v) =
          IF Len(service) < 2 \/ behind > h + n \/ Len(method) < 2 \/ end > h + n
          THEN bad
          ELSE Request(copyFromIovecs(v, h + 2, sl), copyFromIovecs(v, behind + 2, ml),
                       copyFromIovecs(v, end, (h + n) - end))
  <2>1. /\ service = copyFromIovecs(v, HeaderSize, 2) /\ behind = HeaderSize + 2 + sl
        /\ MsgLen = h + n /\ HeaderSize = h
    BY <1>2, <1>3, <1>6, <1>8
  <2> QED
    BY <1>7, <1>9, <1>10, <1>11, <1>12, <2>1, ParseSteps
<1>14. CASE n < 2
  <2>1. deserializeRequest(Body) = bad
    <3>1. n < 4
      BY <1>14
    <3> QED
      BY <1>3, <1>12, <3>1 DEF deserializeRequest
  <2>2. CASE Len(service) < 2
    BY <1>1, <1>13, <2>1, <2>2
  <2>3. CASE Len(service) >= 2
    <3>1. sl \in Nat
      BY <1>7, <2>3, ValueType
    <3>2. behind > h + n
      BY <1>8, <1>14, <3>1
    <3> QED
      BY <1>1, <1>13, <2>1, <3>2
  <2> QED
    BY <1>6, <2>2, <2>3
<1>15. CASE n >= 2
  <2>1. service = SubSeq(Body, 1, 2) /\ Len(service) = 2
    <3>1. 0 \in Nat /\ 2 \in Nat /\ 0 + 2 <= n /\ h + 0 = h /\ 0 + 1 = 1 /\ 0 + 2 = 2
      BY <1>15
    <3>2. /\ copyFromIovecs(v, h + 0, 2) = SubSeq(Body, 0 + 1, 0 + 2)
          /\ Len(copyFromIovecs(v, h + 0, 2)) = 2
      BY <1>5, <3>1
    <3> QED
      BY <1>6, <3>1, <3>2
  <2>2. sl \in Nat
    <3>1. Len(service) >= 2
      BY <2>1
    <3> QED
      BY <1>7, <3>1, ValueType
  <2>3. behind = h + (2 + sl) /\ behind \in Nat
    BY <1>8, <2>2
  <2>4. PICK bl : bl = Value(SubSeq(Body, sl + 3, sl + 4))
    OBVIOUS
  <2>5. deserializeRequest(Body) =
           IF n < 4 \/ 2 + sl > n \/ 4 + sl > n \/ 4 + sl + bl > n
           THEN bad
           ELSE Request(SubSeq(Body, 3, sl + 2), SubSeq(Body, sl + 5, sl + bl + 4),
                        SubSeq(Body, sl + bl + 5, n))
    <3>1. sl = Value(SubSeq(Body, 1, 2)) /\ n = Len(Body)
      BY <1>3, <1>7, <2>1
    <3> QED
      BY <1>12, <2>4, <3>1, DeserializeSteps, Zenon
  <2>6. CASE 2 + sl > n
    <3>1. behind > h + n
      BY <2>2, <2>3, <2>6
    <3> QED
      BY <1>1, <1>13, <2>5, <2>6, <3>1
  <2>7. method \in Seq(Bytes) /\ Len(method) \in Nat
    BY <1>4, <1>9, <2>3
  <2>8. CASE 4 + sl > n
    <3>1. deserializeRequest(Body) = bad
      BY <2>5, <2>8
    <3>2. CASE Len(method) < 2
      BY <1>1, <1>13, <3>1, <3>2
    <3>3. CASE Len(method) >= 2
      <4>1. ml \in Nat
        BY <1>10, <2>7, <3>3, ValueType
      <4>2. end > h + n
        BY <1>11, <2>2, <2>3, <2>8, <4>1
      <4> QED
        BY <1>1, <1>13, <3>1, <4>2
    <3> QED
      BY <2>7, <3>2, <3>3
  <2>9. CASE 2 + sl <= n /\ 4 + sl <= n
    <3>1. method = SubSeq(Body, sl + 3, sl + 4) /\ Len(method) = 2
      <4>1. PICK q \in Nat : q = 2 + sl /\ q + 2 <= n /\ q + 1 = sl + 3 /\ q + 2 = sl + 4
        <5>1. 2 + sl \in Nat /\ (2 + sl) + 2 <= n /\ (2 + sl) + 1 = sl + 3 /\ (2 + sl) + 2 = sl + 4
          BY <2>2, <2>9
        <5> QED
          BY <5>1
      <4>2. /\ copyFromIovecs(v, h + q, 2) = SubSeq(Body, q + 1, q + 2)
            /\ Len(copyFromIovecs(v, h + q, 2)) = 2
        BY <1>5, <4>1
      <4>3. h + q = behind /\ SubSeq(Body, q + 1, q + 2) = SubSeq(Body, sl + 3, sl + 4)
        <5>1. h + q = behind
          BY <2>3, <4>1
        <5>2. SubSeq(Body, q + 1, q + 2) = SubSeq(Body, sl + 3, sl + 4)
          BY <4>1
        <5> QED
          BY <5>1, <5>2
      <4>4. copyFromIovecs(v, h + q, 2) = method
        BY <1>9, <4>3
      <4> QED
        BY <4>2, <4>3, <4>4
    <3>2. ml \in Nat /\ bl = ml
      <4>1. Len(method) >= 2
        <5>1. Len(method) = 2
          BY <3>1, Zenon
        <5> QED
          BY <5>1
      <4>2. ml \in Nat
        BY <1>10, <2>7, <4>1, ValueType
      <4>3. bl = ml
        BY <1>10, <2>4, <3>1, Zenon
      <4> QED
        BY <4>2, <4>3
    <3>3. end = h + (4 + sl + ml) /\ end \in Nat
      BY <1>11, <2>2, <2>3, <3>2
    <3>4. CASE 4 + sl + ml > n
      <4>1. end > h + n
        BY <2>2, <3>2, <3>3, <3>4
      <4> QED
        BY <1>1, <1>13, <2>5, <3>2, <3>4, <4>1
    <3>5. CASE 4 + sl + ml <= n
      <4>1. parseRequest(v) = Request(copyFromIovecs(v, h + 2, sl), copyFromIovecs(v, behind + 2, ml),
                                      copyFromIovecs(v, end, (h + n) - end))
        <5>1. ~ (behind > h + n) /\ ~ (end > h + n) /\ ~ (Len(service) < 2) /\ ~ (Len(method) < 2)
          BY <2>1, <2>2, <2>3, <2>9, <3>1, <3>2, <3>3, <3>5
        <5> QED
          BY <1>13, <5>1
      <4>2. deserializeRequest(Body) =
               Request(SubSeq(Body, 3, sl + 2), SubSeq(Body, sl + 5, sl + ml + 4),
                       SubSeq(Body, sl + ml + 5, n))
        <5>1. ~ (n < 4) /\ ~ (2 + sl > n) /\ ~ (4 + sl > n) /\ ~ (4 + sl + bl > n)
          BY <2>2, <2>9, <3>2, <3>5
        <5> QED
          BY <2>5, <3>2, <5>1
      <4>3. copyFromIovecs(v, h + 2, sl) = SubSeq(Body, 3, sl + 2)
        <5>1. 2 \in Nat /\ 2 + sl <= n /\ 2 + 1 = 3 /\ 2 + sl = sl + 2
          BY <2>2, <2>9
        <5>2. copyFromIovecs(v, h + 2, sl) = SubSeq(Body, 2 + 1, 2 + sl)
          BY <1>5, <2>2, <5>1
        <5> QED
          BY <5>1, <5>2
      <4>4. copyFromIovecs(v, behind + 2, ml) = SubSeq(Body, sl + 5, sl + ml + 4)
        <5>1. PICK q \in Nat : /\ q = 4 + sl /\ q + ml <= n /\ q + 1 = sl + 5
                               /\ q + ml = sl + ml + 4 /\ h + q = behind + 2
          <6>1. /\ 4 + sl \in Nat /\ (4 + sl) + ml <= n /\ (4 + sl) + 1 = sl + 5
                /\ (4 + sl) + ml = sl + ml + 4 /\ h + (4 + sl) = behind + 2
            BY <2>2, <2>3, <3>2, <3>5
          <6> QED
            BY <6>1
        <5>2. copyFromIovecs(v, h + q, ml) = SubSeq(Body, q + 1, q + ml)
          BY <1>5, <3>2, <5>1
        <5> QED
          BY <5>1, <5>2
      <4>5. copyFromIovecs(v, end, (h + n) - end) = SubSeq(Body, sl + ml + 5, n)
        <5>1. PICK q \in Nat : q = 4 + sl + ml /\ q + 1 = sl + ml + 5 /\ end = h + q /\ q <= n
          <6>1. 4 + sl + ml \in Nat /\ (4 + sl + ml) + 1 = sl + ml + 5
            BY <2>2, <3>2
          <6> QED
            BY <3>3, <3>5, <6>1
        <5>2. PICK m \in Nat : m = (h + n) - end /\ q + m = n /\ q + m <= n
          <6>1. /\ (h + n) - (h + q) \in Nat
                /\ q + ((h + n) - (h + q)) = n /\ q + ((h + n) - (h + q)) <= n
            <7>1. q <= n
              BY <5>1
            <7> QED
              BY <7>1, WhatIsLeft, Zenon
          <6>2. end = h + q
            BY <5>1
          <6> QED
            BY <6>1, <6>2, Zenon
        <5>3. copyFromIovecs(v, h + q, m) = SubSeq(Body, q + 1, q + m)
          BY <1>5, <5>2
        <5> QED
          BY <5>1, <5>2, <5>3
      <4> QED
        BY <1>1, <4>1, <4>2, <4>3, <4>4, <4>5
    <3> QED
      BY <2>2, <3>2, <3>4, <3>5
  <2> QED
    BY <2>2, <2>6, <2>8, <2>9
<1> QED
  BY <1>14, <1>15

\* A response that has arrived.
LEMMA ResponsesAgree ==
    ASSUME WellFormed, NEW k \in 0..Len(data), Len(data) >= MsgLen
    PROVE  parseResponse(ReadIovecs(k)) = deserializeResponse(Body)
<1>1. PICK v : v = ReadIovecs(k)
  OBVIOUS
<1>2. PICK n \in Nat : n = header.body /\ Len(Body) = n
  <2>1. data \in Seq(Bytes)
    BY DEF WellFormed
  <2>2. header.body \in Nat /\ Len(Body) = header.body
    BY <2>1, BodyIs
  <2> QED
    BY <2>2
<1>3. CASE n < 2
  BY <1>2, <1>3 DEF parseResponse, deserializeResponse
<1>4. CASE n >= 2
  <2>1. ASSUME NEW q \in Nat, NEW m \in Nat, q + m <= n
        PROVE  copyFromIovecs(v, HeaderSize + q, m) = SubSeq(Body, q + 1, q + m)
    BY <1>1, <1>2, <2>1, CopyIs
  <2>2. copyFromIovecs(v, HeaderSize, 2) = SubSeq(Body, 1, 2)
    <3>1. 0 + 2 <= n /\ HeaderSize + 0 = HeaderSize /\ 0 + 1 = 1 /\ 0 + 2 = 2
      BY <1>4, ParsersAssumption
    <3>2. copyFromIovecs(v, HeaderSize + 0, 2) = SubSeq(Body, 0 + 1, 0 + 2)
      BY <2>1, <3>1
    <3> QED
      BY <3>1, <3>2
  <2>3. copyFromIovecs(v, HeaderSize + 2, n - 2) = SubSeq(Body, 3, n)
    <3>1. PICK m \in Nat : m = n - 2 /\ 2 + m = n /\ 2 + m <= n
      <4>1. n - 2 \in Nat /\ 2 + (n - 2) = n
        BY <1>4
      <4> QED
        BY <4>1
    <3>2. copyFromIovecs(v, HeaderSize + 2, m) = SubSeq(Body, 2 + 1, 2 + m)
      BY <2>1, <3>1
    <3>3. 2 + 1 = 3
      OBVIOUS
    <3> QED
      BY <3>1, <3>2, <3>3
  <2>4. parseResponse(v) = Response(Value(copyFromIovecs(v, HeaderSize, 2)),
                                    copyFromIovecs(v, HeaderSize + 2, n - 2))
    BY <1>2, <1>4 DEF parseResponse
  <2>5. deserializeResponse(Body) = Response(Value(SubSeq(Body, 1, 2)), SubSeq(Body, 3, n))
    BY <1>2, <1>4 DEF deserializeResponse
  <2> QED
    BY <1>1, <2>2, <2>3, <2>4, <2>5
<1> QED
  BY <1>3, <1>4

\* What a parser returns says whether it waits for more.
LEMMA Statuses ==
    /\ \A code : Failed(code).status = code
    /\ \A s, m, p : Request(s, m, p).status = "OK"
    /\ \A e, p : Response(e, p).status = "OK"
  BY DEF Failed, Request, Response

\* A parsed body is a message or an error, never a reason to wait.
LEMMA DecodeDecides ==
    ASSUME NEW type PROVE decode(type).status # "MORE"
<1>1. deserializeRequest(Body).status \in {"OK", "DESERIALIZATION_ERROR"}
  BY Statuses DEF deserializeRequest
<1>2. deserializeResponse(Body).status \in {"OK", "DESERIALIZATION_ERROR"}
  BY Statuses DEF deserializeResponse
<1> QED
  BY <1>1, <1>2, Statuses DEF decode

\* Once a message is complete, or cannot be one, the connection makes of it what
\* RpcCodec makes of it; before that it waits.
LEMMA ParserIs ==
    ASSUME WellFormed, NEW k \in 0..Len(data), NEW type \in MessageTypes
    PROVE  IF Len(data) < HeaderSize \/ (Valid /\ header.type = type /\ Len(data) < MsgLen)
           THEN tryParse(type, ReadIovecs(k)) = Failed("MORE")
           ELSE tryParse(type, ReadIovecs(k)) = decode(type)
<1>1. Len(data) \in Nat /\ MsgLen \in Nat /\ HeaderSize \in Nat
  <2>1. data \in Seq(Bytes) /\ header.body \in Nat /\ HeaderSize \in Nat
    BY ParsersAssumption DEF WellFormed
  <2> QED
    BY <2>1 DEF MsgLen
<1>2. CASE Len(data) < HeaderSize
  BY <1>2 DEF tryParse
<1>3. CASE Len(data) >= HeaderSize /\ (~Valid \/ header.type # type)
  <2>1. ~(Len(data) < HeaderSize)
    BY <1>1, <1>3
  <2> QED
    BY <1>3, <2>1 DEF tryParse, decode
<1>4. CASE Len(data) >= HeaderSize /\ Valid /\ header.type = type /\ Len(data) < MsgLen
  <2>1. ~(Len(data) < HeaderSize)
    BY <1>1, <1>4
  <2> QED
    BY <1>4, <2>1 DEF tryParse
<1>5. CASE Len(data) >= HeaderSize /\ Valid /\ header.type = type /\ Len(data) >= MsgLen
  <2>1. ~(Len(data) < HeaderSize) /\ ~(Len(data) < MsgLen)
    BY <1>1, <1>5
  <2>2. /\ parseRequest(ReadIovecs(k)) = deserializeRequest(Body)
        /\ parseResponse(ReadIovecs(k)) = deserializeResponse(Body)
    BY <1>5, RequestsAgree, ResponsesAgree
  <2>3. tryParse(type, ReadIovecs(k)) =
           IF type = "REQUEST" THEN parseRequest(ReadIovecs(k)) ELSE parseResponse(ReadIovecs(k))
    BY <1>5, <2>1 DEF tryParse
  <2>4. decode(type) =
           IF type = "REQUEST" THEN deserializeRequest(Body) ELSE deserializeResponse(Body)
    BY <1>5, <2>1 DEF decode
  <2> QED
    BY <2>1, <2>2, <2>3, <2>4
<1>6. /\ Len(data) < HeaderSize \/ Len(data) >= HeaderSize
      /\ Len(data) < MsgLen \/ Len(data) >= MsgLen
  BY <1>1
<1> QED
  BY <1>2, <1>3, <1>4, <1>5, <1>6

\* The bytes received are bytes.
LEMMA StaysWellFormed == Spec => []WellFormed
<1>1. Init => WellFormed
  BY DEF Init, WellFormed
<1>2. WellFormed /\ [Next]_vars => WellFormed'
  <2> SUFFICES ASSUME WellFormed, [Next]_vars PROVE WellFormed'
    OBVIOUS
  <2>1. ASSUME NEW b \in 0..(Base - 1), Receive(b) PROVE WellFormed'
    <3>1. data \in Seq(Bytes) /\ b \in Bytes /\ data' = Append(data, b) /\ header' = header
      BY <2>1 DEF WellFormed, Receive, Bytes
    <3>2. data' \in Seq(Bytes)
      BY <3>1
    <3> QED
      BY <3>1, <3>2 DEF WellFormed
  <2>2. CASE UNCHANGED vars
    BY <2>2 DEF vars, WellFormed
  <2> QED
    BY <2>1, <2>2 DEF Next
<1> QED
  BY <1>1, <1>2, PTL DEF Spec

\* For every header, every bytes and wherever the ring wraps around, the
\* connection's parsers, RpcCodec and StreamInitRequest agree on the message,
\* and the connection waits only for what messageLength() asks for.
THEOREM AllParsersAgree == Spec => []ParsersAgree
<1>1. WellFormed => CodecAgrees
  <2> SUFFICES ASSUME WellFormed, NEW type \in MessageTypes, NEW k \in 0..Len(data),
                      NEW found, found = tryParse(type, ReadIovecs(k))
               PROVE  IF found.status = "MORE" THEN messageLength = 0 \/ messageLength > Len(data)
                      ELSE found = decode(type)
    BY DEF CodecAgrees
  <2>1. Len(data) \in Nat /\ MsgLen \in Nat
    <3>1. data \in Seq(Bytes) /\ header.body \in Nat /\ HeaderSize \in Nat
      BY ParsersAssumption DEF WellFormed
    <3> QED
      BY <3>1 DEF MsgLen
  <2>2. CASE Len(data) < HeaderSize \/ (Valid /\ header.type = type /\ Len(data) < MsgLen)
    <3>1. found.status = "MORE"
      BY <2>2, ParserIs, Statuses
    <3>2. messageLength = 0 \/ (messageLength = MsgLen /\ Len(data) < MsgLen)
      BY <2>2 DEF messageLength
    <3> QED
      BY <2>1, <3>1, <3>2
  <2>3. CASE ~(Len(data) < HeaderSize \/ (Valid /\ header.type = type /\ Len(data) < MsgLen))
    <3>1. found = decode(type)
      BY <2>3, ParserIs
    <3> QED
      BY <3>1, DecodeDecides
  <2> QED
    BY <2>2, <2>3
<1>2. InitNamesAgree
  <2> DEFINE n == Len(Body)
             sl == Value(SubSeq(Body, 1, 2))
             ml == Value(SubSeq(Body, sl + 3, sl + 4))
             off == n < 4 \/ 2 + sl > n \/ 4 + sl > n \/ 4 + sl + ml > n
  <2>1. CASE off
    <3>1. deserializeRequest(Body) = Failed("DESERIALIZATION_ERROR")
      BY <2>1 DEF deserializeRequest
    <3>2. deserializeInit(Body) = Failed("DESERIALIZATION_ERROR")
      BY <2>1 DEF deserializeInit
    <3>3. [Failed("DESERIALIZATION_ERROR") EXCEPT !.payload = <<>>] = Failed("DESERIALIZATION_ERROR")
      BY DEF Failed
    <3> QED
      BY <3>1, <3>2, <3>3 DEF InitNamesAgree
  <2>2. CASE ~off
    <3>1. deserializeRequest(Body) =
             Request(SubSeq(Body, 3, sl + 2), SubSeq(Body, sl + 5, sl + ml + 4),
                     SubSeq(Body, sl + ml + 5, n))
      BY <2>2 DEF deserializeRequest
    <3>2. deserializeInit(Body) =
             Request(SubSeq(Body, 3, sl + 2), SubSeq(Body, sl + 5, sl + ml + 4), <<>>)
      BY <2>2 DEF deserializeInit
    <3> HIDE DEF n, sl, ml
    <3>3. \A s, m, p : [Request(s, m, p) EXCEPT !.payload = <<>>] = Request(s, m, <<>>)
      BY DEF Request, Failed
    <3> QED
      BY <3>1, <3>2, <3>3 DEF InitNamesAgree
  <2> QED
    BY <2>1, <2>2
<1>3. WellFormed => ParsersAgree
  BY <1>1, <1>2 DEF ParsersAgree
<1> QED
  BY <1>3, StaysWellFormed, PTL

\* A message that has arrived does not change when more bytes follow it.
LEMMA BodyStays ==
    ASSUME WellFormed, NEW b \in Bytes, Receive(b), Len(data) >= MsgLen
    PROVE  Body' = Body
<1>1. PICK d \in Seq(Bytes) : d = data
  BY DEF WellFormed
<1>2. PICK e \in Seq(Bytes) : e = Append(d, b) /\ Len(e) = Len(d) + 1
                              /\ \A i \in 1..Len(d) : e[i] = d[i]
  <2>1. /\ Append(d, b) \in Seq(Bytes) /\ Len(Append(d, b)) = Len(d) + 1
        /\ \A i \in 1..Len(d) : Append(d, b)[i] = d[i]
    OBVIOUS
  <2> QED
    BY <2>1
<1>3. data' = e /\ header' = header
  BY <1>1, <1>2 DEF Receive
<1>4. PICK h \in Nat : h = HeaderSize
  BY ParsersAssumption
<1>5. PICK m \in Nat : m = MsgLen /\ h <= m /\ m <= Len(d) /\ m - h \in Nat
  <2>1. header.body \in Nat /\ Len(d) \in Nat
    BY DEF WellFormed
  <2>2. h + header.body \in Nat /\ h <= h + header.body /\ (h + header.body) - h \in Nat
    BY <2>1
  <2>3. MsgLen = h + header.body
    BY <1>4 DEF MsgLen
  <2> QED
    BY <1>1, <2>1, <2>2, <2>3
<1>6. Len(d) \in Nat /\ Len(e) \in Nat /\ m <= Len(e)
  BY <1>2, <1>5
<1>7. PICK p \in Seq(Bytes) : p = SubSeq(d, h + 1, m) /\ PieceOf(p, d, h, m - h)
  BY <1>5, SubSeqPiece
<1>8. PICK q \in Seq(Bytes) : q = SubSeq(e, h + 1, m) /\ PieceOf(q, e, h, m - h)
  BY <1>5, <1>6, SubSeqPiece
<1>9. PieceOf(q, d, h, m - h)
  <2>1. ASSUME NEW i \in 1..(m - h) PROVE q[i] = d[h + i]
    <3>1. h + i \in 1..Len(d)
      BY <1>5, <1>6, <2>1
    <3>2. q[i] = e[h + i]
      BY <1>8, <2>1 DEF PieceOf
    <3> QED
      BY <1>2, <3>1, <3>2
  <2>2. Len(q) = m - h
    BY <1>8 DEF PieceOf
  <2> QED
    BY <2>1, <2>2 DEF PieceOf
<1>10. p = q
  <2>1. PICK n \in Nat : n = m - h
    BY <1>5
  <2>2. PieceOf(p, d, h, n) /\ PieceOf(q, d, h, n)
    BY <1>7, <1>9, <2>1
  <2> QED
    BY <2>2, SamePiece
<1>11. Body = p
  BY <1>1, <1>4, <1>5, <1>7 DEF Body
<1>12. Body' = q
  <2>1. MsgLen' = m
    BY <1>3, <1>5 DEF MsgLen
  <2> QED
    BY <1>3, <1>4, <1>8, <2>1 DEF Body
<1> QED
  BY <1>10, <1>11, <1>12

\* The header is refused, or the whole message is there.
Decided(type) ==
    ~(Len(data) < HeaderSize \/ (Valid /\ header.type = type /\ Len(data) < MsgLen))

\* The connection has decided as RpcCodec does, or waits.
Agreed ==
    \A type \in MessageTypes :
        IF Decided(type) THEN tryParse(type, ReadIovecs(0)) = decode(type)
        ELSE tryParse(type, ReadIovecs(0)).status = "MORE"

\* So it is for what has been received at any time.
LEMMA StaysAgreed == Spec => []Agreed
<1>1. WellFormed => Agreed
  <2> SUFFICES ASSUME WellFormed, NEW type \in MessageTypes
               PROVE  IF Decided(type) THEN tryParse(type, ReadIovecs(0)) = decode(type)
                      ELSE tryParse(type, ReadIovecs(0)).status = "MORE"
    BY DEF Agreed
  <2>1. 0 \in 0..Len(data)
    <3>1. data \in Seq(Bytes)
      BY DEF WellFormed
    <3> QED
      BY <3>1
  <2> QED
    BY <2>1, ParserIs, Statuses DEF Decided
<1> QED
  BY <1>1, StaysWellFormed, PTL

\* What the connection made of a message, taken or refused, stands whatever
\* bytes arrive behind it.
THEOREM DecisionsStand == Spec => DecisionIsStable
<1>1. ASSUME WellFormed, Agreed, Agreed', [Next]_vars, NEW type \in MessageTypes,
             tryParse(type, ReadIovecs(0)).status # "MORE"
      PROVE  tryParse(type, ReadIovecs(0))' = tryParse(type, ReadIovecs(0))
  <2>1. CASE UNCHANGED vars
    <3>1. data' = data /\ header' = header
      BY <2>1 DEF vars
    <3>2. ReadIovecs(0)' = ReadIovecs(0) /\ Valid' = Valid /\ MsgLen' = MsgLen
      BY <3>1 DEF ReadIovecs, Valid, MsgLen
    <3> QED
      BY <3>1, <3>2 DEF tryParse, parseRequest, parseResponse
  <2>2. ASSUME NEW b \in 0..(Base - 1), Receive(b)
        PROVE  tryParse(type, ReadIovecs(0))' = tryParse(type, ReadIovecs(0))
    <3>1. /\ header' = header /\ Len(data) \in Nat /\ Len(data') = Len(data) + 1
          /\ HeaderSize \in Nat /\ MsgLen \in Nat /\ MsgLen' = MsgLen /\ Valid' = Valid
      <4>1. header' = header /\ data' = Append(data, b) /\ data \in Seq(Bytes) /\ b \in Bytes
        BY <1>1, <2>2 DEF Receive, WellFormed, Bytes
      <4>2. Len(data) \in Nat /\ Len(data') = Len(data) + 1
        BY <4>1
      <4>3. HeaderSize \in Nat /\ header.body \in Nat
        BY <1>1, ParsersAssumption DEF WellFormed
      <4> QED
        BY <4>1, <4>2, <4>3 DEF MsgLen, Valid
    <3>2. Decided(type)
      BY <1>1 DEF Agreed
    <3>3. ~(Len(data) < HeaderSize \/ (Valid /\ header.type = type /\ Len(data) < MsgLen))
      BY <3>2 DEF Decided
    <3>4. tryParse(type, ReadIovecs(0)) = decode(type)
      BY <1>1, <3>2 DEF Agreed
    <3>5. ~(Len(data') < HeaderSize \/ (Valid' /\ header'.type = type /\ Len(data') < MsgLen'))
      BY <3>1, <3>3
    <3>6. tryParse(type, ReadIovecs(0))' = decode(type)'
      BY <1>1, <3>5 DEF Agreed, Decided
    <3>7. decode(type)' = decode(type)
      <4>1. CASE ~Valid \/ header.type # type
        <5>1. decode(type) = Failed("INVALID")
          BY <4>1 DEF decode
        <5>2. decode(type)' = Failed("INVALID")
          BY <3>1, <4>1 DEF decode, Failed
        <5> QED
          BY <5>1, <5>2
      <4>2. CASE Valid /\ header.type = type
        <5>1. Len(data) >= MsgLen /\ ~(Len(data) < HeaderSize)
          BY <3>1, <3>3, <4>2
        <5>2. Body' = Body
          BY <1>1, <2>2, <5>1, BodyStays DEF Bytes
        <5>3. /\ ~(Len(data') < HeaderSize) /\ ~(Len(data') < MsgLen')
              /\ ~(Len(data) < HeaderSize) /\ ~(Len(data) < MsgLen)
          BY <3>1, <5>1
        <5>4. decode(type) =
                 IF type = "REQUEST" THEN deserializeRequest(Body) ELSE deserializeResponse(Body)
          BY <4>2, <5>3 DEF decode
        <5>5. decode(type)' =
                 IF type = "REQUEST" THEN deserializeRequest(Body') ELSE deserializeResponse(Body')
          BY <3>1, <4>2, <5>3 DEF decode, deserializeRequest, deserializeResponse
        <5> QED
          BY <5>2, <5>4, <5>5
      <4> QED
        BY <4>1, <4>2
    <3> QED
      BY <3>4, <3>6, <3>7
  <2> QED
    BY <1>1, <2>1, <2>2 DEF Next
<1>2. WellFormed /\ Agreed /\ Agreed' /\ [Next]_vars =>
         [\A type \in MessageTypes :
             tryParse(type, ReadIovecs(0)).status # "MORE" =>
                 tryParse(type, ReadIovecs(0))' = tryParse(type, ReadIovecs(0))]_vars
  BY <1>1
<1> QED
  BY <1>2, StaysWellFormed, StaysAgreed, PTL DEF Spec, DecisionIsStable
=============================================================================
