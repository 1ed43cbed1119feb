---------------------------- MODULE RpcWritevProofs ----------------------------
(***************************************************************************)
(* Proofs about RpcWritev: however the socket splits a frame, the wire gets *)
(* exactly the frame, and a request on the wire is parsed back, for all    *)
(* sizes of header, length fields, names and segments.                     *)
(*                                                                         *)
(* Sums and concatenations over iovecs are recursive functions; what they  *)
(* compute is proved with UpTo, induction over a set of numbers.           *)
(***************************************************************************)
EXTENDS RpcWritev, SequenceTheorems, WellFoundedInduction, TLAPS

\* A non-empty set of natural numbers has a least one.
LEMMA Least ==
    ASSUME NEW S \in SUBSET Nat, S # {}
    PROVE  \E x \in S : \A y \in S : x <= y
<1> DEFINE R == {ss \in Nat \X Nat : ss[1] < ss[2]}
<1>1. PICK x \in S : \A y \in S : ~(<<y, x>> \in R)
  <2>1. IsWellFoundedOn(R, Nat)
    BY NatLessThanWellFounded DEF OpToRel
  <2> HIDE DEF R
  <2> QED
    BY <2>1, WFMin
<1>2. ASSUME NEW y \in S PROVE x <= y
  <2>1. x \in Nat /\ y \in Nat
    OBVIOUS
  <2>2. ~(<<y, x>>[1] < <<y, x>>[2])
    BY <1>1, <2>1
  <2> QED
    BY <2>1, <2>2
<1> QED
  BY <1>2

\* Induction up to n: a set with 0 that goes from each number to the next.
LEMMA UpTo ==
    ASSUME NEW n \in Nat, NEW T,
           0 \in T, \A i \in 1..n : i - 1 \in T => i \in T
    PROVE  0..n \subseteq T
<1> DEFINE bad == {i \in 0..n : i \notin T}
<1> SUFFICES ASSUME bad # {} PROVE FALSE
  OBVIOUS
<1>1. PICK i \in bad : \A j \in bad : i <= j
  <2>1. bad \subseteq Nat
    OBVIOUS
  <2> HIDE DEF bad
  <2> QED
    BY <2>1, Least
<1>2. i \in 0..n /\ i \notin T /\ i # 0
  OBVIOUS
<1>3. i - 1 \in 0..n /\ i \in 1..n /\ ~ (i <= i - 1)
  BY <1>2
<1>4. i - 1 \notin bad
  BY <1>1, <1>3
<1> QED
  BY <1>2, <1>3, <1>4

\* The functions on 0..n that a step function and a first value define.
Steps(S, n) == [S \X (1..n) -> S]
Recursions(S, base, n, op) ==
    {f \in [0..n -> S] : f[0] = base /\ \A i \in 1..n : f[i] = op[<<f[i - 1], i>>]}

\* A recursion over 0..n defines a function.
LEMMA Recursion ==
    ASSUME NEW S, NEW base \in S, NEW n \in Nat, NEW op \in Steps(S, n)
    PROVE  Recursions(S, base, n, op) # {}
<1>0. op \in [S \X (1..n) -> S]
  BY DEF Steps
<1> DEFINE Good(m, f) == f[0] = base /\ \A i \in 1..m : f[i] = op[<<f[i - 1], i>>]
           T == {m \in 0..n : \E f \in [0..m -> S] : Good(m, f)}
<1>1. 0 \in T
  <2>1. [i \in 0..0 |-> base] \in [0..0 -> S] /\ Good(0, [i \in 0..0 |-> base])
    OBVIOUS
  <2>2. \E f \in [0..0 -> S] : Good(0, f)
    BY <2>1
  <2>3. 0 \in 0..n
    OBVIOUS
  <2> HIDE DEF Good
  <2> QED
    BY <2>2, <2>3
<1>2. ASSUME NEW m \in 1..n, m - 1 \in T PROVE m \in T
  <2>1. PICK f \in [0..(m - 1) -> S] : Good(m - 1, f)
    BY <1>2
  <2> DEFINE g == [i \in 0..m |-> IF i < m THEN f[i] ELSE op[<<f[m - 1], m>>]]
  <2>2. f[m - 1] \in S /\ op[<<f[m - 1], m>>] \in S
    BY <1>0
  <2>3. g \in [0..m -> S]
    BY <2>2
  <2>4. \A i \in 0..(m - 1) : g[i] = f[i]
    OBVIOUS
  <2>5. g[m] = op[<<f[m - 1], m>>]
    OBVIOUS
  <2> HIDE DEF g
  <2>6. g[0] = base
    BY <2>1, <2>4
  <2>7. ASSUME NEW i \in 1..m PROVE g[i] = op[<<g[i - 1], i>>]
    <3>1. CASE i = m
      BY <2>4, <2>5, <3>1
    <3>2. CASE i < m
      <4>1. i \in 1..(m - 1) /\ i - 1 \in 0..(m - 1) /\ i \in 0..(m - 1)
        BY <3>2
      <4>2. f[i] = op[<<f[i - 1], i>>]
        BY <2>1, <4>1
      <4> QED
        BY <2>4, <4>1, <4>2
    <3> QED
      BY <3>1, <3>2
  <2> QED
    BY <2>3, <2>6, <2>7
<1>3. n \in T
  <2> HIDE DEF T
  <2>1. 0..n \subseteq T
    BY <1>1, <1>2, UpTo
  <2> QED
    BY <2>1
<1> QED
  BY <1>3 DEF Recursions

-----------------------------------------------------------------------------
(* Sums and concatenations over iovecs.                                      *)

Bytes == Parts \X Nat
Vecs == [part : Parts, at : Nat, len : Nat]

\* Concatenation of bytes is associative.
Associate(a, b, c) == (a \o b) \o c = a \o (b \o c)
LEMMA Assoc ==
    ASSUME NEW a \in Seq(Bytes), NEW b \in Seq(Bytes), NEW c \in Seq(Bytes)
    PROVE  Associate(a, b, c)
BY ConcatAssociative DEF Associate

\* An iovec describes as many bytes as it is long.
LEMMA BytesOfIs ==
    ASSUME NEW v \in Vecs
    PROVE  BytesOf(v) \in Seq(Bytes) /\ Len(BytesOf(v)) = v.len
<1>1. v.part \in Parts /\ v.at \in Nat /\ v.len \in Nat
  BY DEF Vecs
<1>2. \A i \in 1..v.len : <<v.part, v.at + i - 1>> \in Bytes
  BY <1>1 DEF Bytes
<1> QED
  BY <1>1, <1>2 DEF BytesOf

\* Total adds one iovec after the other.
LEMMA TotalSteps ==
    ASSUME NEW s \in Seq(Vecs)
    PROVE  \E f \in [0..Len(s) -> Nat] :
              /\ Total(s) = f[Len(s)] /\ f[0] = 0
              /\ \A i \in 1..Len(s) : f[i] = f[i - 1] + s[i].len
<1>1. PICK n \in Nat : n = Len(s)
  OBVIOUS
<1>2. ASSUME NEW i \in 1..n PROVE s[i].len \in Nat /\ i - 1 \in 0..n /\ i \in 0..n /\ i # 0
  <2>1. s[i] \in Vecs
    BY <1>1
  <2> QED
    BY <2>1 DEF Vecs
<1> DEFINE op == [p \in Nat \X (1..n) |-> p[1] + s[p[2]].len]
           Is(f) == f = [i \in 0..n |-> IF i = 0 THEN 0 ELSE f[i - 1] + s[i].len]
<1>3. op \in [Nat \X (1..n) -> Nat]
  <2>1. ASSUME NEW p \in Nat \X (1..n) PROVE p[1] + s[p[2]].len \in Nat
    <3>1. p[1] \in Nat /\ p[2] \in 1..n
      OBVIOUS
    <3>2. s[p[2]].len \in Nat
      BY <1>2, <3>1
    <3> QED
      BY <3>1, <3>2
  <2> QED
    BY <2>1
<1>4. \A a \in Nat, i \in 1..n : op[<<a, i>>] = a + s[i].len
  OBVIOUS
<1> HIDE DEF op
<1>5. PICK g \in [0..n -> Nat] : g[0] = 0 /\ \A i \in 1..n : g[i] = op[<<g[i - 1], i>>]
  <2>1. op \in Steps(Nat, n) /\ 0 \in Nat
    BY <1>3 DEF Steps
  <2>2. Recursions(Nat, 0, n, op) # {}
    BY <2>1, Recursion
  <2> QED
    BY <2>2 DEF Recursions
<1>6. Is(g)
  <2>1. ASSUME NEW i \in 1..n PROVE g[i] = g[i - 1] + s[i].len
    <3>1. g[i - 1] \in Nat
      BY <1>2
    <3> QED
      BY <1>4, <1>5, <3>1
  <2>2. \A i \in 0..n : g[i] = IF i = 0 THEN 0 ELSE g[i - 1] + s[i].len
    BY <1>5, <2>1
  <2> QED
    BY <2>2
<1>7. PICK f : f = (CHOOSE h : Is(h))
  OBVIOUS
<1>8. Is(f)
  BY <1>6, <1>7
<1>9. Total(s) = f[n]
  BY <1>1, <1>7 DEF Total
<1>10. f[0] = 0 /\ \A i \in 1..n : f[i] = f[i - 1] + s[i].len
  <2>1. f[0] = 0
    <3>1. 0 \in 0..n
      OBVIOUS
    <3> QED
      BY <1>8, <3>1
  <2>2. ASSUME NEW i \in 1..n PROVE f[i] = f[i - 1] + s[i].len
    BY <1>2, <1>8
  <2> QED
    BY <2>1, <2>2
<1>11. f \in [0..n -> Nat]
  <2> DEFINE T == {i \in 0..n : f[i] \in Nat}
  <2>1. 0 \in T
    BY <1>10
  <2>2. ASSUME NEW i \in 1..n, i - 1 \in T PROVE i \in T
    <3>1. f[i - 1] \in Nat
      BY <2>2
    <3>2. f[i] = f[i - 1] + s[i].len /\ i \in 0..n
      BY <1>2, <1>10
    <3>3. s[i].len \in Nat
      BY <1>2
    <3>4. PICK a \in Nat, b \in Nat : a = f[i - 1] /\ b = s[i].len
      BY <3>1, <3>3
    <3>5. a + b \in Nat
      OBVIOUS
    <3> QED
      BY <3>2, <3>4, <3>5
  <2>3. 0..n \subseteq T
    <3> HIDE DEF T
    <3> QED
      BY <2>1, <2>2, UpTo
  <2> QED
    BY <1>8, <2>3
<1> QED
  BY <1>1, <1>9, <1>10, <1>11

\* Gather appends the bytes of one iovec after the other.
LEMMA GatherSteps ==
    ASSUME NEW s \in Seq(Vecs)
    PROVE  \E f \in [0..Len(s) -> Seq(Bytes)] :
              /\ Gather(s) = f[Len(s)] /\ f[0] = <<>>
              /\ \A i \in 1..Len(s) : f[i] = f[i - 1] \o BytesOf(s[i])
<1>1. PICK n \in Nat : n = Len(s)
  OBVIOUS
<1>2. ASSUME NEW i \in 1..n
      PROVE  BytesOf(s[i]) \in Seq(Bytes) /\ i - 1 \in 0..n /\ i \in 0..n /\ i # 0
  <2>1. s[i] \in Vecs
    BY <1>1
  <2> QED
    BY <2>1, BytesOfIs
<1> DEFINE op == [p \in Seq(Bytes) \X (1..n) |-> p[1] \o BytesOf(s[p[2]])]
           Is(f) == f = [i \in 0..n |-> IF i = 0 THEN <<>> ELSE f[i - 1] \o BytesOf(s[i])]
<1>3. op \in [Seq(Bytes) \X (1..n) -> Seq(Bytes)]
  <2>1. ASSUME NEW p \in Seq(Bytes) \X (1..n) PROVE p[1] \o BytesOf(s[p[2]]) \in Seq(Bytes)
    <3>1. p[1] \in Seq(Bytes) /\ p[2] \in 1..n
      OBVIOUS
    <3>2. BytesOf(s[p[2]]) \in Seq(Bytes)
      BY <1>2, <3>1
    <3> QED
      BY <3>1, <3>2
  <2> QED
    BY <2>1
<1>4. \A a \in Seq(Bytes), i \in 1..n : op[<<a, i>>] = a \o BytesOf(s[i])
  OBVIOUS
<1> HIDE DEF op
<1>5. PICK g \in [0..n -> Seq(Bytes)] : g[0] = <<>> /\ \A i \in 1..n : g[i] = op[<<g[i - 1], i>>]
  <2>1. op \in Steps(Seq(Bytes), n) /\ <<>> \in Seq(Bytes)
    BY <1>3 DEF Steps
  <2>2. Recursions(Seq(Bytes), <<>>, n, op) # {}
    BY <2>1, Recursion
  <2> QED
    BY <2>2 DEF Recursions
<1>6. Is(g)
  <2>1. ASSUME NEW i \in 1..n PROVE g[i] = g[i - 1] \o BytesOf(s[i])
    <3>1. g[i - 1] \in Seq(Bytes)
      BY <1>2
    <3> QED
      BY <1>4, <1>5, <3>1
  <2>2. \A i \in 0..n : g[i] = IF i = 0 THEN <<>> ELSE g[i - 1] \o BytesOf(s[i])
    <3>1. ASSUME NEW i \in 0..n, i # 0 PROVE g[i] = g[i - 1] \o BytesOf(s[i])
      <4>1. i \in 1..n
        BY <3>1
      <4> QED
        BY <2>1, <4>1
    <3> QED
      BY <1>5, <3>1
  <2> QED
    BY <2>2
<1>7. PICK f : f = (CHOOSE h : Is(h))
  OBVIOUS
<1>8. Is(f)
  BY <1>6, <1>7
<1>9. Gather(s) = f[n]
  BY <1>1, <1>7 DEF Gather
<1>10. f[0] = <<>> /\ \A i \in 1..n : f[i] = f[i - 1] \o BytesOf(s[i])
  <2>1. f[0] = <<>>
    <3>1. 0 \in 0..n
      OBVIOUS
    <3> QED
      BY <1>8, <3>1
  <2>2. ASSUME NEW i \in 1..n PROVE f[i] = f[i - 1] \o BytesOf(s[i])
    BY <1>2, <1>8
  <2> QED
    BY <2>1, <2>2
<1>11. f \in [0..n -> Seq(Bytes)]
  <2> DEFINE T == {i \in 0..n : f[i] \in Seq(Bytes)}
  <2>1. 0 \in T
    <3>1. 0 \in 0..n /\ f[0] \in Seq(Bytes)
      BY <1>10, EmptySeq
    <3> QED
      BY <3>1
  <2>2. ASSUME NEW i \in 1..n, i - 1 \in T PROVE i \in T
    <3>1. f[i - 1] \in Seq(Bytes)
      BY <2>2
    <3>2. f[i] = f[i - 1] \o BytesOf(s[i]) /\ i \in 0..n
      BY <1>2, <1>10
    <3>3. BytesOf(s[i]) \in Seq(Bytes)
      BY <1>2
    <3>4. f[i - 1] \o BytesOf(s[i]) \in Seq(Bytes)
      BY <3>1, <3>3, ConcatProperties
    <3> QED
      BY <3>2, <3>4
  <2>3. 0..n \subseteq T
    <3> HIDE DEF T
    <3> QED
      BY <2>1, <2>2, UpTo
  <2> QED
    BY <1>8, <2>3
<1> QED
  BY <1>1, <1>9, <1>10, <1>11

\* What is gathered is a sequence of as many bytes as the iovecs add up to.
LEMMA GatherType ==
    ASSUME NEW s \in Seq(Vecs)
    PROVE  Gather(s) \in Seq(Bytes) /\ Total(s) \in Nat /\ Len(Gather(s)) = Total(s)
<1>1. PICK n \in Nat : n = Len(s)
  OBVIOUS
<1>2. PICK f \in [0..n -> Nat] :
         Total(s) = f[n] /\ f[0] = 0 /\ \A i \in 1..n : f[i] = f[i - 1] + s[i].len
  BY <1>1, TotalSteps
<1>3. PICK g \in [0..n -> Seq(Bytes)] :
         Gather(s) = g[n] /\ g[0] = <<>> /\ \A i \in 1..n : g[i] = g[i - 1] \o BytesOf(s[i])
  BY <1>1, GatherSteps
<1> DEFINE T == {i \in 0..n : Len(g[i]) = f[i]}
<1>4. 0 \in T
  <2>1. 0 \in 0..n /\ Len(g[0]) = 0
    BY <1>3, EmptySeq
  <2> QED
    BY <1>2, <2>1
<1>5. ASSUME NEW i \in 1..n, i - 1 \in T PROVE i \in T
  <2>1. i \in 0..n /\ i - 1 \in 0..n /\ Len(g[i - 1]) = f[i - 1]
    BY <1>5
  <2>2. s[i] \in Vecs
    BY <1>1
  <2>3. BytesOf(s[i]) \in Seq(Bytes) /\ Len(BytesOf(s[i])) = s[i].len
    BY <2>2, BytesOfIs
  <2>4. g[i - 1] \in Seq(Bytes)
    BY <2>1
  <2>5. Len(g[i - 1] \o BytesOf(s[i])) = Len(g[i - 1]) + Len(BytesOf(s[i]))
    BY <2>3, <2>4, ConcatProperties
  <2>6. Len(g[i]) = f[i]
    BY <1>2, <1>3, <2>1, <2>3, <2>5
  <2> QED
    BY <2>1, <2>6
<1>6. n \in T
  <2>1. n \in 0..n
    OBVIOUS
  <2> HIDE DEF T
  <2> QED
    BY <1>4, <1>5, <2>1, UpTo
<1> QED
  BY <1>2, <1>3, <1>6

\* No iovecs, no bytes.
LEMMA GatherEmpty == Gather(<<>>) = <<>> /\ Total(<<>>) = 0
<1>1. PICK s \in Seq(Vecs) : s = <<>>
  BY EmptySeq
<1>2. PICK f \in [0..Len(s) -> Seq(Bytes)] : Gather(s) = f[Len(s)] /\ f[0] = <<>>
  BY GatherSteps
<1>3. PICK g \in [0..Len(s) -> Nat] : Total(s) = g[Len(s)] /\ g[0] = 0
  BY TotalSteps
<1>4. Len(s) = 0
  BY <1>1, EmptySeq
<1> QED
  BY <1>1, <1>2, <1>3, <1>4

\* A sequence of one element.
LEMMA SeqOfOne ==
    ASSUME NEW S, NEW e \in S
    PROVE  <<e>> \in Seq(S) /\ Len(<<e>>) = 1 /\ <<e>>[1] = e
OBVIOUS

\* One iovec, its bytes.
LEMMA GatherOne ==
    ASSUME NEW v \in Vecs
    PROVE  <<v>> \in Seq(Vecs) /\ Gather(<<v>>) = BytesOf(v) /\ Total(<<v>>) = v.len
<1>1. PICK s \in Seq(Vecs) : s = <<v>>
  BY SeqOfOne
<1>2. Len(s) = 1 /\ s[1] = v
  BY <1>1, SeqOfOne
<1>3. PICK f \in [0..1 -> Seq(Bytes)] :
         /\ Gather(s) = f[1] /\ f[0] = <<>>
         /\ \A i \in 1..1 : f[i] = f[i - 1] \o BytesOf(s[i])
  <2>1. PICK n \in Nat : n = 1
    OBVIOUS
  <2>2. Len(s) = n
    BY <1>2, <2>1
  <2>3. \E f \in [0..n -> Seq(Bytes)] :
           /\ Gather(s) = f[n] /\ f[0] = <<>>
           /\ \A i \in 1..n : f[i] = f[i - 1] \o BytesOf(s[i])
    BY <2>2, GatherSteps
  <2> QED
    BY <2>1, <2>3
<1>4. f[1] = f[0] \o BytesOf(v)
  <2>1. 1 \in 1..1 /\ 1 - 1 = 0
    OBVIOUS
  <2> QED
    BY <1>2, <1>3, <2>1
<1>5. BytesOf(v) \in Seq(Bytes) /\ Len(BytesOf(v)) = v.len
  BY BytesOfIs
<1>6. Gather(s) = BytesOf(v)
  BY <1>3, <1>4, <1>5, ConcatEmptySeq
<1> QED
  BY <1>1, <1>5, <1>6, GatherType

\* The bytes of two lists of iovecs are those of the first, then the second's.
LEMMA GatherConcat ==
    ASSUME NEW s \in Seq(Vecs), NEW t \in Seq(Vecs)
    PROVE  /\ s \o t \in Seq(Vecs)
           /\ Gather(s \o t) = Gather(s) \o Gather(t)
           /\ Total(s \o t) = Total(s) + Total(t)
<1>1. PICK m \in Nat, n \in Nat : m = Len(s) /\ n = Len(t)
  OBVIOUS
<1>2. PICK u \in Seq(Vecs) : u = s \o t
  BY ConcatProperties
<1>3. /\ Len(u) = m + n
      /\ \A i \in 1..(m + n) : u[i] = IF i <= m THEN s[i] ELSE t[i - m]
  BY <1>1, <1>2, ConcatProperties
<1>4. PICK f \in [0..m -> Seq(Bytes)] :
         Gather(s) = f[m] /\ f[0] = <<>> /\ \A i \in 1..m : f[i] = f[i - 1] \o BytesOf(s[i])
  BY <1>1, GatherSteps
<1>5. PICK g \in [0..n -> Seq(Bytes)] :
         Gather(t) = g[n] /\ g[0] = <<>> /\ \A i \in 1..n : g[i] = g[i - 1] \o BytesOf(t[i])
  BY <1>1, GatherSteps
<1>6. PICK h \in [0..(m + n) -> Seq(Bytes)] :
         /\ Gather(u) = h[m + n] /\ h[0] = <<>>
         /\ \A i \in 1..(m + n) : h[i] = h[i - 1] \o BytesOf(u[i])
  <2>1. PICK k \in Nat : k = m + n
    OBVIOUS
  <2>2. Len(u) = k
    BY <1>3, <2>1
  <2>3. \E h \in [0..k -> Seq(Bytes)] :
           /\ Gather(u) = h[k] /\ h[0] = <<>>
           /\ \A i \in 1..k : h[i] = h[i - 1] \o BytesOf(u[i])
    BY <2>2, GatherSteps
  <2> QED
    BY <2>1, <2>3
<1>7. h[m] = f[m]
  <2> DEFINE T == {i \in 0..m : h[i] = f[i]}
  <2>1. 0 \in T
    BY <1>4, <1>6
  <2>2. ASSUME NEW i \in 1..m, i - 1 \in T PROVE i \in T
    <3>1. i \in 0..m /\ h[i - 1] = f[i - 1] /\ i \in 1..(m + n) /\ i <= m
      BY <2>2
    <3>2. u[i] = s[i]
      BY <1>3, <3>1
    <3>3. h[i] = h[i - 1] \o BytesOf(u[i]) /\ f[i] = f[i - 1] \o BytesOf(s[i])
      BY <1>4, <1>6, <3>1
    <3> QED
      BY <3>1, <3>2, <3>3
  <2>3. m \in 0..m
    OBVIOUS
  <2>4. m \in T
    <3> HIDE DEF T
    <3> QED
      BY <2>1, <2>2, <2>3, UpTo
  <2> QED
    BY <2>4
<1>8. h[m + n] = f[m] \o g[n]
  <2> DEFINE T == {i \in 0..n : h[m + i] = f[m] \o g[i]}
  <2>0. f[m] \in Seq(Bytes)
    OBVIOUS
  <2>1. 0 \in T
    <3>1. 0 \in 0..n /\ m + 0 = m
      OBVIOUS
    <3>2. f[m] \o g[0] = f[m]
      BY <1>5, <2>0, ConcatEmptySeq
    <3> QED
      BY <1>7, <3>1, <3>2
  <2>2. ASSUME NEW i \in 1..n, i - 1 \in T PROVE i \in T
    <3>1. /\ i \in 0..n /\ i - 1 \in 0..n /\ m + i \in 1..(m + n)
          /\ ~ (m + i <= m) /\ m + i - 1 = m + (i - 1) /\ m + i - m = i
      BY <2>2
    <3>2. h[m + (i - 1)] = f[m] \o g[i - 1]
      BY <2>2
    <3>3. h[m + i] = h[m + i - 1] \o BytesOf(t[i])
      <4>1. PICK k \in 1..(m + n) : k = m + i /\ k - m = i /\ ~ (k <= m)
        BY <3>1
      <4>2. u[k] = t[k - m]
        BY <1>3, <4>1
      <4>3. h[k] = h[k - 1] \o BytesOf(u[k])
        BY <1>6
      <4>4. k = m + i /\ k - 1 = m + i - 1 /\ k - m = i
        BY <4>1
      <4> QED
        BY <4>2, <4>3, <4>4, Zenon
    <3>4. g[i] = g[i - 1] \o BytesOf(t[i])
      BY <1>5
    <3>5. t[i] \in Vecs /\ g[i - 1] \in Seq(Bytes)
      <4>1. t[i] \in Vecs
        BY <1>1, ElementOfSeq
      <4>2. g[i - 1] \in Seq(Bytes)
        BY <3>1
      <4> QED
        BY <4>1, <4>2
    <3>6. BytesOf(t[i]) \in Seq(Bytes)
      BY <3>5, BytesOfIs
    <3>7. (f[m] \o g[i - 1]) \o BytesOf(t[i]) = f[m] \o (g[i - 1] \o BytesOf(t[i]))
      <4>1. Associate(f[m], g[i - 1], BytesOf(t[i]))
        BY <2>0, <3>5, <3>6, Assoc, Zenon
      <4> QED
        BY <4>1 DEF Associate
    <3>8. h[m + i] = f[m] \o g[i]
      BY <3>1, <3>2, <3>3, <3>4, <3>7
    <3> QED
      BY <3>1, <3>8
  <2>3. n \in 0..n
    OBVIOUS
  <2>4. n \in T
    <3> HIDE DEF T
    <3> QED
      BY <2>1, <2>2, <2>3, UpTo
  <2> QED
    BY <2>4
<1>9. Gather(u) = Gather(s) \o Gather(t)
  BY <1>4, <1>5, <1>6, <1>8
<1>10. Total(u) = Total(s) + Total(t)
  <2>1. /\ Gather(s) \in Seq(Bytes) /\ Len(Gather(s)) = Total(s)
        /\ Gather(t) \in Seq(Bytes) /\ Len(Gather(t)) = Total(t)
        /\ Len(Gather(u)) = Total(u)
    BY GatherType
  <2>2. Len(Gather(s) \o Gather(t)) = Len(Gather(s)) + Len(Gather(t))
    BY <2>1, ConcatProperties
  <2> QED
    BY <1>9, <2>1, <2>2
<1> QED
  BY <1>2, <1>9, <1>10

-----------------------------------------------------------------------------
(* What consumeWritevIovecs leaves.                                          *)

\* A non-empty set of numbers up to n has a greatest one.
LEMMA MaxFound ==
    ASSUME NEW n \in Nat, NEW S \in SUBSET (0..n), S # {}
    PROVE  Max(S) \in S /\ \A y \in S : y <= Max(S)
<1> DEFINE U == {m \in Nat : \A y \in S : y <= m}
<1>1. n \in U
  OBVIOUS
<1>2. PICK m \in U : \A x \in U : m <= x
  <2>1. U \subseteq Nat /\ U # {}
    BY <1>1
  <2> HIDE DEF U
  <2> QED
    BY <2>1, Least
<1>3. m \in Nat /\ \A y \in S : y \in Nat /\ y <= m
  BY <1>2
<1>4. m \in S
  <2> SUFFICES ASSUME m \notin S PROVE FALSE
    OBVIOUS
  <2>1. m # 0
    <3> SUFFICES ASSUME m = 0 PROVE FALSE
      OBVIOUS
    <3>1. PICK y \in S : TRUE
      OBVIOUS
    <3>2. y = 0
      BY <1>3, <3>1
    <3> QED
      BY <3>1, <3>2
  <2>2. m - 1 \in Nat /\ ~ (m <= m - 1)
    BY <1>3, <2>1
  <2>3. \A y \in S : y <= m - 1
    BY <1>3
  <2>4. m - 1 \in U
    BY <2>2, <2>3
  <2> QED
    BY <1>2, <2>2, <2>4
<1>5. \E x \in S : \A y \in S : x >= y
  BY <1>3, <1>4
<1>6. Max(S) \in S /\ \A y \in S : Max(S) >= y
  BY <1>5 DEF Max
<1> QED
  BY <1>3, <1>6

\* The iovecs a frame is sent with have bytes.
Full == [part : Parts, at : Nat, len : Nat \ {0}]

LEMMA FullVecs == Full \subseteq Vecs /\ Seq(Full) \subseteq Seq(Vecs)
<1>1. Full \subseteq Vecs
  BY DEF Full, Vecs
<1>2. ASSUME NEW s \in Seq(Full) PROVE s \in Seq(Vecs)
  BY <1>1, SeqMonotonic
<1> QED
  BY <1>1, <1>2

\* Concatenation of lists of such iovecs.
LEMMA FullConcat ==
    ASSUME NEW s \in Seq(Full), NEW t \in Seq(Full)
    PROVE  s \o t \in Seq(Full) /\ Gather(s \o t) = Gather(s) \o Gather(t)
<1>1. s \in Seq(Vecs) /\ t \in Seq(Vecs)
  BY FullVecs
<1>2. Gather(s \o t) = Gather(s) \o Gather(t)
  BY <1>1, GatherConcat
<1>3. s \o t \in Seq(Full)
  BY ConcatProperties
<1> QED
  BY <1>2, <1>3

\* The bytes of a half-written iovec are those written and those of the iovec
\* with its base moved.
LEMMA SplitBytes ==
    ASSUME NEW v \in Vecs, NEW left \in Nat, left <= v.len, NEW w \in Vecs,
           w.part = v.part, w.at = v.at + left, w.len = v.len - left
    PROVE  \E x \in Seq(Bytes) : Len(x) = left /\ BytesOf(v) = x \o BytesOf(w)
<1>0. v.part \in Parts /\ v.at \in Nat /\ v.len \in Nat /\ w.len \in Nat
  BY DEF Vecs
<1>1. BytesOf(v) \in Seq(Bytes) /\ Len(BytesOf(v)) = v.len
  BY BytesOfIs
<1>2. BytesOf(w) \in Seq(Bytes) /\ Len(BytesOf(w)) = w.len
  BY BytesOfIs
<1>3. PICK x : x = [i \in 1..left |-> <<v.part, v.at + i - 1>>]
  OBVIOUS
<1>4. x \in Seq(Bytes) /\ Len(x) = left
  <2>1. \A i \in 1..left : <<v.part, v.at + i - 1>> \in Bytes
    BY <1>0 DEF Bytes
  <2> QED
    BY <1>3, <2>1
<1>5. x \o BytesOf(w) \in Seq(Bytes) /\ Len(x \o BytesOf(w)) = v.len
  <2>1. x \o BytesOf(w) \in Seq(Bytes) /\ Len(x \o BytesOf(w)) = Len(x) + Len(BytesOf(w))
    BY <1>2, <1>4, ConcatProperties
  <2> QED
    BY <1>0, <1>2, <1>4, <2>1
<1>6. ASSUME NEW i \in 1..v.len PROVE BytesOf(v)[i] = (x \o BytesOf(w))[i]
  <2>0. BytesOf(v)[i] = <<v.part, v.at + i - 1>>
    BY DEF BytesOf
  <2>1. i \in 1..(Len(x) + Len(BytesOf(w)))
    BY <1>0, <1>2, <1>4
  <2>2. (x \o BytesOf(w))[i] = IF i <= left THEN x[i] ELSE BytesOf(w)[i - left]
    BY <1>2, <1>4, <2>1, ConcatProperties
  <2>3. CASE i <= left
    <3>1. i \in 1..left
      BY <1>0, <2>3
    <3>2. x[i] = <<v.part, v.at + i - 1>>
      BY <1>3, <3>1
    <3> QED
      BY <2>0, <2>2, <2>3, <3>2
  <2>4. CASE ~ (i <= left)
    <3>1. i - left \in 1..w.len
      BY <1>0, <2>4
    <3>2. BytesOf(w)[i - left] = <<w.part, w.at + (i - left) - 1>>
      BY <3>1 DEF BytesOf
    <3>3. w.at + (i - left) - 1 = v.at + i - 1
      BY <1>0
    <3> QED
      BY <2>0, <2>2, <2>4, <3>2, <3>3
  <2> QED
    BY <2>3, <2>4
<1>7. BytesOf(v) = x \o BytesOf(w)
  BY <1>1, <1>5, <1>6, SeqEqual
<1> QED
  BY <1>4, <1>7

\* A part of a sequence is a sequence.
PartIs(S, q, a, b) ==
    /\ SubSeq(q, a, b) \in Seq(S)
    /\ a <= b => Len(SubSeq(q, a, b)) = b - a + 1
    /\ \A i \in 1..(b - a + 1) : SubSeq(q, a, b)[i] = q[a + i - 1]
LEMMA PartOfSeq ==
    ASSUME NEW S, NEW q \in Seq(S), NEW a \in Nat \ {0}, NEW b \in 0..Len(q)
    PROVE  PartIs(S, q, a, b)
<1>1. ASSUME NEW i \in a..b PROVE q[i] \in S
  BY ElementOfSeq
<1>2. a \in Int /\ b \in Int
  OBVIOUS
<1> QED
  BY <1>1, <1>2, SubSeqProperties DEF PartIs

\* Iovecs before, at and after one of them.
LEMMA SplitVecs ==
    ASSUME NEW s \in Seq(Full), NEW i \in 0..(Len(s) - 1)
    PROVE  \E pre, post \in Seq(Full), v \in Full :
              /\ pre = SubSeq(s, 1, i) /\ v = s[i + 1]
              /\ SubSeq(s, 1, i + 1) = pre \o <<v>>
              /\ SubSeq(s, i + 1, Len(s)) = <<v>> \o post
              /\ s = pre \o (<<v>> \o post)
<1>1. PICK n \in Nat : n = Len(s)
  OBVIOUS
<1>2. i \in 0..n /\ i + 1 \in 1..n /\ i + 1 \in Nat /\ i + 2 \in Nat
  BY <1>1
<1>3. \A j \in 1..n : s[j] \in Full
  BY <1>1, ElementOfSeq
<1>4. PICK pre \in Seq(Full) : pre = SubSeq(s, 1, i)
  <2>1. i \in 0..Len(s) /\ 1 \in Nat \ {0}
    BY <1>1, <1>2
  <2> QED
    BY <2>1, PartOfSeq DEF PartIs
<1>5. PICK post \in Seq(Full) : post = SubSeq(s, i + 2, n)
  <2>1. n \in 0..Len(s) /\ i + 2 \in Nat \ {0}
    BY <1>1, <1>2
  <2> QED
    BY <2>1, PartOfSeq DEF PartIs
<1>6. PICK v \in Full : v = s[i + 1]
  BY <1>2, <1>3
<1>7. SubSeq(s, 1, i + 1) = pre \o <<v>>
  <2>1. 1 \in 1..Len(s) /\ i + 1 \in 1..Len(s) /\ i + 1 - 1 = i
    BY <1>1, <1>2
  <2>2. SubSeq(s, 1, i + 1) = SubSeq(s, 1, i + 1 - 1) \o <<s[i + 1]>>
    BY <2>1, SubSeqRecursiveSecond
  <2> QED
    BY <1>4, <1>6, <2>1, <2>2
<1>8. SubSeq(s, i + 1, n) = <<v>> \o post
  <2>1. i + 1 \in 1..Len(s) /\ Len(s) \in (i + 1)..Len(s) /\ i + 1 + 1 = i + 2
    BY <1>1, <1>2
  <2>2. SubSeq(s, i + 1, Len(s)) = <<s[i + 1]>> \o SubSeq(s, i + 1 + 1, Len(s))
    BY <2>1, SubSeqRecursiveFirst
  <2> QED
    BY <1>1, <1>5, <1>6, <2>1, <2>2
<1>9. s = pre \o (<<v>> \o post)
  <2>1. 1 \in 1..(Len(s) + 1) /\ i \in (1 - 1)..Len(s) /\ Len(s) \in i..Len(s)
    BY <1>1, <1>2
  <2>2. SubSeq(s, 1, i) \o SubSeq(s, i + 1, Len(s)) = SubSeq(s, 1, Len(s))
    BY <2>1, ConcatAdjacentSubSeq
  <2>3. SubSeq(s, 1, Len(s)) = s
    BY SubSeqFull
  <2> QED
    BY <1>1, <1>4, <1>8, <2>2, <2>3
<1> QED
  BY <1>1, <1>4, <1>5, <1>6, <1>7, <1>8, <1>9

\* The iovecs with the base of the first moved.
Moved(q, left) == [q EXCEPT ![1].at = @ + left, ![1].len = @ - left]
MovesTo(v, post, left, w) ==
    /\ w.part = v.part /\ w.at = v.at + left /\ w.len = v.len - left
    /\ Moved(<<v>> \o post, left) = <<w>> \o post

\* Moving the base of the first iovec changes that iovec alone.
LEMMA MoveFirst ==
    ASSUME NEW v \in Full, NEW post \in Seq(Full), NEW left \in Nat, left < v.len
    PROVE  \E w \in Full : MovesTo(v, post, left, w)
<1>0. PICK q : q = <<v>> \o post
  OBVIOUS
<1>1. v.part \in Parts /\ v.at \in Nat /\ v.len \in Nat \ {0}
  BY DEF Full
<1>2. PICK w : w = [part |-> v.part, at |-> v.at + left, len |-> v.len - left]
  OBVIOUS
<1>3. w \in Full
  BY <1>1, <1>2 DEF Full
<1>4. w.part = v.part /\ w.at = v.at + left /\ w.len = v.len - left
  BY <1>2
<1>5. <<v>> \in Seq(Full) /\ Len(<<v>>) = 1 /\ <<v>>[1] = v
  BY SeqOfOne
<1>6. <<w>> \in Seq(Full) /\ Len(<<w>>) = 1 /\ <<w>>[1] = w
  BY <1>3, SeqOfOne
<1>7. PICK n \in Nat : n = Len(post)
  OBVIOUS
<1>8. /\ q \in Seq(Full) /\ Len(q) = 1 + n
      /\ \A i \in 1..(1 + n) : q[i] = IF i <= 1 THEN <<v>>[i] ELSE post[i - 1]
  BY <1>0, <1>5, <1>7, ConcatProperties
<1>9. PICK p : p = <<w>> \o post
  OBVIOUS
<1>10. /\ p \in Seq(Full) /\ Len(p) = 1 + n
       /\ \A i \in 1..(1 + n) : p[i] = IF i <= 1 THEN <<w>>[i] ELSE post[i - 1]
  BY <1>6, <1>7, <1>9, ConcatProperties
<1>11. q[1] = v /\ p[1] = w /\ \A i \in 1..(1 + n) : i # 1 => p[i] = q[i]
  <2>1. 1 \in 1..(1 + n) /\ 1 <= 1
    OBVIOUS
  <2>2. q[1] = v /\ p[1] = w
    BY <1>5, <1>6, <1>8, <1>10, <2>1
  <2>3. ASSUME NEW i \in 1..(1 + n), i # 1 PROVE p[i] = q[i]
    <3>1. ~ (i <= 1)
      BY <2>3
    <3> QED
      BY <1>8, <1>10, <3>1
  <2> QED
    BY <2>2, <2>3
<1>12. PICK e : e = [q EXCEPT ![1] = w]
  OBVIOUS
<1>13. Moved(q, left) = e
  <2>1. PICK x : x = [part |-> v.part, at |-> v.at + left, len |-> v.len]
    OBVIOUS
  <2>2. [x EXCEPT !.len = @ - left] = w
    BY <1>2, <2>1
  <2>3. DOMAIN q = 1..(1 + n) /\ 1 \in 1..(1 + n)
    BY <1>8, LenProperties
  <2>4. x = [v EXCEPT !.at = @ + left]
    <3>1. v = [part |-> v.part, at |-> v.at, len |-> v.len]
      BY DEF Full
    <3> QED
      BY <2>1, <3>1
  <2>5. PICK d : d = [q EXCEPT ![1] = x]
    OBVIOUS
  <2>6. d = [q EXCEPT ![1].at = @ + left]
    BY <1>11, <2>3, <2>4, <2>5
  <2>7. d[1] = x /\ [x EXCEPT !.len = @ - left] = w
    BY <2>2, <2>3, <2>4, <2>5
  <2>8. [d EXCEPT ![1].len = @ - left] = [d EXCEPT ![1] = w]
    BY <2>7
  <2>9. [d EXCEPT ![1] = w] = e
    BY <1>12, <2>5
  <2>10. [[q EXCEPT ![1].at = @ + left] EXCEPT ![1].len = @ - left] = e
    BY <2>6, <2>8, <2>9
  <2> QED
    BY <2>10 DEF Moved
<1>14. e = p
  <2>1. q \in [1..(1 + n) -> Full] /\ p \in [1..(1 + n) -> Full]
    BY <1>8, <1>10, LenProperties
  <2>2. \A i \in 1..(1 + n) : e[i] = p[i]
    BY <1>11, <1>12, <2>1
  <2>3. e = [i \in 1..(1 + n) |-> e[i]] /\ p = [i \in 1..(1 + n) |-> p[i]]
    BY <1>12, <2>1
  <2> QED
    BY <2>2, <2>3
<1> QED
  BY <1>0, <1>3, <1>4, <1>9, <1>13, <1>14 DEF MovesTo

\* The first bytes of a concatenation.
LEMMA FirstBytes ==
    ASSUME NEW a \in Seq(Bytes), NEW b \in Seq(Bytes), NEW k \in Nat, k = Len(a)
    PROVE  SubSeq(a \o b, 1, k) = a
<1>1. PICK c \in Seq(Bytes) : c = a \o b
  BY ConcatProperties
<1>2. /\ Len(c) = k + Len(b) /\ Len(b) \in Nat
      /\ \A i \in 1..(k + Len(b)) : c[i] = IF i <= k THEN a[i] ELSE b[i - k]
  BY <1>1, ConcatProperties
<1>3. k \in 0..Len(c) /\ 1 \in Nat \ {0}
  BY <1>2
<1>4. PICK d \in Seq(Bytes) : d = SubSeq(c, 1, k)
  BY <1>3, PartOfSeq DEF PartIs
<1>5. CASE k = 0
  <2>1. a = <<>>
    BY <1>5, EmptySeq
  <2>2. SubSeq(c, 1, k) = <<>>
    BY <1>5, SubSeqEmpty
  <2> QED
    BY <1>1, <2>1, <2>2
<1>6. CASE k # 0
  <2>1. Len(d) = k
    <3>1. 1 <= k /\ k - 1 + 1 = k
      BY <1>6
    <3> QED
      BY <1>3, <1>4, <3>1, PartOfSeq DEF PartIs
  <2>2. ASSUME NEW i \in 1..k PROVE d[i] = a[i]
    <3>1. i \in 1..(k - 1 + 1) /\ 1 + i - 1 = i
      OBVIOUS
    <3>2. SubSeq(c, 1, k)[i] = c[1 + i - 1]
      BY <1>3, <3>1, PartOfSeq DEF PartIs
    <3>3. i \in 1..(k + Len(b)) /\ i <= k
      BY <1>2
    <3> QED
      BY <1>2, <1>4, <3>1, <3>2, <3>3
  <2> QED
    BY <1>1, <1>4, <2>1, <2>2, SeqEqual
<1> QED
  BY <1>5, <1>6

Regrouped(a, x, y, b) == a \o ((x \o y) \o b) = (a \o x) \o (y \o b)

\* The written half of an iovec joins what came before it, the other half what
\* comes after it.
LEMMA Regroup ==
    ASSUME NEW a \in Seq(Bytes), NEW x \in Seq(Bytes), NEW y \in Seq(Bytes), NEW b \in Seq(Bytes)
    PROVE  Regrouped(a, x, y, b)
<1>1. Associate(x, y, b)
  BY Assoc
<1>2. PICK c \in Seq(Bytes) : c = y \o b
  BY ConcatProperties
<1>3. Associate(a, x, c)
  BY Assoc
<1> QED
  BY <1>1, <1>2, <1>3 DEF Associate, Regrouped

\* After a write of k bytes the iovecs describe exactly the bytes not written.
LEMMA ConsumeLeavesRest ==
    ASSUME NEW s \in Seq(Full), NEW k \in 1..Total(s)
    PROVE  /\ consumeWritevIovecs(s, k) \in Seq(Full)
           /\ SubSeq(Gather(s), 1, k) \in Seq(Bytes)
           /\ SubSeq(Gather(s), 1, k) \o Gather(consumeWritevIovecs(s, k)) = Gather(s)
           /\ Total(consumeWritevIovecs(s, k)) < Total(s)
<1>0. s \in Seq(Vecs)
  BY FullVecs
<1>1. Gather(s) \in Seq(Bytes) /\ Total(s) \in Nat /\ Len(Gather(s)) = Total(s)
  BY <1>0, GatherType
<1>2. PICK n \in Nat : n = Len(s)
  OBVIOUS
<1>k. k \in Nat /\ 0 <= k /\ k <= Total(s)
  BY <1>1
<1> DEFINE S == {i \in 0..Len(s) : Total(SubSeq(s, 1, i)) <= k}
<1>3. PICK idx : idx = Max(S)
  OBVIOUS
<1>4. idx \in S /\ \A i \in S : i <= idx
  <2>1. 0 \in 0..Len(s)
    BY <1>2
  <2>2. SubSeq(s, 1, 0) = <<>>
    BY SubSeqEmpty
  <2>3. Total(SubSeq(s, 1, 0)) <= k
    <3>1. Total(SubSeq(s, 1, 0)) = 0
      BY <2>2, GatherEmpty
    <3> QED
      BY <1>k, <3>1
  <2>4. S \in SUBSET (0..n) /\ S # {}
    BY <1>2, <2>1, <2>3
  <2> HIDE DEF S
  <2> QED
    BY <1>3, <2>4, MaxFound
<1>5. consumeWritevIovecs(s, k) =
         IF idx = n THEN <<>>
         ELSE Moved(SubSeq(s, idx + 1, Len(s)), k - Total(SubSeq(s, 1, idx)))
  BY <1>2, <1>3 DEF consumeWritevIovecs, Moved
<1>6. idx \in 0..n /\ Total(SubSeq(s, 1, idx)) <= k
  BY <1>2, <1>4
<1>7. CASE idx = n
  <2>1. SubSeq(s, 1, n) = s
    BY <1>2, SubSeqFull
  <2>2. k = Total(s) /\ k \in Nat
    <3>1. Total(s) <= k
      BY <1>6, <1>7, <2>1
    <3> QED
      BY <1>1, <1>k, <3>1
  <2>3. SubSeq(Gather(s), 1, k) = Gather(s)
    BY <1>1, <2>2, SubSeqFull
  <2>4. Gather(s) \o <<>> = Gather(s)
    BY <1>1, ConcatEmptySeq
  <2>5. <<>> \in Seq(Full)
    BY EmptySeq
  <2> QED
    BY <1>1, <1>5, <1>7, <2>2, <2>3, <2>4, <2>5, GatherEmpty
<1>8. CASE idx # n
  <2>1. idx \in 0..(Len(s) - 1) /\ idx + 1 \in 0..Len(s) /\ ~ (idx + 1 <= idx)
    BY <1>2, <1>6, <1>8
  <2>2. PICK pre \in Seq(Full), post \in Seq(Full), v \in Full :
           /\ pre = SubSeq(s, 1, idx) /\ v = s[idx + 1]
           /\ SubSeq(s, 1, idx + 1) = pre \o <<v>>
           /\ SubSeq(s, idx + 1, Len(s)) = <<v>> \o post
           /\ s = pre \o (<<v>> \o post)
    BY <2>1, SplitVecs
  <2>3. pre \in Seq(Vecs) /\ post \in Seq(Vecs) /\ v \in Vecs /\ <<v>> \in Seq(Vecs)
    BY FullVecs, SeqOfOne
  <2>4. v.len \in Nat
    BY DEF Full
  <2>5. Total(pre) \in Nat /\ Total(pre) <= k
    BY <1>6, <2>2, <2>3, GatherType
  <2>6. Total(pre \o <<v>>) = Total(pre) + v.len
    <3>1. PICK one \in Seq(Vecs) : one = <<v>>
      BY <2>3
    <3>2. Total(one) = v.len
      BY <2>3, <3>1, GatherOne
    <3>3. Total(pre \o one) = Total(pre) + Total(one)
      BY <2>3, GatherConcat
    <3> QED
      BY <3>1, <3>2, <3>3
  <2>7. ~ (Total(pre) + v.len <= k)
    <3>1. idx + 1 \notin S
      BY <1>4, <2>1
    <3> QED
      BY <2>1, <2>2, <2>6, <3>1
  <2>8. PICK left \in Nat : left = k - Total(pre) /\ left < v.len
    BY <1>1, <2>4, <2>5, <2>7
  <2>9. PICK q : q = <<v>> \o post
    OBVIOUS
  <2>10. PICK w \in Full :
           /\ w.part = v.part /\ w.at = v.at + left /\ w.len = v.len - left
           /\ Moved(q, left) = <<w>> \o post
    <3>1. \E w \in Full : MovesTo(v, post, left, w)
      BY <2>8, MoveFirst
    <3> QED
      BY <2>9, <3>1 DEF MovesTo
  <2>11. consumeWritevIovecs(s, k) = <<w>> \o post
    <3>1. SubSeq(s, idx + 1, Len(s)) = q /\ k - Total(SubSeq(s, 1, idx)) = left
      BY <2>2, <2>8, <2>9
    <3> QED
      BY <1>5, <1>8, <2>10, <3>1
  <2>12. w \in Vecs /\ <<w>> \in Seq(Full) /\ <<w>> \in Seq(Vecs)
    BY FullVecs, SeqOfOne
  <2>13. PICK x \in Seq(Bytes) : Len(x) = left /\ BytesOf(v) = x \o BytesOf(w)
    <3>1. left <= v.len
      BY <2>4, <2>8
    <3> QED
      BY <2>3, <2>10, <2>12, <3>1, SplitBytes
  <2>14. PICK a \in Seq(Bytes), y \in Seq(Bytes), b \in Seq(Bytes) :
           a = Gather(pre) /\ y = BytesOf(w) /\ b = Gather(post)
    BY <2>3, <2>12, GatherType, BytesOfIs
  <2>15. Gather(s) = (a \o x) \o (y \o b)
    <3>0. PICK one \in Seq(Vecs) : one = <<v>>
      BY <2>3
    <3>1. one \o post \in Seq(Vecs) /\ Gather(one \o post) = Gather(one) \o Gather(post)
      BY <2>3, GatherConcat
    <3>2. Gather(s) = a \o (BytesOf(v) \o b)
      <4>1. Gather(one) = BytesOf(v)
        BY <2>3, <3>0, GatherOne
      <4>2. PICK rest \in Seq(Vecs) : rest = one \o post
        BY <3>1
      <4>3. Gather(pre \o rest) = Gather(pre) \o Gather(rest)
        BY <2>3, GatherConcat
      <4> QED
        BY <2>2, <2>14, <3>0, <3>1, <4>1, <4>2, <4>3
    <3>3. Regrouped(a, x, y, b)
      BY Regroup
    <3> QED
      BY <2>13, <2>14, <3>2, <3>3 DEF Regrouped
  <2>16. Gather(<<w>> \o post) = y \o b /\ Total(<<w>> \o post) = w.len + Total(post)
    <3>1. PICK one \in Seq(Vecs) : one = <<w>>
      BY <2>12
    <3>2. Gather(one) = BytesOf(w) /\ Total(one) = w.len
      BY <2>12, <3>1, GatherOne
    <3>3. /\ Gather(one \o post) = Gather(one) \o Gather(post)
          /\ Total(one \o post) = Total(one) + Total(post)
      BY <2>3, GatherConcat
    <3> QED
      BY <2>14, <3>1, <3>2, <3>3
  <2>17. PICK c \in Seq(Bytes), d \in Seq(Bytes) :
            c = a \o x /\ d = y \o b /\ Len(c) = Len(a) + Len(x)
    BY ConcatProperties
  <2>18. k \in Nat /\ k = Len(c)
    <3>1. Len(a) = Total(pre)
      BY <2>3, <2>14, GatherType
    <3>2. k \in Nat /\ k = Total(pre) + left
      BY <1>k, <2>5, <2>8
    <3>3. Len(c) = Total(pre) + left
      BY <2>13, <2>17, <3>1
    <3> QED
      BY <3>2, <3>3
  <2>19. SubSeq(c \o d, 1, k) = c
    BY <2>18, FirstBytes
  <2>20. SubSeq(Gather(s), 1, k) = c /\ Gather(s) = c \o d
    BY <2>15, <2>17, <2>19
  <2>21. Total(<<w>> \o post) < Total(s)
    <3>1. <<w>> \o post \in Seq(Vecs)
      BY <2>3, <2>12, GatherConcat
    <3>2. Len(d) = Total(<<w>> \o post)
      BY <2>16, <2>17, <3>1, GatherType
    <3>3. Len(c \o d) = Len(c) + Len(d) /\ Len(d) \in Nat
      BY ConcatProperties, LenProperties
    <3> QED
      BY <1>1, <2>18, <2>20, <3>2, <3>3
  <2>22. <<w>> \o post \in Seq(Full)
    BY <2>12, ConcatProperties
  <2> QED
    BY <2>11, <2>16, <2>17, <2>20, <2>21, <2>22
<1> QED
  BY <1>7, <1>8

-----------------------------------------------------------------------------
(* The iovecs of a frame.                                                    *)

\* An iovec over a whole part.
LEMMA IovecType ==
    ASSUME NEW part \in Parts, NEW len \in Nat
    PROVE  /\ Iovec(part, len) \in Vecs
           /\ len # 0 => Iovec(part, len) \in Full
           /\ BytesOf(Iovec(part, len)) \in Seq(Bytes)
           /\ Len(BytesOf(Iovec(part, len))) = len
<1>1. Iovec(part, len) \in Vecs /\ Iovec(part, len).len = len
  BY DEF Iovec, Vecs
<1>2. len # 0 => Iovec(part, len) \in Full
  BY DEF Iovec, Full
<1> QED
  BY <1>1, <1>2, BytesOfIs

\* Leaving the iovec of an empty part out leaves no byte out.
LEMMA NonEmptyIs ==
    ASSUME NEW part \in Parts, NEW len \in Nat
    PROVE  /\ NonEmpty(part, len) \in Seq(Full)
           /\ Gather(NonEmpty(part, len)) = BytesOf(Iovec(part, len))
<1>1. CASE len > 0
  <2>1. PICK v \in Full : v = Iovec(part, len)
    BY <1>1, IovecType
  <2>2. NonEmpty(part, len) = <<v>>
    BY <1>1, <2>1 DEF NonEmpty
  <2>3. <<v>> \in Seq(Full) /\ v \in Vecs
    BY SeqOfOne, FullVecs
  <2>4. Gather(<<v>>) = BytesOf(v)
    BY <2>3, GatherOne
  <2> QED
    BY <2>1, <2>2, <2>3, <2>4
<1>2. CASE ~ (len > 0)
  <2>1. NonEmpty(part, len) = <<>> /\ len = 0
    BY <1>2 DEF NonEmpty
  <2>2. <<>> \in Seq(Full)
    BY EmptySeq
  <2>3. BytesOf(Iovec(part, len)) \in Seq(Bytes) /\ Len(BytesOf(Iovec(part, len))) = 0
    BY <2>1, IovecType
  <2>4. BytesOf(Iovec(part, len)) = <<>>
    BY <2>3, EmptySeq
  <2> QED
    BY <2>1, <2>2, <2>4, GatherEmpty
<1> QED
  BY <1>1, <1>2

\* The frames' fields.
LEMMA FrameFields ==
    ASSUME NEW f \in Frames \cup {NoFrame}
    PROVE  /\ f.kind \in {"request", "response", "raw", "control", "data", "init", "none"}
           /\ f.service \in Nat /\ f.method \in Nat /\ f.seg1 \in Nat /\ f.seg2 \in Nat
           /\ f \in Frames <=> f # NoFrame
<1> DEFINE Typed(g) == g.service \in Nat /\ g.method \in Nat /\ g.seg1 \in Nat /\ g.seg2 \in Nat
<1>1. ASSUME f \in RequestFrames PROVE f.kind = "request" /\ Typed(f)
  BY <1>1, WritevAssumption DEF RequestFrames, Sized
<1>2. ASSUME f \in ResponseFrames PROVE f.kind = "response" /\ Typed(f)
  BY <1>2, WritevAssumption DEF ResponseFrames, Sized
<1>3. ASSUME f \in RawFrames PROVE f.kind = "raw" /\ Typed(f)
  BY <1>3, WritevAssumption DEF RawFrames, Sized
<1>4. ASSUME f \in StreamFrames PROVE f.kind \in {"control", "data", "init"} /\ Typed(f)
  BY <1>4, WritevAssumption DEF StreamFrames, Sized
<1>5. NoFrame.kind = "none" /\ Typed(NoFrame)
  BY DEF NoFrame, Sized
<1>6. CASE f \in Frames
  <2>1. f.kind \in {"request", "response", "raw", "control", "data", "init"} /\ Typed(f)
    BY <1>1, <1>2, <1>3, <1>4, <1>6 DEF Frames
  <2>2. f # NoFrame
    BY <1>5, <2>1
  <2> QED
    BY <1>6, <2>1, <2>2
<1>7. CASE f \notin Frames
  BY <1>5, <1>7
<1> QED
  BY <1>6, <1>7

\* The single iovecs of header and length fields.
LEMMA FixedIovecs ==
    /\ Header \in Seq(Full) /\ Gather(Header) = BytesOf(Iovec("header", HeaderSize))
    /\ \A part \in {"serviceLen", "methodLen", "errorCode"} :
          /\ <<Iovec(part, LenSize)>> \in Seq(Full)
          /\ Gather(<<Iovec(part, LenSize)>>) = BytesOf(Iovec(part, LenSize))
<1>1. ASSUME NEW part \in Parts, NEW len \in Nat \ {0}
      PROVE  /\ <<Iovec(part, len)>> \in Seq(Full)
             /\ Gather(<<Iovec(part, len)>>) = BytesOf(Iovec(part, len))
  <2>1. NonEmpty(part, len) = <<Iovec(part, len)>>
    BY DEF NonEmpty
  <2> QED
    BY <2>1, NonEmptyIs
<1>2. /\ "header" \in Parts /\ "serviceLen" \in Parts
      /\ "methodLen" \in Parts /\ "errorCode" \in Parts
  BY DEF Parts
<1>3. HeaderSize \in Nat \ {0} /\ LenSize \in Nat \ {0}
  BY WritevAssumption
<1> QED
  BY <1>1, <1>2, <1>3 DEF Header

\* The iovecs of names and payload.
LEMMA NamesAndPayload ==
    ASSUME NEW f \in Frames \cup {NoFrame}
    PROVE  /\ Names(f) \in Seq(Full) /\ Payload(f) \in Seq(Full)
           /\ Gather(Names(f)) =
                 (BytesOf(Iovec("serviceLen", LenSize)) \o BytesOf(Iovec("service", f.service)))
                 \o (BytesOf(Iovec("methodLen", LenSize)) \o BytesOf(Iovec("method", f.method)))
           /\ Gather(Payload(f)) = BytesOf(Iovec("seg1", f.seg1)) \o BytesOf(Iovec("seg2", f.seg2))
<1>1. f.service \in Nat /\ f.method \in Nat /\ f.seg1 \in Nat /\ f.seg2 \in Nat
  BY FrameFields
<1>2. "service" \in Parts /\ "method" \in Parts /\ "seg1" \in Parts /\ "seg2" \in Parts
  BY DEF Parts
<1>3. PICK sl \in Seq(Full), ml \in Seq(Full) :
         /\ sl = <<Iovec("serviceLen", LenSize)>>
         /\ Gather(sl) = BytesOf(Iovec("serviceLen", LenSize))
         /\ ml = <<Iovec("methodLen", LenSize)>>
         /\ Gather(ml) = BytesOf(Iovec("methodLen", LenSize))
  BY FixedIovecs
<1>4. PICK s \in Seq(Full) :
         s = NonEmpty("service", f.service) /\ Gather(s) = BytesOf(Iovec("service", f.service))
  BY <1>1, <1>2, NonEmptyIs
<1>5. PICK m \in Seq(Full) :
         m = NonEmpty("method", f.method) /\ Gather(m) = BytesOf(Iovec("method", f.method))
  BY <1>1, <1>2, NonEmptyIs
<1>6. PICK a \in Seq(Full) :
         a = NonEmpty("seg1", f.seg1) /\ Gather(a) = BytesOf(Iovec("seg1", f.seg1))
  BY <1>1, <1>2, NonEmptyIs
<1>7. PICK b \in Seq(Full) :
         b = NonEmpty("seg2", f.seg2) /\ Gather(b) = BytesOf(Iovec("seg2", f.seg2))
  BY <1>1, <1>2, NonEmptyIs
<1>8. PICK x \in Seq(Full) : x = sl \o s /\ Gather(x) = Gather(sl) \o Gather(s)
  BY FullConcat
<1>9. PICK y \in Seq(Full) : y = ml \o m /\ Gather(y) = Gather(ml) \o Gather(m)
  BY FullConcat
<1>10. x \o y \in Seq(Full) /\ Gather(x \o y) = Gather(x) \o Gather(y)
  BY FullConcat
<1>11. a \o b \in Seq(Full) /\ Gather(a \o b) = Gather(a) \o Gather(b)
  BY FullConcat
<1>12. Names(f) = x \o y /\ Payload(f) = a \o b
  BY <1>3, <1>4, <1>5, <1>6, <1>7, <1>8, <1>9 DEF Names, Payload
<1> QED
  BY <1>3, <1>4, <1>5, <1>6, <1>7, <1>8, <1>9, <1>10, <1>11, <1>12

\* A frame's iovecs all have bytes.
LEMMA RebuildType ==
    ASSUME NEW f \in Frames \cup {NoFrame}
    PROVE  rebuildIovecs(f) \in Seq(Full)
<1>1. PICK h \in Seq(Full), n \in Seq(Full), p \in Seq(Full), e \in Seq(Full) :
         h = Header /\ n = Names(f) /\ p = Payload(f) /\ e = <<Iovec("errorCode", LenSize)>>
  BY NamesAndPayload, FixedIovecs
<1>2. n \o p \in Seq(Full) /\ h \o p \in Seq(Full) /\ h \o n \in Seq(Full) /\ h \o e \in Seq(Full)
  BY FullConcat
<1>3. h \o (n \o p) \in Seq(Full) /\ (h \o e) \o p \in Seq(Full) /\ <<>> \in Seq(Full)
  BY <1>2, FullConcat, EmptySeq
<1>4. f.kind \in {"request", "response", "raw", "control", "data", "init", "none"}
  BY FrameFields
<1> QED
  BY <1>1, <1>2, <1>3, <1>4 DEF rebuildIovecs

-----------------------------------------------------------------------------
(* SendInv is inductive.                                                     *)

\* Iovecs that are left hold at least a byte.
LEMMA LeftMeansBytes ==
    ASSUME NEW s \in Seq(Full), s # <<>>
    PROVE  Gather(s) # <<>>
<1>1. 0 \in 0..(Len(s) - 1)
  BY EmptySeq
<1>2. PICK pre \in Seq(Full), post \in Seq(Full), v \in Full : s = pre \o (<<v>> \o post)
  BY <1>1, SplitVecs
<1>3. PICK one \in Seq(Full) : one = <<v>>
  BY SeqOfOne
<1>4. PICK rest \in Seq(Full) : rest = one \o post /\ Gather(rest) = Gather(one) \o Gather(post)
  BY FullConcat
<1>5. Gather(pre \o rest) = Gather(pre) \o Gather(rest)
  BY FullConcat
<1>6. v \in Vecs /\ v.len # 0
  BY FullVecs DEF Full
<1>7. Gather(one) = BytesOf(v) /\ BytesOf(v) \in Seq(Bytes) /\ Len(BytesOf(v)) = v.len
  BY <1>3, <1>6, GatherOne, BytesOfIs
<1>8. Gather(one) # <<>>
  BY <1>6, <1>7, EmptySeq
<1>9. Gather(pre) \in Seq(Bytes) /\ Gather(post) \in Seq(Bytes) /\ Gather(rest) \in Seq(Bytes)
  BY FullVecs, GatherType
<1>10. Gather(rest) # <<>>
  BY <1>4, <1>7, <1>8, <1>9, ConcatEqualIffEmpty
<1>11. Gather(pre) \o Gather(rest) # <<>>
  BY <1>9, <1>10, ConcatEqualIffEmpty
<1> QED
  BY <1>2, <1>3, <1>4, <1>5, <1>11

\* Nothing is on its way before the first send.
LEMMA SendInit == Init => SendInv
<1> SUFFICES ASSUME Init PROVE SendInv
  OBVIOUS
<1>1. TypeOK
  <2>1. iovecs = <<>> /\ wire = <<>>
    BY DEF Init
  <2>2. iovecs \in Seq([part : Parts, at : Nat, len : Nat \ {0}]) /\ wire \in Seq(Parts \X Nat)
    BY <2>1, EmptySeq
  <2> QED
    BY <2>2 DEF Init, TypeOK
<1>2. InProgress
  BY DEF Init, InProgress
<1>3. NothingLostOrRepeated
  <2>1. rebuildIovecs(NoFrame) = <<>>
    BY DEF rebuildIovecs, NoFrame, Sized
  <2>2. <<>> \o <<>> = <<>>
    BY EmptySeq, ConcatEmptySeq
  <2> QED
    BY <2>1, <2>2, GatherEmpty DEF Init, NothingLostOrRepeated
<1>4. SuccessMeansWhole
  BY DEF Init, SuccessMeansWhole
<1> QED
  BY <1>1, <1>2, <1>3, <1>4 DEF SendInv

\* A send starts with the whole frame in its iovecs.
LEMMA SendStep ==
    ASSUME SendInv, NEW f \in Frames, Send(f)
    PROVE  SendInv'
<1>1. /\ frame' = f /\ iovecs' = rebuildIovecs(f)
      /\ machine' = "advance" /\ result' = "NONE" /\ wire' = <<>>
  BY DEF Send
<1>2. f \in Frames \cup {NoFrame} /\ f # NoFrame
  BY FrameFields
<1>3. iovecs' \in Seq(Full)
  BY <1>1, <1>2, RebuildType
<1>4. TypeOK'
  <2>1. wire' \in Seq(Parts \X Nat)
    BY <1>1, EmptySeq
  <2> QED
    BY <1>1, <1>2, <1>3, <2>1 DEF TypeOK, Full
<1>5. InProgress'
  BY <1>1, <1>2 DEF InProgress
<1>6. NothingLostOrRepeated'
  <2>1. Gather(rebuildIovecs(f)) \in Seq(Bytes)
    BY <1>1, <1>3, FullVecs, GatherType
  <2>2. <<>> \o Gather(rebuildIovecs(f)) = Gather(rebuildIovecs(f))
    BY <2>1, ConcatEmptySeq
  <2> QED
    BY <1>1, <2>2 DEF NothingLostOrRepeated
<1>7. SuccessMeansWhole'
  BY <1>1 DEF SuccessMeansWhole
<1> QED
  BY <1>4, <1>5, <1>6, <1>7 DEF SendInv

\* A send that has nothing left has put the whole frame on the wire.
LEMMA AdvanceStep ==
    ASSUME SendInv, Advance
    PROVE  SendInv'
<1>0. TypeOK /\ InProgress /\ NothingLostOrRepeated /\ SuccessMeansWhole
  BY DEF SendInv
<1>1. machine = "advance" /\ frame' = frame /\ iovecs' = iovecs /\ wire' = wire
  BY DEF Advance
<1>2. frame # NoFrame /\ result = "NONE"
  BY <1>0, <1>1 DEF InProgress
<1>3. NothingLostOrRepeated'
  BY <1>0, <1>1 DEF NothingLostOrRepeated
<1>4. CASE iovecs = <<>>
  <2>1. machine' = "idle" /\ result' = "OK"
    BY <1>4 DEF Advance
  <2>2. wire \in Seq(Bytes)
    BY <1>0 DEF TypeOK, Bytes
  <2>3. wire = Gather(rebuildIovecs(frame))
    <3>1. wire \o <<>> = Gather(rebuildIovecs(frame))
      BY <1>0, <1>4, GatherEmpty DEF NothingLostOrRepeated
    <3> QED
      BY <2>2, <3>1, ConcatEmptySeq
  <2>4. TypeOK'
    BY <1>0, <1>1, <2>1 DEF TypeOK
  <2>5. InProgress'
    BY <2>1 DEF InProgress
  <2>6. SuccessMeansWhole'
    BY <1>1, <1>2, <2>1, <2>3 DEF SuccessMeansWhole
  <2> QED
    BY <1>3, <2>4, <2>5, <2>6 DEF SendInv
<1>5. CASE iovecs # <<>>
  <2>1. machine' = "wait" /\ result' = result
    BY <1>5 DEF Advance
  <2>2. TypeOK'
    BY <1>0, <1>1, <2>1 DEF TypeOK
  <2>3. InProgress'
    BY <1>1, <1>2, <1>5, <2>1 DEF InProgress
  <2>4. SuccessMeansWhole'
    BY <2>1 DEF SuccessMeansWhole
  <2> QED
    BY <1>3, <2>2, <2>3, <2>4 DEF SendInv
<1> QED
  BY <1>4, <1>5

\* A partial write moves bytes from the iovecs to the wire.
LEMMA OnWriteStep ==
    ASSUME SendInv, NEW k \in 1..Total(iovecs), OnWrite(k)
    PROVE  SendInv' /\ Total(iovecs') < Total(iovecs)
<1>0. TypeOK /\ InProgress /\ NothingLostOrRepeated
  BY DEF SendInv
<1>1. /\ machine = "wait" /\ machine' = "advance" /\ frame' = frame /\ result' = result
      /\ wire' = wire \o SubSeq(Gather(iovecs), 1, k)
      /\ iovecs' = consumeWritevIovecs(iovecs, k)
  BY DEF OnWrite
<1>2. iovecs \in Seq(Full) /\ wire \in Seq(Bytes)
  BY <1>0 DEF TypeOK, Full, Bytes
<1>3. PICK taken, s : taken = SubSeq(Gather(iovecs), 1, k) /\ s = consumeWritevIovecs(iovecs, k)
  OBVIOUS
<1>4. /\ s \in Seq(Full) /\ taken \in Seq(Bytes)
      /\ taken \o Gather(s) = Gather(iovecs) /\ Total(s) < Total(iovecs)
  BY <1>2, <1>3, ConsumeLeavesRest
<1>5. Gather(s) \in Seq(Bytes)
  BY <1>4, FullVecs, GatherType
<1>6. TypeOK'
  <2>1. wire' \in Seq(Bytes)
    BY <1>1, <1>2, <1>3, <1>4, ConcatProperties
  <2> QED
    BY <1>0, <1>1, <1>3, <1>4, <2>1 DEF TypeOK, Full, Bytes
<1>7. InProgress'
  BY <1>0, <1>1 DEF InProgress
<1>8. NothingLostOrRepeated'
  <2>1. Associate(wire, taken, Gather(s))
    BY <1>2, <1>4, <1>5, Assoc
  <2>2. (wire \o taken) \o Gather(s) = wire \o Gather(iovecs)
    BY <1>4, <2>1 DEF Associate
  <2> QED
    BY <1>0, <1>1, <1>3, <2>2 DEF NothingLostOrRepeated
<1>9. SuccessMeansWhole'
  BY <1>1 DEF SuccessMeansWhole
<1> QED
  BY <1>1, <1>3, <1>4, <1>6, <1>7, <1>8, <1>9 DEF SendInv

\* A send that fails has not put the whole frame on the wire.
LEMMA OnWriteFailStep ==
    ASSUME SendInv, NEW code \in FailCodes, OnWriteFail(code)
    PROVE  SendInv'
<1>0. TypeOK /\ InProgress /\ NothingLostOrRepeated
  BY DEF SendInv
<1>1. /\ machine = "wait" /\ machine' = "idle" /\ result' = code
      /\ frame' = frame /\ iovecs' = iovecs /\ wire' = wire
  BY DEF OnWriteFail
<1>2. iovecs \in Seq(Full) /\ wire \in Seq(Bytes) /\ iovecs # <<>>
  BY <1>0, <1>1 DEF TypeOK, Full, Bytes, InProgress
<1>3. Gather(iovecs) # <<>> /\ Gather(iovecs) \in Seq(Bytes)
  BY <1>2, LeftMeansBytes, FullVecs, GatherType
<1>4. wire # Gather(rebuildIovecs(frame))
  <2>1. wire \o Gather(iovecs) # wire
    BY <1>2, <1>3, ConcatEqualIffEmpty
  <2> QED
    BY <1>0, <2>1 DEF NothingLostOrRepeated
<1>5. TypeOK'
  BY <1>0, <1>1 DEF TypeOK
<1>6. InProgress'
  BY <1>1 DEF InProgress
<1>7. NothingLostOrRepeated'
  BY <1>0, <1>1 DEF NothingLostOrRepeated
<1>8. SuccessMeansWhole'
  <2>1. result' # "OK"
    BY <1>1 DEF FailCodes
  <2> QED
    BY <1>1, <1>4, <2>1 DEF SuccessMeansWhole
<1> QED
  BY <1>5, <1>6, <1>7, <1>8 DEF SendInv

\* No step of the write machine breaks SendInv.
LEMMA SendNext == SendInv /\ [Next]_vars => SendInv'
<1> SUFFICES ASSUME SendInv, [Next]_vars PROVE SendInv'
  OBVIOUS
<1>1. ASSUME NEW f \in Frames, Send(f) PROVE SendInv'
  BY <1>1, SendStep
<1>2. CASE Advance
  BY <1>2, AdvanceStep
<1>3. ASSUME NEW k \in 1..Total(iovecs), OnWrite(k) PROVE SendInv'
  BY <1>3, OnWriteStep
<1>4. ASSUME NEW code \in FailCodes, OnWriteFail(code) PROVE SendInv'
  BY <1>4, OnWriteFailStep
<1>5. CASE UNCHANGED vars
  BY <1>5 DEF vars, SendInv, TypeOK, InProgress, NothingLostOrRepeated, SuccessMeansWhole
<1> QED
  BY <1>1, <1>2, <1>3, <1>4, <1>5 DEF Next

\* RpcWritevMachine (rpc_await.h) with the write states: however the socket
\* splits a frame, no byte of it is lost, repeated or reordered, a send is
\* reported as done exactly when the whole frame is on the wire, and the machine
\* never waits for a write of nothing; for all sizes.
THEOREM WritevSends == Spec => []SendInv
<1>1. Init => SendInv
  BY SendInit
<1>2. SendInv /\ [Next]_vars => SendInv'
  BY SendNext
<1> QED
  BY <1>1, <1>2, PTL DEF Spec

\* Every write that consumeWritevIovecs accounts for leaves less to write, so a
\* send whose writes succeed ends after at most as many of them as the frame has
\* bytes.
WritesShrink ==
    machine = "wait" /\ machine' = "advance" => Total(iovecs') < Total(iovecs)
THEOREM EveryWriteShrinks == Spec => [][WritesShrink]_vars
<1>1. SendInv /\ [Next]_vars => [WritesShrink]_vars
  <2> SUFFICES ASSUME SendInv, Next, machine = "wait", machine' = "advance"
               PROVE  Total(iovecs') < Total(iovecs)
    BY DEF WritesShrink
  <2>1. ASSUME NEW f \in Frames, Send(f) PROVE FALSE
    BY <2>1 DEF Send
  <2>2. CASE Advance
    BY <2>2 DEF Advance
  <2>3. ASSUME NEW k \in 1..Total(iovecs), OnWrite(k) PROVE Total(iovecs') < Total(iovecs)
    BY <2>3, OnWriteStep
  <2>4. ASSUME NEW code \in FailCodes, OnWriteFail(code) PROVE FALSE
    BY <2>4 DEF OnWriteFail
  <2> QED
    BY <2>1, <2>2, <2>3, <2>4 DEF Next
<1> QED
  BY <1>1, WritevSends, PTL DEF Spec

-----------------------------------------------------------------------------
(* What the receiver parses.                                                 *)

\* Where a piece of the bytes sits, and what is before and after it.
PieceAt(w, a, b, c, m) ==
    /\ SubSeq(w, m + 1, m + Len(b)) = b
    /\ w = (a \o b) \o c
    /\ a \o b \in Seq(Bytes) /\ Len(a \o b) = m + Len(b)

LEMMA Piece ==
    ASSUME NEW a \in Seq(Bytes), NEW b \in Seq(Bytes), NEW c \in Seq(Bytes),
           NEW w, w = a \o (b \o c), NEW m \in Nat, m = Len(a)
    PROVE  PieceAt(w, a, b, c, m)
<1>1. PICK d \in Seq(Bytes) : d = a \o b /\ Len(d) = m + Len(b)
  BY ConcatProperties
<1>2. w = d \o c
  <2>1. Associate(a, b, c)
    BY Assoc
  <2> QED
    BY <1>1, <2>1 DEF Associate
<1>4. w \in Seq(Bytes) /\ Len(w) = m + Len(b) + Len(c) /\ Len(b) \in Nat /\ Len(c) \in Nat
  BY <1>1, <1>2, ConcatProperties, LenProperties
<1>5. PICK n \in Nat : n = Len(b)
  OBVIOUS
<1>6. CASE n = 0
  <2>1. b = <<>>
    BY <1>5, <1>6, EmptySeq
  <2>2. SubSeq(w, m + 1, m + n) = <<>>
    BY <1>6, SubSeqEmpty
  <2> QED
    BY <1>1, <1>2, <1>5, <2>1, <2>2 DEF PieceAt
<1>7. CASE n # 0
  <2>1. m + 1 \in Nat \ {0} /\ m + n \in 0..Len(w) /\ m + 1 <= m + n /\ (m + n) - (m + 1) + 1 = n
    BY <1>4, <1>5, <1>7
  <2>2. PICK q \in Seq(Bytes) :
           /\ q = SubSeq(w, m + 1, m + n) /\ Len(q) = n
           /\ \A i \in 1..n : q[i] = w[m + 1 + i - 1]
    <3>1. PICK x \in Nat \ {0}, y \in 0..Len(w) : x = m + 1 /\ y = m + n
      BY <2>1
    <3>2. x <= y /\ y - x + 1 = n
      BY <2>1, <3>1
    <3>3. /\ SubSeq(w, x, y) \in Seq(Bytes)
          /\ x <= y => Len(SubSeq(w, x, y)) = y - x + 1
          /\ \A i \in 1..(y - x + 1) : SubSeq(w, x, y)[i] = w[x + i - 1]
      <4>1. PartIs(Bytes, w, x, y)
        BY <1>4, PartOfSeq
      <4> QED
        BY <4>1 DEF PartIs
    <3>4. PICK q \in Seq(Bytes) : q = SubSeq(w, x, y)
      BY <3>3
    <3>5. Len(q) = n /\ \A i \in 1..n : q[i] = w[x + i - 1]
      BY <3>2, <3>3, <3>4
    <3> QED
      BY <3>1, <3>4, <3>5
  <2>3. ASSUME NEW i \in 1..n PROVE q[i] = b[i]
    <3>1. PICK j \in 1..Len(d) : j = m + i /\ j = m + 1 + i - 1 /\ ~ (j <= m) /\ j - m = i
      <4>1. m + i \in 1..(m + n) /\ m + i = m + 1 + i - 1 /\ ~ (m + i <= m) /\ m + i - m = i
        OBVIOUS
      <4>2. Len(d) = m + n
        BY <1>1, <1>5
      <4> QED
        BY <4>1, <4>2
    <3>2. q[i] = w[j]
      BY <2>2, <3>1
    <3>3. j \in 1..(Len(d) + Len(c)) /\ j <= Len(d)
      BY <1>4, <3>1
    <3>4. (d \o c)[j] = d[j]
      BY <3>3, ConcatProperties
    <3>5. j \in 1..(Len(a) + Len(b))
      BY <1>1, <3>1
    <3>6. (a \o b)[j] = b[j - m]
      BY <3>1, <3>5, ConcatProperties
    <3> QED
      BY <1>1, <1>2, <3>1, <3>2, <3>4, <3>6
  <2>4. q = b
    BY <1>5, <2>2, <2>3, SeqEqual
  <2> QED
    BY <1>1, <1>2, <1>5, <2>2, <2>4 DEF PieceAt
<1> QED
  BY <1>6, <1>7

\* The bytes of a request, piece by piece.
RequestIs(w, f) ==
    w = BytesOf(Iovec("header", HeaderSize))
          \o (BytesOf(Iovec("serviceLen", LenSize))
          \o (BytesOf(Iovec("service", f.service))
          \o (BytesOf(Iovec("methodLen", LenSize))
          \o (BytesOf(Iovec("method", f.method)) \o Gather(Payload(f))))))

LEMMA RequestBytes ==
    ASSUME NEW f \in Frames, f.kind = "request"
    PROVE  RequestIs(Gather(rebuildIovecs(f)), f)
<1>0. f \in Frames \cup {NoFrame}
  OBVIOUS
<1>a. f.service \in Nat /\ f.method \in Nat /\ HeaderSize \in Nat /\ LenSize \in Nat
  BY <1>0, FrameFields, WritevAssumption
<1>b. /\ "header" \in Parts /\ "serviceLen" \in Parts /\ "service" \in Parts
      /\ "methodLen" \in Parts /\ "method" \in Parts
  BY DEF Parts
<1>c. PICK H \in Seq(Bytes) : H = BytesOf(Iovec("header", HeaderSize))
  BY <1>a, <1>b, IovecType
<1>d. PICK SL \in Seq(Bytes) : SL = BytesOf(Iovec("serviceLen", LenSize))
  BY <1>a, <1>b, IovecType
<1>e. PICK S \in Seq(Bytes) : S = BytesOf(Iovec("service", f.service))
  BY <1>a, <1>b, IovecType
<1>f. PICK ML \in Seq(Bytes) : ML = BytesOf(Iovec("methodLen", LenSize))
  BY <1>a, <1>b, IovecType
<1>g. PICK M \in Seq(Bytes) : M = BytesOf(Iovec("method", f.method))
  BY <1>a, <1>b, IovecType
<1>h. PICK P \in Seq(Bytes) : P = Gather(Payload(f))
  <2>1. Payload(f) \in Seq(Vecs)
    BY <1>0, NamesAndPayload, FullVecs
  <2> QED
    BY <2>1, GatherType
<1>1. PICK h \in Seq(Full), n \in Seq(Full), p \in Seq(Full) :
         /\ h = Header /\ Gather(h) = H
         /\ n = Names(f) /\ Gather(n) = (SL \o S) \o (ML \o M)
         /\ p = Payload(f) /\ Gather(p) = P
  BY <1>0, <1>c, <1>d, <1>e, <1>f, <1>g, <1>h, NamesAndPayload, FixedIovecs
<1>2. rebuildIovecs(f) = h \o (n \o p)
  BY <1>1 DEF rebuildIovecs
<1>3. PICK np \in Seq(Full) : np = n \o p /\ Gather(np) = Gather(n) \o Gather(p)
  BY FullConcat
<1>4. Gather(h \o np) = Gather(h) \o Gather(np)
  BY FullConcat
<1>5. PICK X \in Seq(Bytes), R \in Seq(Bytes) : X = ML \o M /\ R = S \o X
  BY ConcatProperties
<1>6. /\ Associate(SL, S, X) /\ Associate(SL, R, P)
      /\ Associate(S, X, P) /\ Associate(ML, M, P)
  BY Assoc
<1>7. (SL \o S) \o X = SL \o R
  BY <1>5, <1>6 DEF Associate
<1>8. (SL \o R) \o P = SL \o (R \o P)
  BY <1>6 DEF Associate
<1>9. R \o P = S \o (X \o P)
  BY <1>5, <1>6 DEF Associate
<1>10. X \o P = ML \o (M \o P)
  BY <1>5, <1>6 DEF Associate
<1>11. Gather(rebuildIovecs(f)) = H \o (((SL \o S) \o X) \o P)
  BY <1>1, <1>2, <1>3, <1>4, <1>5
<1>12. ((SL \o S) \o X) \o P = SL \o (S \o (ML \o (M \o P)))
  BY <1>7, <1>8, <1>9, <1>10, Zenon
<1>13. Gather(rebuildIovecs(f)) = H \o (SL \o (S \o (ML \o (M \o P))))
  BY <1>11, <1>12, Zenon
<1> QED
  BY <1>c, <1>d, <1>e, <1>f, <1>g, <1>h, <1>13 DEF RequestIs

\* The two length fields are not mistaken for each other, and are read back as
\* the lengths that were written.
LEMMA LengthRead ==
    ASSUME NEW c \in Nat
    PROVE  /\ (SubSeq(wire, c + 1, c + LenSize) = BytesOf(Iovec("serviceLen", LenSize))
                 => LengthsAt(c) = {frame.service % LenSpace})
           /\ (SubSeq(wire, c + 1, c + LenSize) = BytesOf(Iovec("methodLen", LenSize))
                 => LengthsAt(c) = {frame.method % LenSpace})
<1> DEFINE own(part) == [i \in 1..LenSize |-> <<part, i - 1>>]
<1>0. LenSize \in Nat \ {0}
  BY WritevAssumption
<1>1. ASSUME NEW part PROVE BytesOf(Iovec(part, LenSize)) = own(part)
  <2>1. \A i \in 1..LenSize : 0 + i - 1 = i - 1
    BY <1>0
  <2> QED
    BY <2>1 DEF BytesOf, Iovec
<1>2. own("serviceLen") # own("methodLen")
  <2>1. 1 \in 1..LenSize
    BY <1>0
  <2>2. own("serviceLen")[1] = <<"serviceLen", 0>> /\ own("methodLen")[1] = <<"methodLen", 0>>
    BY <2>1
  <2>3. <<"serviceLen", 0>> # <<"methodLen", 0>>
    OBVIOUS
  <2> HIDE DEF own
  <2> QED
    BY <2>2, <2>3
<1>3. LengthsAt(c) =
         IF SubSeq(wire, c + 1, c + LenSize) = own("serviceLen") THEN {frame.service % LenSpace}
         ELSE IF SubSeq(wire, c + 1, c + LenSize) = own("methodLen") THEN {frame.method % LenSpace}
         ELSE 0..(LenSpace - 1)
  BY DEF LengthsAt
<1> HIDE DEF own
<1> QED
  BY <1>1, <1>2, <1>3

\* A number below the modulus.
LEMMA SmallMod ==
    ASSUME NEW a \in Nat, NEW n \in Nat \ {0}, a < n
    PROVE  a % n = a
OBVIOUS

\* A request that was sent whole is parsed back.
LEMMA SentParsesBack ==
    ASSUME SendInv, frame.kind = "request", result = "OK",
           frame.service < LenSpace, frame.method < LenSpace
    PROVE  parseRequestBody = {[service |-> BytesOf(Iovec("service", frame.service)),
                                method |-> BytesOf(Iovec("method", frame.method)),
                                payload |-> Gather(Payload(frame)), ok |-> TRUE]}
<1>1. machine = "idle" /\ wire = Gather(rebuildIovecs(frame)) /\ frame \in Frames
  BY DEF SendInv, TypeOK, InProgress, SuccessMeansWhole
<1>2. frame \in Frames \cup {NoFrame}
  BY <1>1
<1>3. PICK h \in Nat, l \in Nat, s \in Nat, m \in Nat :
         /\ h = HeaderSize /\ l = LenSize /\ s = frame.service /\ m = frame.method
         /\ LenSpace \in Nat \ {0} /\ s < LenSpace /\ m < LenSpace
  BY <1>2, FrameFields, WritevAssumption
<1>4. /\ "header" \in Parts /\ "serviceLen" \in Parts /\ "service" \in Parts
      /\ "methodLen" \in Parts /\ "method" \in Parts
  BY DEF Parts
<1>5. PICK H \in Seq(Bytes), SL \in Seq(Bytes), S \in Seq(Bytes) :
         /\ H = BytesOf(Iovec("header", HeaderSize)) /\ Len(H) = h
         /\ SL = BytesOf(Iovec("serviceLen", LenSize)) /\ Len(SL) = l
         /\ S = BytesOf(Iovec("service", frame.service)) /\ Len(S) = s
  <2>1. BytesOf(Iovec("header", h)) \in Seq(Bytes) /\ Len(BytesOf(Iovec("header", h))) = h
    BY <1>4, IovecType
  <2>2. BytesOf(Iovec("serviceLen", l)) \in Seq(Bytes) /\ Len(BytesOf(Iovec("serviceLen", l))) = l
    BY <1>4, IovecType
  <2>3. BytesOf(Iovec("service", s)) \in Seq(Bytes) /\ Len(BytesOf(Iovec("service", s))) = s
    BY <1>4, IovecType
  <2> QED
    BY <1>3, <2>1, <2>2, <2>3
<1>6. PICK ML \in Seq(Bytes), M \in Seq(Bytes) :
         /\ ML = BytesOf(Iovec("methodLen", LenSize)) /\ Len(ML) = l
         /\ M = BytesOf(Iovec("method", frame.method)) /\ Len(M) = m
  <2>1. BytesOf(Iovec("methodLen", l)) \in Seq(Bytes) /\ Len(BytesOf(Iovec("methodLen", l))) = l
    BY <1>4, IovecType
  <2>2. BytesOf(Iovec("method", m)) \in Seq(Bytes) /\ Len(BytesOf(Iovec("method", m))) = m
    BY <1>4, IovecType
  <2> QED
    BY <1>3, <2>1, <2>2
<1>7. PICK P \in Seq(Bytes), p \in Nat : P = Gather(Payload(frame)) /\ p = Len(P)
  <2>1. Payload(frame) \in Seq(Vecs)
    BY <1>2, NamesAndPayload, FullVecs
  <2> QED
    BY <2>1, GatherType
<1>8. wire = H \o (SL \o (S \o (ML \o (M \o P))))
  <2>1. RequestIs(wire, frame)
    BY <1>1, RequestBytes
  <2> QED
    BY <1>5, <1>6, <1>7, <2>1 DEF RequestIs
<1>9. PICK r3 \in Seq(Bytes), r2 \in Seq(Bytes), r1 \in Seq(Bytes) :
         r3 = M \o P /\ r2 = ML \o r3 /\ r1 = S \o r2
  BY ConcatProperties
<1>10. PICK c1 \in Nat, c2 \in Nat, c3 \in Nat, c4 \in Nat :
         c1 = h + l /\ c2 = c1 + s /\ c3 = c2 + l /\ c4 = c3 + m
  OBVIOUS
<1>11. PieceAt(wire, H, SL, r1, h)
  BY <1>5, <1>8, <1>9, Piece
<1>12. PICK a1 \in Seq(Bytes) :
         SubSeq(wire, h + 1, h + l) = SL /\ wire = a1 \o (S \o r2) /\ c1 = Len(a1)
  BY <1>5, <1>9, <1>10, <1>11 DEF PieceAt
<1>13. PieceAt(wire, a1, S, r2, c1)
  BY <1>12, Piece
<1>14. PICK a2 \in Seq(Bytes) :
         SubSeq(wire, c1 + 1, c1 + s) = S /\ wire = a2 \o (ML \o r3) /\ c2 = Len(a2)
  BY <1>5, <1>9, <1>10, <1>13 DEF PieceAt
<1>15. PieceAt(wire, a2, ML, r3, c2)
  BY <1>14, Piece
<1>16. PICK a3 \in Seq(Bytes) :
         SubSeq(wire, c2 + 1, c2 + l) = ML /\ wire = a3 \o (M \o P) /\ c3 = Len(a3)
  BY <1>6, <1>9, <1>10, <1>15 DEF PieceAt
<1>17. PieceAt(wire, a3, M, P, c3)
  BY <1>16, Piece
<1>18. PICK a4 \in Seq(Bytes) :
         SubSeq(wire, c3 + 1, c3 + m) = M /\ wire = a4 \o P /\ c4 = Len(a4)
  BY <1>6, <1>10, <1>17 DEF PieceAt
<1>19. SubSeq(wire, c4 + 1, c4 + p) = P /\ Len(wire) = c4 + p
  <2>1. PICK e \in Seq(Bytes) : e = <<>>
    BY EmptySeq
  <2>2. P \o e = P
    BY <2>1, ConcatEmptySeq
  <2>3. PieceAt(wire, a4, P, e, c4)
    BY <1>18, <2>2, Piece
  <2>4. SubSeq(wire, c4 + 1, c4 + p) = P
    BY <1>7, <2>3 DEF PieceAt
  <2>5. Len(a4 \o P) = Len(a4) + Len(P)
    BY ConcatProperties
  <2> QED
    BY <1>7, <1>18, <2>4, <2>5
<1>20. LengthsAt(HeaderSize) = {s}
  <2>1. LengthsAt(h) = {frame.service % LenSpace}
    BY <1>3, <1>5, <1>12, LengthRead
  <2>2. s % LenSpace = s
    BY <1>3, SmallMod
  <2> QED
    BY <1>3, <2>1, <2>2
<1>21. LengthsAt(c2) = {m}
  <2>1. LengthsAt(c2) = {frame.method % LenSpace}
    BY <1>3, <1>6, <1>16, LengthRead
  <2>2. m % LenSpace = m
    BY <1>3, SmallMod
  <2> QED
    BY <1>3, <2>1, <2>2
<1> DEFINE read(sl, ml) ==
             [service |-> SubSeq(wire, HeaderSize + LenSize + 1, HeaderSize + LenSize + sl),
              method |-> SubSeq(wire, HeaderSize + LenSize + sl + LenSize + 1,
                                      HeaderSize + LenSize + sl + LenSize + ml),
              payload |-> SubSeq(wire, HeaderSize + LenSize + sl + LenSize + ml + 1, Len(wire)),
              ok |-> TRUE]
           body(sl) ==
             IF HeaderSize + LenSize + sl > Len(wire) THEN {Malformed}
             ELSE {IF HeaderSize + LenSize + sl + LenSize + ml > Len(wire) THEN Malformed
                   ELSE read(sl, ml) : ml \in LengthsAt(HeaderSize + LenSize + sl)}
<1>22. parseRequestBody = UNION {body(sl) : sl \in LengthsAt(HeaderSize)}
  BY DEF parseRequestBody
<1>23. read(s, m) = [service |-> S, method |-> M, payload |-> P, ok |-> TRUE]
  BY <1>3, <1>10, <1>14, <1>18, <1>19
<1>24. body(s) = {read(s, m)}
  <2>1. HeaderSize + LenSize + s = c2 /\ HeaderSize + LenSize + s + LenSize + m = c4
    BY <1>3, <1>10
  <2>2. ~ (c2 > Len(wire)) /\ ~ (c4 > Len(wire))
    BY <1>10, <1>19
  <2> HIDE DEF read
  <2> QED
    BY <1>21, <2>1, <2>2
<1>25. parseRequestBody = {read(s, m)}
  <2> HIDE DEF read, body
  <2> QED
    BY <1>20, <1>22, <1>24
<1> HIDE DEF read
<1> QED
  BY <1>5, <1>6, <1>7, <1>23, <1>25

\* tryParseRequestMessage (rpc_message.h) on what RpcRequestWriteState sends: a
\* request whose names fit their length fields is parsed back into the same
\* service, method and payload, however the socket split it; for all sizes.
THEOREM RequestsParseBack == Spec => []ParsesBack
<1>1. SendInv => ParsesBack
  BY SentParsesBack DEF ParsesBack
<1> QED
  BY <1>1, WritevSends, PTL
=============================================================================
