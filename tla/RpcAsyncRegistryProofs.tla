------------------------ MODULE RpcAsyncRegistryProofs ------------------------
(***************************************************************************)
(* Proofs about RpcAsyncRegistry for any number of coroutines, services,   *)
(* instances and watchers: watchers have the list, what callers were told  *)
(* adds up, an operation that met no other one finds its own result, and   *)
(* the coroutines together are the registry of a single thread.            *)
(***************************************************************************)
EXTENDS RpcAsyncRegistry, FiniteSetTheorems, SequenceTheorems, WellFoundedInduction, TLAPS

-----------------------------------------------------------------------------
(* Lists of endpoints.                                                       *)

\* What registering adds to a list.
LEMMA ListAppend ==
    ASSUME NEW q \in Seq(Endpoints), NEW e \in Endpoints
    PROVE  /\ Append(q, e) \in Seq(Endpoints) /\ Len(Append(q, e)) = Len(q) + 1
           /\ Append(q, e)[Len(q) + 1] = e
           /\ \A n \in 1..Len(q) : Append(q, e)[n] = q[n]
  OBVIOUS

\* What erasing one place of a list leaves.
LEMMA ListRemove ==
    ASSUME NEW q \in Seq(Endpoints), NEW i \in 1..Len(q)
    PROVE  /\ RemoveAt(q, i) \in Seq(Endpoints) /\ Len(RemoveAt(q, i)) = Len(q) - 1
           /\ \A n \in 1..(Len(q) - 1) :
                 RemoveAt(q, i)[n] = IF n < i THEN q[n] ELSE q[n + 1]
<1> DEFINE a == SubSeq(q, 1, i - 1)
           b == SubSeq(q, i + 1, Len(q))
<1>1. PICK l \in Nat : l = Len(q)
  OBVIOUS
<1>2. i \in Nat /\ i >= 1 /\ i <= l
  BY <1>1
<1>3. \A n \in 1..l : q[n] \in Endpoints
  BY <1>1
<1>4. a \in Seq(Endpoints) /\ Len(a) = i - 1 /\ \A n \in 1..(i - 1) : a[n] = q[n]
  <2>1. \A n \in 1..(i - 1) : q[n] \in Endpoints
    BY <1>2, <1>3
  <2>2. /\ a \in Seq(Endpoints)
        /\ Len(a) = IF 1 <= i - 1 THEN (i - 1) - 1 + 1 ELSE 0
        /\ \A n \in 1..((i - 1) - 1 + 1) : a[n] = q[1 + n - 1]
    BY <1>2, <2>1, SubSeqProperties
  <2>3. \A n \in 1..(i - 1) : n \in 1..((i - 1) - 1 + 1) /\ 1 + n - 1 = n
    BY <1>2
  <2> HIDE DEF a
  <2> QED
    BY <1>2, <2>2, <2>3
<1>5. b \in Seq(Endpoints) /\ Len(b) = l - i /\ \A n \in 1..(l - i) : b[n] = q[i + n]
  <2>1. \A n \in (i + 1)..l : q[n] \in Endpoints
    BY <1>2, <1>3
  <2>2. /\ b \in Seq(Endpoints)
        /\ Len(b) = IF i + 1 <= l THEN l - (i + 1) + 1 ELSE 0
        /\ \A n \in 1..(l - (i + 1) + 1) : b[n] = q[(i + 1) + n - 1]
    BY <1>1, <1>2, <2>1, SubSeqProperties
  <2>3. \A n \in 1..(l - i) : n \in 1..(l - (i + 1) + 1) /\ (i + 1) + n - 1 = i + n
    BY <1>2
  <2> HIDE DEF b
  <2> QED
    BY <1>2, <2>2, <2>3
<1>6. RemoveAt(q, i) = a \o b
  BY DEF RemoveAt
<1> HIDE DEF a, b
<1>7. /\ a \o b \in Seq(Endpoints) /\ Len(a \o b) = Len(a) + Len(b)
      /\ \A n \in 1..(Len(a) + Len(b)) : (a \o b)[n] =
            IF n <= Len(a) THEN a[n] ELSE b[n - Len(a)]
  BY <1>4, <1>5, ConcatProperties
<1>8. Len(a) + Len(b) = l - 1
  BY <1>2, <1>4, <1>5
<1>9. ASSUME NEW n \in 1..(l - 1)
      PROVE  (a \o b)[n] = IF n < i THEN q[n] ELSE q[n + 1]
  <2>1. CASE n < i
    BY <1>2, <1>4, <1>7, <1>8, <2>1
  <2>2. CASE ~(n < i)
    <3>1. /\ ~(n <= i - 1) /\ n - (i - 1) \in 1..(l - i) /\ i + (n - (i - 1)) = n + 1
      BY <1>2, <2>2
    <3>2. (a \o b)[n] = b[n - (i - 1)]
      BY <1>4, <1>7, <1>8, <3>1
    <3> QED
      BY <1>5, <2>2, <3>1, <3>2
  <2> QED
    BY <2>1, <2>2
<1> QED
  BY <1>1, <1>6, <1>7, <1>8, <1>9

\* A set of places has a first one.
LEMMA FirstPlace ==
    ASSUME NEW S \in SUBSET Nat, S # {}
    PROVE  Min(S) \in S /\ \A n \in S : Min(S) <= n
<1> DEFINE R == {ss \in Nat \X Nat : ss[1] < ss[2]}
<1>1. PICK x \in S : \A y \in S : ~(<<y, x>> \in R)
  <2>1. IsWellFoundedOn(R, Nat)
    BY NatLessThanWellFounded DEF OpToRel
  <2> HIDE DEF R
  <2> QED
    BY <2>1, WFMin
<1>2. \A y \in S : x <= y
  <2> SUFFICES ASSUME NEW y \in S
               PROVE  x <= y
    OBVIOUS
  <2>1. x \in Nat /\ y \in Nat
    OBVIOUS
  <2>2. ~(<<y, x>>[1] < <<y, x>>[2])
    BY <1>1, <2>1
  <2> QED
    BY <2>1, <2>2
<1> QED
  BY <1>2 DEF Min

\* The place of the first instance with the id of ep, 0 when there is none.
PlaceOf(q, ep) == SelectInSeq(q, LAMBDA e : SameId(ep, e))

\* What the scan of deregisterService finds.
LEMMA ScanFinds ==
    ASSUME NEW q \in Seq(Endpoints), NEW ep \in Endpoints
    PROVE  /\ PlaceOf(q, ep) # 0 <=> \E n \in 1..Len(q) : q[n].id = ep.id
           /\ PlaceOf(q, ep) # 0 =>
                /\ PlaceOf(q, ep) \in 1..Len(q) /\ q[PlaceOf(q, ep)].id = ep.id
                /\ \A n \in 1..Len(q) : q[n].id = ep.id => PlaceOf(q, ep) <= n
<1> DEFINE I == {n \in 1..Len(q) : q[n].id = ep.id}
<1>1. PlaceOf(q, ep) = IF I # {} THEN Min(I) ELSE 0
  BY DEF PlaceOf, SelectInSeq, SameId
<1>2. I \in SUBSET Nat
  OBVIOUS
<1>3. I # {} => Min(I) \in I /\ \A n \in I : Min(I) <= n
  BY <1>2, FirstPlace
<1>4. \A n \in I : n \in 1..Len(q) /\ n # 0 /\ q[n].id = ep.id
  OBVIOUS
<1>5. \A n \in 1..Len(q) : q[n].id = ep.id => n \in I
  OBVIOUS
<1> HIDE DEF I
<1> QED
  BY <1>1, <1>3, <1>4, <1>5

\* The instance the scan finds is not on the list before that place, so a
\* callback that erases it from a copy of the list erases the same place.
LEMMA EraseFirst ==
    ASSUME NEW q \in Seq(Endpoints), NEW ep \in Endpoints, PlaceOf(q, ep) # 0
    PROVE  RemoveFirst(q, q[PlaceOf(q, ep)]) = RemoveAt(q, PlaceOf(q, ep))
<1>1. PICK at : at = PlaceOf(q, ep)
  OBVIOUS
<1>2. /\ at \in 1..Len(q) /\ q[at].id = ep.id
      /\ \A n \in 1..Len(q) : q[n].id = ep.id => at <= n
  BY <1>1, ScanFinds
<1> DEFINE J == {n \in 1..Len(q) : q[n] = q[at]}
<1>3. RemoveFirst(q, q[at]) = RemoveAt(q, Min(J))
  <2>1. at \in J
    BY <1>2
  <2>2. \E n \in 1..Len(q) : q[n] = q[at]
    BY <1>2
  <2>3. RemoveFirst(q, q[at]) =
          IF \E n \in 1..Len(q) : q[n] = q[at]
          THEN RemoveAt(q, IF J # {} THEN Min(J) ELSE 0) ELSE q
    BY Zenon DEF RemoveFirst, SelectInSeq
  <2> HIDE DEF J
  <2> QED
    BY <2>1, <2>2, <2>3
<1>4. at \in J /\ J \in SUBSET Nat /\ \A n \in J : n \in 1..Len(q) /\ at <= n
  BY <1>2
<1> HIDE DEF J
<1>5. Min(J) \in J /\ \A n \in J : Min(J) <= n
  BY <1>4, FirstPlace
<1>6. Min(J) = at
  <2>1. PICK m \in J : m = Min(J)
    BY <1>5
  <2>2. m <= at /\ at <= m /\ m \in Nat /\ at \in Nat
    BY <1>4, <1>5, <2>1
  <2> QED
    BY <2>1, <2>2
<1> QED
  BY <1>1, <1>3, <1>6

-----------------------------------------------------------------------------
(* How often an instance is on a list.                                       *)

\* The places of an instance can be counted.
LEMMA InstancesFinite ==
    ASSUME NEW q \in Seq(Endpoints), NEW i
    PROVE  IsFiniteSet(Instances(q, i)) /\ Cardinality(Instances(q, i)) \in Nat
<1>1. IsFiniteSet(1..Len(q))
  BY FS_Interval
<1>2. Instances(q, i) \in SUBSET (1..Len(q))
  BY DEF Instances
<1> QED
  BY <1>1, <1>2, FS_Subset, FS_CardinalityType

\* Registering adds one instance.
LEMMA OneMore ==
    ASSUME NEW q \in Seq(Endpoints), NEW e \in Endpoints, NEW i
    PROVE  Cardinality(Instances(Append(q, e), i)) =
              Cardinality(Instances(q, i)) + (IF e.id = i THEN 1 ELSE 0)
<1>1. PICK l \in Nat : l = Len(q)
  OBVIOUS
<1> DEFINE p == Append(q, e)
<1>2. Len(p) = l + 1 /\ p[l + 1] = e /\ \A n \in 1..l : p[n] = q[n]
  BY <1>1, ListAppend
<1> HIDE DEF p
<1>3. \A n : n \in 1..(l + 1) <=> (n \in 1..l \/ n = l + 1)
  OBVIOUS
<1>4. l + 1 \notin 1..l
  OBVIOUS
<1>5. IsFiniteSet(Instances(q, i)) /\ Cardinality(Instances(q, i)) \in Nat
  BY InstancesFinite
<1>6. CASE e.id = i
  <2>1. Instances(p, i) = Instances(q, i) \cup {l + 1}
    BY <1>1, <1>2, <1>3, <1>4, <1>6 DEF Instances
  <2>2. l + 1 \notin Instances(q, i)
    BY <1>1, <1>4 DEF Instances
  <2>3. Cardinality(Instances(q, i) \cup {l + 1}) = Cardinality(Instances(q, i)) + 1
    BY <1>5, <2>2, FS_AddElement
  <2> QED
    BY <1>6, <2>1, <2>3 DEF p
<1>7. CASE e.id # i
  <2>1. Instances(p, i) = Instances(q, i)
    BY <1>1, <1>2, <1>3, <1>7 DEF Instances
  <2> QED
    BY <1>5, <1>7, <2>1 DEF p
<1> QED
  BY <1>6, <1>7

\* Erasing a place takes one instance away: the others move up.
LEMMA OneLess ==
    ASSUME NEW q \in Seq(Endpoints), NEW at \in 1..Len(q), NEW i
    PROVE  Cardinality(Instances(RemoveAt(q, at), i)) =
              Cardinality(Instances(q, i)) - (IF q[at].id = i THEN 1 ELSE 0)
<1>1. PICK l \in Nat : l = Len(q)
  OBVIOUS
<1>2. at \in 1..l
  BY <1>1
<1> DEFINE p == RemoveAt(q, at)
           S == Instances(p, i)
           T == Instances(q, i) \ {at}
           f == [n \in S |-> IF n < at THEN n ELSE n + 1]
<1>3. /\ p \in Seq(Endpoints) /\ Len(p) = l - 1
      /\ \A n \in 1..(l - 1) : p[n] = IF n < at THEN q[n] ELSE q[n + 1]
  BY <1>1, ListRemove
<1> HIDE DEF p
<1>4. \A n : n \in S <=> n \in 1..(l - 1) /\ (IF n < at THEN q[n] ELSE q[n + 1]).id = i
  BY <1>3 DEF Instances
<1>5. \A n : n \in T <=> n \in 1..l /\ n # at /\ q[n].id = i
  BY <1>1 DEF Instances
<1> HIDE DEF S, T
<1>6. ASSUME NEW n \in S
      PROVE  (IF n < at THEN n ELSE n + 1) \in T
  <2>1. CASE n < at
    BY <1>2, <1>4, <1>5, <2>1
  <2>2. CASE ~(n < at)
    BY <1>2, <1>4, <1>5, <2>2
  <2> QED
    BY <2>1, <2>2
<1>7. f \in [S -> T]
  BY <1>6
<1>8. ASSUME NEW m \in S, NEW n \in S, f[m] = f[n]
      PROVE  m = n
  <2>1. m \in Int /\ n \in Int /\ at \in Int
    BY <1>2, <1>4
  <2> QED
    BY <1>8, <2>1
<1>9. ASSUME NEW t \in T
      PROVE  \E n \in S : f[n] = t
  <2>1. t \in 1..l /\ t # at /\ q[t].id = i
    BY <1>5
  <2>2. CASE t < at
    <3>1. t \in S
      BY <1>2, <1>4, <2>1, <2>2
    <3> QED
      BY <2>2, <3>1
  <2>3. CASE t > at
    <3>1. t - 1 \in 1..(l - 1) /\ ~(t - 1 < at) /\ (t - 1) + 1 = t
      BY <1>2, <2>1, <2>3
    <3>2. t - 1 \in S
      BY <1>4, <2>1, <3>1
    <3> QED
      BY <3>1, <3>2
  <2> QED
    BY <1>2, <2>1, <2>2, <2>3
<1> HIDE DEF f
<1>10. ExistsBijection(S, T)
  <2>1. f \in Injection(S, T)
    BY <1>7, <1>8 DEF Injection, IsInjective
  <2>2. f \in Surjection(S, T)
    BY <1>7, <1>9 DEF Surjection
  <2> QED
    BY <2>1, <2>2 DEF ExistsBijection, Bijection
<1>11. IsFiniteSet(Instances(p, i)) /\ IsFiniteSet(Instances(q, i))
  BY <1>3, InstancesFinite
<1>12. Cardinality(T) = Cardinality(S)
  BY <1>10, <1>11, FS_Bijection DEF S
<1>13. Cardinality(T) = IF at \in Instances(q, i) THEN Cardinality(Instances(q, i)) - 1
                        ELSE Cardinality(Instances(q, i))
  BY <1>11, FS_RemoveElement DEF T
<1>14. at \in Instances(q, i) <=> q[at].id = i
  BY DEF Instances
<1>15. Cardinality(Instances(q, i)) \in Nat
  BY InstancesFinite
<1> QED
  BY <1>12, <1>13, <1>14, <1>15 DEF p, S

-----------------------------------------------------------------------------
(* The registry of a single thread, in the terms of this module.             *)

\* Erasing is the same thing there.
LEMMA SameErase ==
    ASSUME NEW q, NEW e
    PROVE  Local!RemoveFirst(q, e) = RemoveFirst(q, e)
  BY Zenon DEF Local!RemoveFirst, RemoveFirst, Local!SelectInSeq, SelectInSeq,
               Local!RemoveAt, RemoveAt, Local!Min, Min

\* So is the scan.
LEMMA SameScan ==
    ASSUME NEW ep
    PROVE  Local!FirstOf(ep) = services[ep.service][PlaceOf(services[ep.service], ep)]
  BY Zenon DEF Local!FirstOf, PlaceOf, Local!SelectInSeq, SelectInSeq, SameId, Local!Min, Min

\* What a callback makes of an event.
LEMMA AppliedIs ==
    ASSUME NEW q, NEW e
    PROVE  /\ Local!Applied(q, [type |-> "ADDED", endpoint |-> e]) = Append(q, e)
           /\ Local!Applied(q, [type |-> "REMOVED", endpoint |-> e]) = RemoveFirst(q, e)
  BY SameErase DEF Local!Applied

\* Erasing an endpoint from a list leaves a list.
LEMMA EraseType ==
    ASSUME NEW q \in Seq(Endpoints), NEW e
    PROVE  RemoveFirst(q, e) \in Seq(Endpoints)
<1> DEFINE J == {n \in 1..Len(q) : q[n] = e}
<1>1. RemoveFirst(q, e) = IF \E n \in 1..Len(q) : q[n] = e
                          THEN RemoveAt(q, IF J # {} THEN Min(J) ELSE 0) ELSE q
  BY Zenon DEF RemoveFirst, SelectInSeq
<1>2. (\E n \in 1..Len(q) : q[n] = e) <=> J # {}
  OBVIOUS
<1>3. J \in SUBSET Nat /\ \A n \in J : n \in 1..Len(q)
  OBVIOUS
<1> HIDE DEF J
<1>4. CASE J = {}
  BY <1>1, <1>2, <1>4
<1>5. CASE J # {}
  <2>1. Min(J) \in 1..Len(q)
    BY <1>3, <1>5, FirstPlace
  <2>2. RemoveFirst(q, e) = RemoveAt(q, Min(J))
    BY <1>1, <1>2, <1>5, Zenon
  <2> QED
    BY <2>1, <2>2, ListRemove
<1> QED
  BY <1>4, <1>5

\* What the operations of each name carry.
LEMMA OperationTypes ==
    ASSUME NEW o \in Operations
    PROVE  /\ o.name \in {"register", "deregister", "discover", "unwatch", "watch"}
           /\ o.name \in {"register", "deregister"} => o.ep \in Endpoints
           /\ o.name \in {"discover", "unwatch", "watch"} => o.s \in Services
           /\ o.name = "watch" => o.w \in Watchers
  BY DEF Operations

\* An endpoint has a service and an id.
LEMMA EndpointTypes ==
    ASSUME NEW e \in Endpoints
    PROVE  e.service \in Services /\ e.id \in Ids
  BY DEF Endpoints

-----------------------------------------------------------------------------
(* Types, and the lock.                                                      *)

Busy == {"work", "report"}

\* A step of c that does not touch the lock.
LEMMA HolderKept ==
    ASSUME TypeOK, NEW c \in Coros, NEW x, UNCHANGED holder,
           pc' = [pc EXCEPT ![c] = x], x \in Busy <=> pc[c] \in Busy
    PROVE  \A d \in Coros : pc'[d] \in {"work", "report"} <=> holder' = d
  BY DEF TypeOK, Busy

\* What a callback is left with is a list.
LEMMA NotifyType ==
    ASSUME TypeOK, NEW type \in {"ADDED", "REMOVED"}, NEW ep \in Endpoints, Notify(type, ep)
    PROVE  mirror' \in [Watchers -> Seq(Endpoints)]
<1>1. \A w \in Watchers : mirror[w] \in Seq(Endpoints)
  BY DEF TypeOK
<1>2. ASSUME NEW w \in Watchers
      PROVE  Local!Applied(mirror[w], [type |-> type, endpoint |-> ep]) \in Seq(Endpoints)
  <2>0. PICK q \in Seq(Endpoints) : q = mirror[w]
    BY <1>1
  <2>1. CASE type = "ADDED"
    <3>1. Append(q, ep) \in Seq(Endpoints)
      BY <2>0
    <3> QED
      BY <2>0, <2>1, <3>1, AppliedIs
  <2>2. CASE type = "REMOVED"
    <3>1. RemoveFirst(q, ep) \in Seq(Endpoints)
      BY <2>0, EraseType
    <3> QED
      BY <2>0, <2>2, <3>1, AppliedIs
  <2> QED
    BY <2>1, <2>2
<1> QED
  BY <1>1, <1>2 DEF Notify

\* The work under the lock.
LEMMA WorkType ==
    ASSUME TypeOK, NEW c \in Coros, pc[c] = "work", NEW res \in Results, Worked(c, res),
           services' \in [Services -> Seq(Endpoints)],
           watchers' \in [Services -> Seq(Watchers)],
           mirror' \in [Watchers -> Seq(Endpoints)],
           lastEndpoints' \in Seq(Endpoints),
           told' \in [Services -> [Ids -> Int]]
    PROVE  TypeOK'
<1>1. pc' = [pc EXCEPT ![c] = "report"] /\ outcome' = [outcome EXCEPT ![c] = res]
      /\ UNCHANGED <<holder, op, alone, left, lastError>>
  BY DEF Worked, callVars
<1>2. \A d \in Coros : pc'[d] \in {"work", "report"} <=> holder' = d
  BY <1>1, HolderKept DEF Busy
<1>3. pc' \in [Coros -> {"idle", "lock", "work", "report", "read"}]
  BY <1>1 DEF TypeOK
<1>4. outcome' \in [Coros -> Results]
  BY <1>1 DEF TypeOK
<1> QED
  BY <1>1, <1>2, <1>3, <1>4 DEF TypeOK

\* The count of what callers were told.
LEMMA TellType ==
    ASSUME TypeOK, NEW ep \in Endpoints, NEW k \in Int, Tell(ep, k)
    PROVE  /\ told' \in [Services -> [Ids -> Int]]
           /\ \A s \in Services, i \in Ids : told'[s][i] =
                 told[s][i] + (IF s = ep.service /\ i = ep.id THEN k ELSE 0)
<1>1. ep.service \in Services /\ ep.id \in Ids /\ told \in [Services -> [Ids -> Int]]
  BY EndpointTypes DEF TypeOK
<1>2. told' = [told EXCEPT ![ep.service] =
                  [told[ep.service] EXCEPT ![ep.id] = told[ep.service][ep.id] + k]]
  BY <1>1 DEF Tell
<1>3. \A s \in Services, i \in Ids : told[s][i] \in Int
  BY <1>1
<1> QED
  BY <1>1, <1>2, <1>3

\* The results operations report.
LEMMA ResultTypes ==
    /\ NoOutcome \in Results
    /\ [error |-> "NOT_FOUND", endpoints |-> <<>>] \in Results
    /\ [error |-> "LOCK_TIMEOUT", endpoints |-> <<>>] \in Results
    /\ \A q \in Seq(Endpoints) : [error |-> "OK", endpoints |-> q] \in Results
<1>1. <<>> \in Seq(Endpoints)
  OBVIOUS
<1> QED
  BY <1>1 DEF NoOutcome, Results

\* NoOp stands for no operation and is one.
LEMMA NoOpType == NoOp \in Operations
<1>1. (CHOOSE s \in Services : TRUE) \in Services
  BY AsyncRegistryAssumption
<1> QED
  BY <1>1 DEF NoOp, Operations

\* The operation c works on.
LEMMA WorkingOn ==
    ASSUME TypeOK, NEW c \in Coros, NEW name, Working(c, name)
    PROVE  pc[c] = "work" /\ op[c] \in Operations /\ op[c].name = name
  BY DEF Working, TypeOK

\* What deregisterServiceAsync does, with the place it found.
LEMMA Deregistering ==
    ASSUME NEW c, deregisterServiceAsync(c)
    PROVE  LET ep == op[c].ep
               q == services[ep.service]
           IN /\ PlaceOf(q, ep) # 0
              /\ services' = [services EXCEPT ![ep.service] = RemoveAt(@, PlaceOf(q, ep))]
              /\ Notify("REMOVED", q[PlaceOf(q, ep)]) /\ Tell(ep, -1)
              /\ Worked(c, NoOutcome) /\ UNCHANGED <<watchers, lastEndpoints>>
  BY Zenon DEF deregisterServiceAsync, PlaceOf

\* Every step keeps the types.
LEMMA TypeStep == TypeOK /\ [Next]_vars => TypeOK'
<1> SUFFICES ASSUME TypeOK, [Next]_vars
             PROVE  TypeOK'
  OBVIOUS
<1>1. ASSUME NEW c \in Coros, NEW o \in Operations, Begin(c, o)
      PROVE  TypeOK'
  <2>1. /\ pc[c] = "idle" /\ left[c] > 0 /\ pc' = [pc EXCEPT ![c] = "lock"]
        /\ op' = [op EXCEPT ![c] = o] /\ left' = [left EXCEPT ![c] = @ - 1]
        /\ UNCHANGED <<services, watchers, mirror, lastError, lastEndpoints, holder,
                       outcome, told>>
    BY <1>1 DEF Begin, registryVars, memberVars
  <2>2. alone' \in [Coros -> BOOLEAN]
    <3>1. \A d \in Coros : alone[d] \in BOOLEAN
      BY DEF TypeOK
    <3>2. \A d \in Coros : (IF d = c THEN \A e \in Coros \ {c} : pc[e] = "idle"
                            ELSE alone[d] /\ pc[d] = "idle") \in BOOLEAN
      BY <3>1, Zenon
    <3>3. alone' = [d \in Coros |-> IF d = c THEN \A e \in Coros \ {c} : pc[e] = "idle"
                                    ELSE alone[d] /\ pc[d] = "idle"]
      BY <1>1 DEF Begin
    <3> QED
      BY <3>2, <3>3, Zenon
  <2>3. \A d \in Coros : pc'[d] \in {"work", "report"} <=> holder' = d
    BY <2>1, HolderKept DEF Busy
  <2>4. left' \in [Coros -> 0..MaxOps]
    BY <2>1, AsyncRegistryAssumption DEF TypeOK
  <2>5. /\ pc' \in [Coros -> {"idle", "lock", "work", "report", "read"}]
        /\ op' \in [Coros -> Operations]
    BY <2>1 DEF TypeOK
  <2> QED
    BY <2>1, <2>2, <2>3, <2>4, <2>5 DEF TypeOK
<1>2. ASSUME NEW c \in Coros, Lock(c)
      PROVE  TypeOK'
  <2>1. /\ pc[c] = "lock" /\ holder = NoCoro /\ holder' = c
        /\ pc' = [pc EXCEPT ![c] = "work"]
        /\ UNCHANGED <<services, watchers, mirror, lastError, lastEndpoints, op, alone,
                       left, outcome, told>>
    BY <1>2 DEF Lock, registryVars, memberVars, callVars
  <2>2. \A d \in Coros : pc'[d] \in {"work", "report"} <=> holder' = d
    BY <2>1, AsyncRegistryAssumption DEF TypeOK
  <2>3. /\ pc' \in [Coros -> {"idle", "lock", "work", "report", "read"}]
        /\ holder' \in Coros \cup {NoCoro}
    BY <2>1 DEF TypeOK
  <2> QED
    BY <2>1, <2>2, <2>3 DEF TypeOK
<1>3. ASSUME NEW c \in Coros, LockFail(c)
      PROVE  TypeOK'
  <2>1. /\ pc[c] = "lock" /\ pc' = [pc EXCEPT ![c] = "read"]
        /\ outcome' = [outcome EXCEPT ![c] = [error |-> "LOCK_TIMEOUT", endpoints |-> <<>>]]
        /\ lastError' = "LOCK_TIMEOUT" /\ lastEndpoints' \in {<<>>, lastEndpoints}
        /\ UNCHANGED <<services, watchers, mirror, holder, op, alone, left, told>>
    BY <1>3 DEF LockFail, registryVars, callVars
  <2>2. \A d \in Coros : pc'[d] \in {"work", "report"} <=> holder' = d
    BY <2>1, HolderKept DEF Busy
  <2>3. PICK res \in Results : res = [error |-> "LOCK_TIMEOUT", endpoints |-> <<>>]
    BY ResultTypes
  <2>4. outcome' \in [Coros -> Results]
    BY <2>1, <2>3 DEF TypeOK
  <2>5. lastEndpoints' \in Seq(Endpoints)
    <3>1. <<>> \in Seq(Endpoints) /\ lastEndpoints \in Seq(Endpoints)
      BY DEF TypeOK
    <3> QED
      BY <2>1, <3>1
  <2>6. pc' \in [Coros -> {"idle", "lock", "work", "report", "read"}]
    BY <2>1 DEF TypeOK
  <2> QED
    BY <2>1, <2>2, <2>4, <2>5, <2>6 DEF TypeOK
<1>4. ASSUME NEW c \in Coros, registerServiceAsync(c)
      PROVE  TypeOK'
  <2>1. PICK ep : ep = op[c].ep
    OBVIOUS
  <2>2. pc[c] = "work" /\ ep \in Endpoints
    BY <1>4, <2>1, WorkingOn, OperationTypes DEF registerServiceAsync
  <2>3. /\ services' = [services EXCEPT ![ep.service] = Append(@, ep)]
        /\ Notify("ADDED", ep) /\ Tell(ep, 1) /\ Worked(c, NoOutcome)
        /\ UNCHANGED <<watchers, lastEndpoints>>
    BY <1>4, <2>1 DEF registerServiceAsync
  <2>4. services' \in [Services -> Seq(Endpoints)]
    BY <2>2, <2>3, EndpointTypes DEF TypeOK
  <2>5. mirror' \in [Watchers -> Seq(Endpoints)] /\ told' \in [Services -> [Ids -> Int]]
    BY <2>2, <2>3, NotifyType, TellType
  <2>6. watchers' \in [Services -> Seq(Watchers)] /\ lastEndpoints' \in Seq(Endpoints)
    BY <2>3 DEF TypeOK
  <2> QED
    BY <2>2, <2>3, <2>4, <2>5, <2>6, ResultTypes, WorkType
<1>5. ASSUME NEW c \in Coros, deregisterServiceAsync(c)
      PROVE  TypeOK'
  <2>1. PICK ep : ep = op[c].ep
    OBVIOUS
  <2>2. pc[c] = "work" /\ ep \in Endpoints
    BY <1>5, <2>1, WorkingOn, OperationTypes DEF deregisterServiceAsync
  <2>3. PICK q \in Seq(Endpoints) : q = services[ep.service]
    BY <2>2, EndpointTypes DEF TypeOK
  <2>4. PICK at : at = PlaceOf(q, ep)
    OBVIOUS
  <2>5. /\ at # 0 /\ services' = [services EXCEPT ![ep.service] = RemoveAt(@, at)]
        /\ Notify("REMOVED", q[at]) /\ Tell(ep, -1) /\ Worked(c, NoOutcome)
        /\ UNCHANGED <<watchers, lastEndpoints>>
    BY <1>5, <2>1, <2>3, <2>4, Deregistering, Zenon
  <2>6. at \in 1..Len(q)
    BY <2>2, <2>3, <2>4, <2>5, ScanFinds
  <2>7. RemoveAt(q, at) \in Seq(Endpoints) /\ q[at] \in Endpoints
    BY <2>3, <2>6, ListRemove
  <2>8. services' \in [Services -> Seq(Endpoints)]
    BY <2>2, <2>3, <2>5, <2>7, EndpointTypes DEF TypeOK
  <2>9. mirror' \in [Watchers -> Seq(Endpoints)] /\ told' \in [Services -> [Ids -> Int]]
    BY <2>2, <2>5, <2>7, NotifyType, TellType
  <2>10. watchers' \in [Services -> Seq(Watchers)] /\ lastEndpoints' \in Seq(Endpoints)
    BY <2>5 DEF TypeOK
  <2> QED
    BY <2>2, <2>5, <2>8, <2>9, <2>10, ResultTypes, WorkType
<1>6. ASSUME NEW c \in Coros, DeregisterMissing(c)
      PROVE  TypeOK'
  BY <1>6, ResultTypes, WorkType DEF DeregisterMissing, Working, TypeOK, registryVars
<1>7. ASSUME NEW c \in Coros, discoverServiceAsync(c)
      PROVE  TypeOK'
  <2>1. pc[c] = "work" /\ op[c].s \in Services
    BY <1>7, WorkingOn, OperationTypes DEF discoverServiceAsync
  <2>2. PICK q \in Seq(Endpoints) : q = services[op[c].s]
    BY <2>1 DEF TypeOK
  <2>3. /\ lastEndpoints' = q /\ Worked(c, [error |-> "OK", endpoints |-> q])
        /\ UNCHANGED <<services, watchers, mirror, told>>
    BY <1>7, <2>2 DEF discoverServiceAsync, registryVars
  <2>4. [error |-> "OK", endpoints |-> q] \in Results
    BY ResultTypes
  <2>5. /\ services' \in [Services -> Seq(Endpoints)] /\ watchers' \in [Services -> Seq(Watchers)]
        /\ mirror' \in [Watchers -> Seq(Endpoints)] /\ lastEndpoints' \in Seq(Endpoints)
        /\ told' \in [Services -> [Ids -> Int]]
    BY <2>2, <2>3 DEF TypeOK
  <2> QED
    BY <2>1, <2>3, <2>4, <2>5, WorkType
<1>8. ASSUME NEW c \in Coros, watchServiceAsync(c)
      PROVE  TypeOK'
  <2>1. pc[c] = "work" /\ op[c].s \in Services /\ op[c].w \in Watchers
    BY <1>8, WorkingOn, OperationTypes DEF watchServiceAsync
  <2>2. /\ watchers' = [watchers EXCEPT ![op[c].s] = Append(@, op[c].w)]
        /\ mirror' = [mirror EXCEPT ![op[c].w] = services[op[c].s]]
        /\ Worked(c, NoOutcome) /\ UNCHANGED <<services, lastEndpoints, told>>
    BY <1>8 DEF watchServiceAsync
  <2>3. watchers' \in [Services -> Seq(Watchers)]
    BY <2>1, <2>2 DEF TypeOK
  <2>4. mirror' \in [Watchers -> Seq(Endpoints)]
    BY <2>1, <2>2 DEF TypeOK
  <2>5. /\ services' \in [Services -> Seq(Endpoints)] /\ lastEndpoints' \in Seq(Endpoints)
        /\ told' \in [Services -> [Ids -> Int]]
    BY <2>2 DEF TypeOK
  <2> QED
    BY <2>1, <2>2, <2>3, <2>4, <2>5, ResultTypes, WorkType
<1>9. ASSUME NEW c \in Coros, unwatchServiceAsync(c)
      PROVE  TypeOK'
  <2>1. pc[c] = "work" /\ op[c].s \in Services
    BY <1>9, WorkingOn, OperationTypes DEF unwatchServiceAsync
  <2>2. /\ watchers' = [watchers EXCEPT ![op[c].s] = <<>>]
        /\ mirror' = [w \in Watchers |->
                        IF w \in Local!Watching(op[c].s) THEN <<>> ELSE mirror[w]]
        /\ Worked(c, NoOutcome) /\ UNCHANGED <<services, lastEndpoints, told>>
    BY <1>9 DEF unwatchServiceAsync
  <2>3. watchers' \in [Services -> Seq(Watchers)]
    BY <2>1, <2>2 DEF TypeOK
  <2>4. mirror' \in [Watchers -> Seq(Endpoints)]
    BY <2>2 DEF TypeOK
  <2>5. /\ services' \in [Services -> Seq(Endpoints)] /\ lastEndpoints' \in Seq(Endpoints)
        /\ told' \in [Services -> [Ids -> Int]]
    BY <2>2 DEF TypeOK
  <2> QED
    BY <2>1, <2>2, <2>3, <2>4, <2>5, ResultTypes, WorkType
<1>10. ASSUME NEW c \in Coros, Report(c)
       PROVE  TypeOK'
  <2>1. /\ pc[c] = "report" /\ lastError' = outcome[c].error /\ holder' = NoCoro
        /\ pc' = [pc EXCEPT ![c] = "read"]
        /\ UNCHANGED <<services, watchers, mirror, lastEndpoints, op, alone, left,
                       outcome, told>>
    BY <1>10 DEF Report, registryVars, callVars
  <2>2. \A d \in Coros : pc'[d] \in {"work", "report"} <=> holder' = d
    BY <2>1, AsyncRegistryAssumption DEF TypeOK
  <2>3. /\ pc' \in [Coros -> {"idle", "lock", "work", "report", "read"}]
        /\ holder' \in Coros \cup {NoCoro}
    BY <2>1 DEF TypeOK
  <2>4. lastError' \in {"OK", "NOT_FOUND", "LOCK_TIMEOUT"}
    BY <2>1 DEF TypeOK, Results
  <2> QED
    BY <2>1, <2>2, <2>3, <2>4 DEF TypeOK
<1>11. ASSUME NEW c \in Coros, ReadLast(c)
       PROVE  TypeOK'
  <2>1. /\ pc[c] = "read" /\ pc' = [pc EXCEPT ![c] = "idle"]
        /\ op' = [op EXCEPT ![c] = NoOp] /\ outcome' = [outcome EXCEPT ![c] = NoOutcome]
        /\ UNCHANGED <<services, watchers, mirror, lastError, lastEndpoints, holder,
                       alone, left, told>>
    BY <1>11 DEF ReadLast, registryVars, memberVars
  <2>2. \A d \in Coros : pc'[d] \in {"work", "report"} <=> holder' = d
    BY <2>1, HolderKept DEF Busy
  <2>3. /\ pc' \in [Coros -> {"idle", "lock", "work", "report", "read"}]
        /\ op' \in [Coros -> Operations] /\ outcome' \in [Coros -> Results]
    BY <2>1, NoOpType, ResultTypes DEF TypeOK
  <2> QED
    BY <2>1, <2>2, <2>3 DEF TypeOK
<1>12. CASE UNCHANGED vars
  BY <1>12 DEF TypeOK, vars, registryVars, memberVars, callVars
<1> QED
  BY <1>1, <1>2, <1>3, <1>4, <1>5, <1>6, <1>7, <1>8, <1>9, <1>10, <1>11, <1>12
     DEF Next, Step, Work

\* Nothing is registered, watched or under way at first.
LEMMA TypeInit == Init => TypeOK
<1> SUFFICES ASSUME Init
             PROVE  TypeOK
  OBVIOUS
<1>1. <<>> \in Seq(Endpoints) /\ <<>> \in Seq(Watchers)
  OBVIOUS
<1>2. /\ services \in [Services -> Seq(Endpoints)] /\ watchers \in [Services -> Seq(Watchers)]
      /\ mirror \in [Watchers -> Seq(Endpoints)] /\ lastEndpoints \in Seq(Endpoints)
  BY <1>1 DEF Init
<1>3. op \in [Coros -> Operations] /\ outcome \in [Coros -> Results]
  BY NoOpType, ResultTypes DEF Init
<1>4. left \in [Coros -> 0..MaxOps] /\ told \in [Services -> [Ids -> Int]]
  BY AsyncRegistryAssumption DEF Init
<1>5. alone \in [Coros -> BOOLEAN]
  BY DEF Init
<1>6. \A c \in Coros : pc[c] \in {"work", "report"} <=> holder = c
  BY AsyncRegistryAssumption DEF Init
<1> QED
  BY <1>2, <1>3, <1>4, <1>5, <1>6 DEF Init, TypeOK

\* Every variable keeps its type, and whoever works on the registry holds the
\* mutex: two operations never work at once.
THEOREM RegistryTypeCorrect == Spec => []TypeOK
  BY TypeInit, TypeStep, PTL DEF Spec

-----------------------------------------------------------------------------
(* Watchers.                                                                 *)

\* The callbacks on a list of them.
On(list) == {list[i] : i \in 1..Len(list)}

\* Adding a callback to a list of them.
LEMMA OnAppend ==
    ASSUME NEW q \in Seq(Watchers), NEW w \in Watchers
    PROVE  On(Append(q, w)) = On(q) \cup {w}
<1>1. PICK l \in Nat : l = Len(q)
  OBVIOUS
<1> DEFINE p == Append(q, w)
<1>2. Len(p) = l + 1 /\ p[l + 1] = w /\ \A i \in 1..l : p[i] = q[i]
  BY <1>1
<1> HIDE DEF p
<1>3. \A i : i \in 1..(l + 1) <=> i \in 1..l \/ i = l + 1
  OBVIOUS
<1>4. ASSUME NEW x \in On(p)
      PROVE  x \in On(q) \cup {w}
  <2>1. PICK i \in 1..(l + 1) : x = p[i]
    BY <1>2, <1>4 DEF On
  <2> QED
    BY <1>1, <1>2, <1>3, <2>1 DEF On
<1>5. ASSUME NEW x \in On(q)
      PROVE  x \in On(p)
  <2>1. PICK i \in 1..l : x = q[i]
    BY <1>1, <1>5 DEF On
  <2>2. i \in 1..(l + 1) /\ x = p[i]
    BY <1>2, <1>3, <2>1
  <2> QED
    BY <1>2, <2>2 DEF On
<1>6. w \in On(p)
  <2>1. l + 1 \in 1..(l + 1)
    OBVIOUS
  <2> QED
    BY <1>2, <2>1 DEF On
<1> QED
  BY <1>4, <1>5, <1>6 DEF p

\* The watchers of a service, before and after a step.
LEMMA WatchingIs ==
    ASSUME NEW s
    PROVE  /\ Local!Watching(s) = On(watchers[s])
           /\ Local!Watching(s)' = On(watchers'[s])
  BY DEF Local!Watching, On

\* A callback follows one service, and one that is about to be added follows
\* none and is added once.
WatchInv ==
    /\ \A s, t \in Services : \A w \in On(watchers[s]) : w \in On(watchers[t]) => s = t
    /\ \A c \in Coros : pc[c] \in {"lock", "work"} /\ op[c].name = "watch" =>
          \A s \in Services : op[c].w \notin On(watchers[s])
    /\ \A c, d \in Coros :
          /\ pc[c] # "idle" /\ op[c].name = "watch"
          /\ pc[d] # "idle" /\ op[d].name = "watch" /\ op[c].w = op[d].w
          => c = d

\* Callbacks that follow a service have its list.
Mirrored == \A s \in Services : \A w \in On(watchers[s]) : mirror[w] = services[s]

\* The list of a service has instances of that service.
AllOf(list, s) == \A n \in 1..Len(list) : list[n].service = s
ListsApart == \A s \in Services : AllOf(services[s], s)

\* The invariant of watching.
WatchersInv == WatchInv /\ Mirrored /\ ListsApart

\* A list keeps to its service when an instance of it is added, and when one
\* is taken away.
LEMMA AllOfKept ==
    ASSUME NEW q \in Seq(Endpoints), NEW s, AllOf(q, s)
    PROVE  /\ \A e \in Endpoints : e.service = s => AllOf(Append(q, e), s)
           /\ \A i \in 1..Len(q) : AllOf(RemoveAt(q, i), s)
<1>1. PICK l \in Nat : l = Len(q)
  OBVIOUS
<1>2. ASSUME NEW e \in Endpoints, e.service = s
      PROVE  AllOf(Append(q, e), s)
  <2> DEFINE p == Append(q, e)
  <2>1. Len(p) = l + 1 /\ p[l + 1] = e /\ \A n \in 1..l : p[n] = q[n]
    BY <1>1, ListAppend
  <2> HIDE DEF p
  <2>2. \A n \in 1..(l + 1) : n \in 1..l \/ n = l + 1
    OBVIOUS
  <2>3. \A n \in 1..(l + 1) : p[n].service = s
    BY <1>1, <1>2, <2>1, <2>2 DEF AllOf
  <2> QED
    BY <2>1, <2>3 DEF AllOf, p
<1>3. ASSUME NEW i \in 1..Len(q)
      PROVE  AllOf(RemoveAt(q, i), s)
  <2> DEFINE p == RemoveAt(q, i)
  <2>1. Len(p) = l - 1 /\ \A n \in 1..(l - 1) : p[n] = IF n < i THEN q[n] ELSE q[n + 1]
    BY <1>1, ListRemove
  <2> HIDE DEF p
  <2>2. \A n \in 1..(l - 1) : n \in 1..l /\ n + 1 \in 1..l
    OBVIOUS
  <2>3. \A n \in 1..(l - 1) : p[n].service = s
    BY <1>1, <2>1, <2>2 DEF AllOf
  <2> QED
    BY <2>1, <2>3 DEF AllOf, p
<1> QED
  BY <1>2, <1>3

\* Every step keeps the lists apart.
LEMMA ApartStep == TypeOK /\ ListsApart /\ [Next]_vars => ListsApart'
<1> SUFFICES ASSUME TypeOK, ListsApart, [Next]_vars
             PROVE  ListsApart'
  OBVIOUS
<1>1. CASE UNCHANGED services
  BY <1>1 DEF ListsApart
<1>2. ASSUME NEW c \in Coros, registerServiceAsync(c)
      PROVE  ListsApart'
  <2>1. PICK ep : ep = op[c].ep
    OBVIOUS
  <2>2. ep \in Endpoints /\ ep.service \in Services
    BY <1>2, <2>1, WorkingOn, OperationTypes, EndpointTypes DEF registerServiceAsync
  <2>3. services' = [services EXCEPT ![ep.service] = Append(services[ep.service], ep)]
    BY <1>2, <2>1, <2>2 DEF registerServiceAsync, TypeOK
  <2>4. AllOf(Append(services[ep.service], ep), ep.service)
    BY <2>2, AllOfKept DEF ListsApart, TypeOK
  <2> QED
    BY <2>2, <2>3, <2>4 DEF ListsApart, TypeOK
<1>3. ASSUME NEW c \in Coros, deregisterServiceAsync(c)
      PROVE  ListsApart'
  <2>1. PICK ep : ep = op[c].ep
    OBVIOUS
  <2>2. ep \in Endpoints /\ ep.service \in Services
    BY <1>3, <2>1, WorkingOn, OperationTypes, EndpointTypes DEF deregisterServiceAsync
  <2>3. PICK q \in Seq(Endpoints) : q = services[ep.service]
    BY <2>2 DEF TypeOK
  <2>4. PICK at : at = PlaceOf(q, ep)
    OBVIOUS
  <2>5. at # 0 /\ services' = [services EXCEPT ![ep.service] = RemoveAt(@, at)]
    BY <1>3, <2>1, <2>3, <2>4, Deregistering, Zenon
  <2>6. at \in 1..Len(q)
    BY <2>2, <2>3, <2>4, <2>5, ScanFinds
  <2>7. services' = [services EXCEPT ![ep.service] = RemoveAt(q, at)]
    BY <2>2, <2>3, <2>5 DEF TypeOK
  <2>8. AllOf(RemoveAt(q, at), ep.service)
    BY <2>2, <2>3, <2>6, AllOfKept DEF ListsApart
  <2> QED
    BY <2>2, <2>7, <2>8 DEF ListsApart, TypeOK
<1> QED
  BY <1>1, <1>2, <1>3
     DEF Next, Step, Work, Begin, Lock, LockFail, Report, ReadLast, DeregisterMissing,
         discoverServiceAsync, watchServiceAsync, unwatchServiceAsync, registryVars, vars

\* A step of c that begins nothing and leaves the callbacks alone.
LEMMA WatchKept ==
    ASSUME WatchInv, TypeOK, NEW c \in Coros, NEW x, UNCHANGED <<watchers, op>>,
           pc[c] # "idle", pc' = [pc EXCEPT ![c] = x],
           x \in {"lock", "work"} => pc[c] \in {"lock", "work"}
    PROVE  WatchInv'
<1>1. \A d \in Coros : /\ pc'[d] \in {"lock", "work"} => pc[d] \in {"lock", "work"}
                       /\ pc'[d] # "idle" => pc[d] # "idle"
  BY DEF TypeOK
<1> QED
  BY <1>1 DEF WatchInv

\* A step that leaves lists, callbacks and copies alone.
LEMMA MirroredKept ==
    ASSUME Mirrored, UNCHANGED <<services, watchers, mirror>>
    PROVE  Mirrored'
  BY DEF Mirrored

\* A list changes, and the copies of its watchers with it.
LEMMA MirroredNotify ==
    ASSUME TypeOK, WatchInv, Mirrored, NEW ep \in Endpoints, NEW e \in Endpoints,
           ep.service = e.service, NEW type, NEW list,
           services' = [services EXCEPT ![ep.service] = list],
           Local!Applied(services[ep.service], [type |-> type, endpoint |-> e]) = list,
           Notify(type, e), UNCHANGED watchers
    PROVE  Mirrored'
<1> SUFFICES ASSUME NEW s \in Services, NEW w \in On(watchers[s])
             PROVE  mirror'[w] = services'[s]
  BY DEF Mirrored
<1>1. ep.service \in Services /\ services \in [Services -> Seq(Endpoints)]
  BY EndpointTypes DEF TypeOK
<1>2. w \in Watchers /\ mirror[w] = services[s]
  BY DEF TypeOK, On, Mirrored
<1>3. mirror'[w] = IF w \in On(watchers[ep.service])
                   THEN Local!Applied(mirror[w], [type |-> type, endpoint |-> e])
                   ELSE mirror[w]
  BY <1>2, WatchingIs DEF Notify
<1>4. CASE s = ep.service
  BY <1>1, <1>2, <1>3, <1>4
<1>5. CASE s # ep.service
  <2>1. w \notin On(watchers[ep.service])
    BY <1>1, <1>5 DEF WatchInv
  <2> QED
    BY <1>1, <1>2, <1>3, <1>5, <2>1
<1> QED
  BY <1>4, <1>5

\* Every step keeps callbacks and copies in order.
LEMMA WatchersStep == TypeOK /\ WatchersInv /\ [Next]_vars => WatchersInv'
<1> SUFFICES ASSUME TypeOK, WatchInv, Mirrored, ListsApart, [Next]_vars
             PROVE  WatchInv' /\ Mirrored'
  BY ApartStep DEF WatchersInv
<1>1. ASSUME NEW c \in Coros, NEW o \in Operations, Begin(c, o)
      PROVE  WatchInv' /\ Mirrored'
  <2>1. /\ pc[c] = "idle" /\ pc' = [pc EXCEPT ![c] = "lock"] /\ op' = [op EXCEPT ![c] = o]
        /\ UNCHANGED <<services, watchers, mirror>>
        /\ o.name = "watch" =>
              /\ Local!Unused(o.w)
              /\ \A d \in Coros : pc[d] # "idle" /\ op[d].name = "watch" => op[d].w # o.w
    BY <1>1 DEF Begin, registryVars
  <2>2. o.name = "watch" => \A s \in Services : o.w \notin On(watchers[s])
    BY <2>1, WatchingIs DEF Local!Unused
  <2>3. /\ pc'[c] = "lock" /\ op'[c] = o
        /\ \A d \in Coros : d # c => pc'[d] = pc[d] /\ op'[d] = op[d]
    BY <2>1 DEF TypeOK
  <2>4. \A d \in Coros : pc'[d] \in {"lock", "work"} /\ op'[d].name = "watch" =>
           \A s \in Services : op'[d].w \notin On(watchers'[s])
    BY <2>1, <2>2, <2>3 DEF WatchInv
  <2>5. ASSUME NEW d \in Coros, NEW e \in Coros, pc'[d] # "idle", op'[d].name = "watch",
               pc'[e] # "idle", op'[e].name = "watch", op'[d].w = op'[e].w
        PROVE  d = e
    <3>1. CASE d = c \/ e = c
      BY <2>1, <2>3, <2>5, <3>1
    <3>2. CASE d # c /\ e # c
      BY <2>3, <2>5, <3>2 DEF WatchInv
    <3> QED
      BY <3>1, <3>2
  <2>6. WatchInv'
    BY <2>1, <2>4, <2>5 DEF WatchInv
  <2> QED
    BY <2>1, <2>6, MirroredKept
<1>2. ASSUME NEW c \in Coros, Lock(c) \/ LockFail(c) \/ Report(c)
      PROVE  WatchInv' /\ Mirrored'
  <2>1. UNCHANGED <<services, watchers, mirror, op>>
    BY <1>2 DEF Lock, LockFail, Report, registryVars, callVars
  <2>2. \/ pc[c] = "lock" /\ pc' = [pc EXCEPT ![c] = "work"]
        \/ pc[c] = "lock" /\ pc' = [pc EXCEPT ![c] = "read"]
        \/ pc[c] = "report" /\ pc' = [pc EXCEPT ![c] = "read"]
    BY <1>2 DEF Lock, LockFail, Report
  <2> QED
    BY <2>1, <2>2, WatchKept, MirroredKept
<1>3. ASSUME NEW c \in Coros, ReadLast(c)
      PROVE  WatchInv' /\ Mirrored'
  <2>1. /\ UNCHANGED <<services, watchers, mirror>> /\ pc' = [pc EXCEPT ![c] = "idle"]
        /\ op' = [op EXCEPT ![c] = NoOp]
    BY <1>3 DEF ReadLast, registryVars
  <2>2. /\ pc'[c] = "idle"
        /\ \A d \in Coros : d # c => pc'[d] = pc[d] /\ op'[d] = op[d]
    BY <2>1 DEF TypeOK
  <2>3. WatchInv'
    BY <2>1, <2>2 DEF WatchInv
  <2> QED
    BY <2>1, <2>3, MirroredKept
<1>4. ASSUME NEW c \in Coros, DeregisterMissing(c) \/ discoverServiceAsync(c)
      PROVE  WatchInv' /\ Mirrored'
  <2>1. /\ UNCHANGED <<services, watchers, mirror, op>> /\ pc[c] = "work"
        /\ pc' = [pc EXCEPT ![c] = "report"]
    BY <1>4 DEF DeregisterMissing, discoverServiceAsync, Working, Worked, registryVars, callVars
  <2> QED
    BY <2>1, WatchKept, MirroredKept
<1>5. ASSUME NEW c \in Coros, registerServiceAsync(c)
      PROVE  WatchInv' /\ Mirrored'
  <2>1. PICK ep : ep = op[c].ep
    OBVIOUS
  <2>2. pc[c] = "work" /\ ep \in Endpoints
    BY <1>5, <2>1, WorkingOn, OperationTypes DEF registerServiceAsync
  <2>3. /\ services' = [services EXCEPT ![ep.service] = Append(@, ep)]
        /\ Notify("ADDED", ep) /\ Worked(c, NoOutcome) /\ UNCHANGED watchers
    BY <1>5, <2>1 DEF registerServiceAsync
  <2>4. pc' = [pc EXCEPT ![c] = "report"] /\ UNCHANGED op
    BY <2>3 DEF Worked, callVars
  <2>5. services' = [services EXCEPT ![ep.service] = Append(services[ep.service], ep)]
    BY <2>2, <2>3, EndpointTypes DEF TypeOK
  <2>6. Local!Applied(services[ep.service], [type |-> "ADDED", endpoint |-> ep]) =
          Append(services[ep.service], ep)
    BY AppliedIs
  <2>7. Mirrored'
    BY <2>2, <2>3, <2>5, <2>6, MirroredNotify
  <2> QED
    BY <2>2, <2>3, <2>4, <2>7, WatchKept
<1>6. ASSUME NEW c \in Coros, deregisterServiceAsync(c)
      PROVE  WatchInv' /\ Mirrored'
  <2>1. PICK ep : ep = op[c].ep
    OBVIOUS
  <2>2. pc[c] = "work" /\ ep \in Endpoints
    BY <1>6, <2>1, WorkingOn, OperationTypes DEF deregisterServiceAsync
  <2>3. PICK q \in Seq(Endpoints) : q = services[ep.service]
    BY <2>2, EndpointTypes DEF TypeOK
  <2>4. PICK at : at = PlaceOf(q, ep)
    OBVIOUS
  <2>5. /\ at # 0 /\ services' = [services EXCEPT ![ep.service] = RemoveAt(@, at)]
        /\ Notify("REMOVED", q[at]) /\ Worked(c, NoOutcome) /\ UNCHANGED watchers
    BY <1>6, <2>1, <2>3, <2>4, Deregistering, Zenon
  <2>6. pc' = [pc EXCEPT ![c] = "report"] /\ UNCHANGED op
    BY <2>5 DEF Worked, callVars
  <2>7. at \in 1..Len(q) /\ q[at] \in Endpoints
    BY <2>2, <2>3, <2>4, <2>5, ScanFinds
  <2>8. services' = [services EXCEPT ![ep.service] = RemoveAt(q, at)]
    BY <2>2, <2>3, <2>5, EndpointTypes DEF TypeOK
  <2>9. Local!Applied(services[ep.service], [type |-> "REMOVED", endpoint |-> q[at]]) =
          RemoveAt(q, at)
    BY <2>2, <2>3, <2>4, <2>5, AppliedIs, EraseFirst
  <2>10. ep.service = q[at].service
    BY <2>2, <2>3, <2>7, EndpointTypes DEF ListsApart, AllOf
  <2>11. Mirrored'
    BY <2>2, <2>5, <2>7, <2>8, <2>9, <2>10, MirroredNotify
  <2> QED
    BY <2>2, <2>5, <2>6, <2>11, WatchKept
<1>7. ASSUME NEW c \in Coros, watchServiceAsync(c)
      PROVE  WatchInv' /\ Mirrored'
  <2>1. PICK s : s = op[c].s
    OBVIOUS
  <2>2. PICK w : w = op[c].w
    OBVIOUS
  <2>3. pc[c] = "work" /\ op[c].name = "watch" /\ s \in Services /\ w \in Watchers
    BY <1>7, <2>1, <2>2, WorkingOn, OperationTypes DEF watchServiceAsync
  <2>4. /\ watchers' = [watchers EXCEPT ![s] = Append(watchers[s], w)]
        /\ mirror' = [mirror EXCEPT ![w] = services[s]]
        /\ pc' = [pc EXCEPT ![c] = "report"] /\ UNCHANGED <<services, op>>
    BY <1>7, <2>1, <2>2, <2>3 DEF watchServiceAsync, Worked, callVars, TypeOK
  <2>5. \A t \in Services : w \notin On(watchers[t])
    BY <2>2, <2>3 DEF WatchInv
  <2>6. /\ On(watchers'[s]) = On(watchers[s]) \cup {w}
        /\ \A t \in Services : t # s => On(watchers'[t]) = On(watchers[t])
    BY <2>3, <2>4, OnAppend DEF TypeOK
  <2>7. /\ pc'[c] = "report" /\ \A d \in Coros : d # c => pc'[d] = pc[d]
        /\ \A d \in Coros : pc'[d] # "idle" => pc[d] # "idle"
    BY <2>3, <2>4 DEF TypeOK
  <2>8. \A t, u \in Services : \A v \in On(watchers'[t]) : v \in On(watchers'[u]) => t = u
    <3> SUFFICES ASSUME NEW t \in Services, NEW u \in Services, NEW v \in On(watchers'[t]),
                        v \in On(watchers'[u])
                 PROVE  t = u
      OBVIOUS
    <3>1. CASE v = w
      BY <2>5, <2>6, <3>1
    <3>2. CASE v # w
      <4>1. v \in On(watchers[t]) /\ v \in On(watchers[u])
        BY <2>6, <3>2
      <4> QED
        BY <4>1 DEF WatchInv
    <3> QED
      BY <3>1, <3>2
  <2>9. \A d \in Coros : pc'[d] \in {"lock", "work"} /\ op'[d].name = "watch" =>
           \A t \in Services : op'[d].w \notin On(watchers'[t])
    <3> SUFFICES ASSUME NEW d \in Coros, pc'[d] \in {"lock", "work"}, op[d].name = "watch",
                        NEW t \in Services
                 PROVE  op[d].w \notin On(watchers'[t])
      BY <2>4
    <3>1. d # c /\ pc[d] \in {"lock", "work"}
      BY <2>7
    <3>2. op[d].w # w
      BY <2>2, <2>3, <3>1 DEF WatchInv
    <3>3. op[d].w \notin On(watchers[t])
      BY <3>1 DEF WatchInv
    <3> QED
      BY <2>6, <3>2, <3>3
  <2>10. WatchInv'
    BY <2>4, <2>7, <2>8, <2>9 DEF WatchInv
  <2>11. Mirrored'
    <3> SUFFICES ASSUME NEW t \in Services, NEW v \in On(watchers'[t])
                 PROVE  mirror'[v] = services[t]
      BY <2>4 DEF Mirrored
    <3>1. CASE v = w
      <4>1. t = s
        BY <2>5, <2>6, <3>1
      <4> QED
        BY <2>3, <2>4, <3>1, <4>1 DEF TypeOK
    <3>2. CASE v # w
      <4>1. v \in On(watchers[t])
        BY <2>6, <3>2
      <4>2. v \in Watchers /\ mirror[v] = services[t]
        BY <4>1 DEF Mirrored, On, TypeOK
      <4> QED
        BY <2>4, <3>2, <4>2 DEF TypeOK
    <3> QED
      BY <3>1, <3>2
  <2> QED
    BY <2>10, <2>11
<1>8. ASSUME NEW c \in Coros, unwatchServiceAsync(c)
      PROVE  WatchInv' /\ Mirrored'
  <2>1. PICK s : s = op[c].s
    OBVIOUS
  <2>2. pc[c] = "work" /\ s \in Services
    BY <1>8, <2>1, WorkingOn, OperationTypes DEF unwatchServiceAsync
  <2>3. /\ watchers' = [watchers EXCEPT ![s] = <<>>]
        /\ mirror' = [w \in Watchers |-> IF w \in On(watchers[s]) THEN <<>> ELSE mirror[w]]
        /\ pc' = [pc EXCEPT ![c] = "report"] /\ UNCHANGED <<services, op>>
    BY <1>8, <2>1, WatchingIs DEF unwatchServiceAsync, Worked, callVars
  <2>4. /\ On(watchers'[s]) = {}
        /\ \A t \in Services : t # s => On(watchers'[t]) = On(watchers[t])
    BY <2>2, <2>3 DEF TypeOK, On
  <2>5. \A d \in Coros : /\ pc'[d] \in {"lock", "work"} => pc[d] \in {"lock", "work"}
                         /\ pc'[d] # "idle" => pc[d] # "idle"
    BY <2>2, <2>3 DEF TypeOK
  <2>6. \A t \in Services : \A v \in On(watchers'[t]) : t # s /\ v \in On(watchers[t])
    BY <2>4
  <2>7. WatchInv'
    <3>1. \A t, u \in Services : \A v \in On(watchers'[t]) : v \in On(watchers'[u]) => t = u
      BY <2>6 DEF WatchInv
    <3>2. \A d \in Coros : pc'[d] \in {"lock", "work"} /\ op[d].name = "watch" =>
             \A t \in Services : op[d].w \notin On(watchers'[t])
      <4> SUFFICES ASSUME NEW d \in Coros, pc'[d] \in {"lock", "work"},
                          op[d].name = "watch", NEW t \in Services
                   PROVE  op[d].w \notin On(watchers'[t])
        OBVIOUS
      <4>1. op[d].w \notin On(watchers[t])
        BY <2>5 DEF WatchInv
      <4> QED
        BY <2>6, <4>1
    <3>3. ASSUME NEW d \in Coros, NEW e \in Coros, pc'[d] # "idle", op[d].name = "watch",
                 pc'[e] # "idle", op[e].name = "watch", op[d].w = op[e].w
          PROVE  d = e
      <4>1. pc[d] # "idle" /\ pc[e] # "idle"
        BY <2>5, <3>3
      <4> QED
        BY <3>3, <4>1 DEF WatchInv
    <3> QED
      BY <2>3, <3>1, <3>2, <3>3 DEF WatchInv
  <2>8. Mirrored'
    <3> SUFFICES ASSUME NEW t \in Services, NEW v \in On(watchers'[t])
                 PROVE  mirror'[v] = services[t]
      BY <2>3 DEF Mirrored
    <3>1. t # s /\ v \in On(watchers[t])
      BY <2>6
    <3>2. v \notin On(watchers[s])
      BY <2>2, <3>1 DEF WatchInv
    <3>3. mirror[v] = services[t]
      BY <3>1 DEF Mirrored
    <3>4. v \in Watchers
      BY <3>1 DEF On, TypeOK
    <3> QED
      BY <2>3, <3>2, <3>3, <3>4
  <2> QED
    BY <2>7, <2>8
<1>9. CASE UNCHANGED vars
  <2>1. UNCHANGED <<services, watchers, mirror, op, pc>>
    BY <1>9 DEF vars, registryVars, callVars
  <2> QED
    BY <2>1, MirroredKept DEF WatchInv
<1> QED
  BY <1>1, <1>2, <1>3, <1>4, <1>5, <1>6, <1>7, <1>8, <1>9 DEF Next, Step, Work

\* At first nobody watches and every list is empty.
LEMMA WatchersInit == Init => WatchersInv
<1> SUFFICES ASSUME Init
             PROVE  WatchersInv
  OBVIOUS
<1>1. \A s \in Services : On(watchers[s]) = {}
  BY DEF Init, On
<1>2. \A s \in Services : AllOf(services[s], s)
  BY DEF Init, AllOf
<1>3. \A c \in Coros : pc[c] = "idle"
  BY DEF Init
<1> QED
  BY <1>1, <1>2, <1>3 DEF WatchersInv, WatchInv, Mirrored, ListsApart

\* The registry's invariant of watching.
LEMMA Watching == Spec => []WatchersInv
  BY TypeInit, TypeStep, WatchersInit, WatchersStep, PTL DEF Spec

\* A callback that follows the events of its service has the service's list,
\* whatever operations overlap: also when an instance is registered twice or is
\* deregistered with another address, and after unwatch and a second watch.
THEOREM WatchersHaveTheList == Spec => []MirrorsAgree
<1>1. WatchersInv => MirrorsAgree
  BY WatchingIs DEF WatchersInv, Mirrored, MirrorsAgree, Local!MirrorsAgree
<1> QED
  BY Watching, <1>1, PTL

-----------------------------------------------------------------------------
(* What callers were told.                                                   *)

\* The list of an endpoint's service becomes another one with k more of its
\* instances, and the callers are told so.
ChangedBy(ep, k, list) ==
    /\ Tell(ep, k)
    /\ services' = [services EXCEPT ![ep.service] = list]
    /\ \A i \in Ids : Cardinality(Instances(list, i)) =
          Cardinality(Instances(services[ep.service], i)) + (IF ep.id = i THEN k ELSE 0)

\* A list changes by one instance, and so does what callers were told.
LEMMA AddsUpByOne ==
    ASSUME TypeOK, ToldAddsUp, NEW ep \in Endpoints, NEW k \in Int, NEW list,
           ChangedBy(ep, k, list)
    PROVE  ToldAddsUp'
<1> USE DEF ChangedBy
<1> SUFFICES ASSUME NEW s \in Services, NEW i \in Ids
             PROVE  told'[s][i] = Cardinality(Instances(services'[s], i))
  BY DEF ToldAddsUp, Instances
<1>1. told'[s][i] = told[s][i] + (IF s = ep.service /\ i = ep.id THEN k ELSE 0)
  BY TellType
<1>2. told[s][i] = Cardinality(Instances(services[s], i)) /\ told[s][i] \in Int
  BY DEF ToldAddsUp, TypeOK
<1>3. CASE s = ep.service
  <2>1. services'[s] = list
    BY <1>3 DEF TypeOK
  <2> QED
    BY <1>1, <1>2, <1>3, <2>1
<1>4. CASE s # ep.service
  <2>1. services'[s] = services[s]
    BY <1>4 DEF TypeOK
  <2>2. told'[s][i] = told[s][i]
    BY <1>1, <1>2, <1>4
  <2> QED
    BY <1>2, <2>1, <2>2
<1> QED
  BY <1>3, <1>4

\* Every step keeps the lists in step with what callers were told.
LEMMA ToldStep == TypeOK /\ ToldAddsUp /\ [Next]_vars => ToldAddsUp'
<1> SUFFICES ASSUME TypeOK, ToldAddsUp, [Next]_vars
             PROVE  ToldAddsUp'
  OBVIOUS
<1>1. CASE UNCHANGED <<services, told>>
  BY <1>1 DEF ToldAddsUp, Instances
<1>2. ASSUME NEW c \in Coros, registerServiceAsync(c)
      PROVE  ToldAddsUp'
  <2>1. PICK ep : ep = op[c].ep
    OBVIOUS
  <2>2. ep \in Endpoints /\ ep.service \in Services
    BY <1>2, <2>1, WorkingOn, OperationTypes, EndpointTypes DEF registerServiceAsync
  <2>3. PICK q \in Seq(Endpoints) : q = services[ep.service]
    BY <2>2 DEF TypeOK
  <2>4. services' = [services EXCEPT ![ep.service] = Append(q, ep)] /\ Tell(ep, 1)
    BY <1>2, <2>1, <2>2, <2>3 DEF registerServiceAsync, TypeOK
  <2>5. \A i \in Ids : Cardinality(Instances(Append(q, ep), i)) =
           Cardinality(Instances(q, i)) + (IF ep.id = i THEN 1 ELSE 0)
    BY <2>2, <2>3, OneMore
  <2>6. ChangedBy(ep, 1, Append(q, ep))
    BY <2>3, <2>4, <2>5, Zenon DEF ChangedBy
  <2>7. 1 \in Int
    OBVIOUS
  <2> QED
    BY <2>2, <2>6, <2>7, AddsUpByOne, Zenon
<1>3. ASSUME NEW c \in Coros, deregisterServiceAsync(c)
      PROVE  ToldAddsUp'
  <2>1. PICK ep : ep = op[c].ep
    OBVIOUS
  <2>2. ep \in Endpoints /\ ep.service \in Services
    BY <1>3, <2>1, WorkingOn, OperationTypes, EndpointTypes DEF deregisterServiceAsync
  <2>3. PICK q \in Seq(Endpoints) : q = services[ep.service]
    BY <2>2 DEF TypeOK
  <2>4. PICK at : at = PlaceOf(q, ep)
    OBVIOUS
  <2>5. /\ at # 0 /\ services' = [services EXCEPT ![ep.service] = RemoveAt(@, at)]
        /\ Tell(ep, -1)
    BY <1>3, <2>1, <2>3, <2>4, Deregistering, Zenon
  <2>6. at \in 1..Len(q) /\ q[at].id = ep.id
    BY <2>2, <2>3, <2>4, <2>5, ScanFinds
  <2>7. services' = [services EXCEPT ![ep.service] = RemoveAt(q, at)]
    BY <2>2, <2>3, <2>5 DEF TypeOK
  <2>8. \A i \in Ids : Cardinality(Instances(RemoveAt(q, at), i)) =
           Cardinality(Instances(q, i)) + (IF ep.id = i THEN -1 ELSE 0)
    <3> SUFFICES ASSUME NEW i \in Ids
                 PROVE  Cardinality(Instances(RemoveAt(q, at), i)) =
                          Cardinality(Instances(q, i)) + (IF ep.id = i THEN -1 ELSE 0)
      OBVIOUS
    <3>1. Cardinality(Instances(RemoveAt(q, at), i)) =
            Cardinality(Instances(q, i)) - (IF q[at].id = i THEN 1 ELSE 0)
      BY <2>3, <2>6, OneLess
    <3>2. Cardinality(Instances(q, i)) \in Nat
      BY <2>3, InstancesFinite
    <3> QED
      BY <2>6, <3>1, <3>2
  <2>9. -1 \in Int
    OBVIOUS
  <2>10. ChangedBy(ep, -1, RemoveAt(q, at))
    BY <2>3, <2>5, <2>7, <2>8, Zenon DEF ChangedBy
  <2> QED
    BY <2>2, <2>9, <2>10, AddsUpByOne, Zenon
<1> QED
  BY <1>1, <1>2, <1>3
     DEF Next, Step, Work, Begin, Lock, LockFail, Report, ReadLast, DeregisterMissing,
         discoverServiceAsync, watchServiceAsync, unwatchServiceAsync, registryVars, vars

\* At first nothing is registered and nobody was told anything.
LEMMA ToldInit == Init => ToldAddsUp
<1> SUFFICES ASSUME Init, NEW s \in Services, NEW i \in Ids
             PROVE  told[s][i] = Cardinality(Instances(services[s], i))
  BY DEF ToldAddsUp
<1>1. services[s] = <<>> /\ told[s][i] = 0
  BY DEF Init
<1>2. Instances(services[s], i) = {}
  BY <1>1 DEF Instances
<1> QED
  BY <1>1, <1>2, FS_EmptySet

\* What callers were told adds up, for any number of coroutines and whatever
\* overlaps or fails to lock: an instance is on the list once for each
\* registration that reported success and was not taken back.
THEOREM RegistryAddsUp == Spec => []RegistryInv
<1>1. Init => RegistryInv
  BY TypeInit, ToldInit DEF RegistryInv
<1>2. RegistryInv /\ [Next]_vars => RegistryInv'
  BY TypeStep, ToldStep DEF RegistryInv
<1> QED
  BY <1>1, <1>2, PTL DEF Spec

-----------------------------------------------------------------------------
(* The result of an operation that met no other one.                         *)

\* While an operation is alone nobody else is under way, and from its work on
\* the members are its own.
AloneInv ==
    \A c \in Coros : alone[c] /\ pc[c] # "idle" =>
        /\ \A d \in Coros : d # c => pc[d] = "idle"
        /\ pc[c] \in {"report", "read"} /\ op[c].name = "discover" =>
              lastEndpoints = outcome[c].endpoints
        /\ pc[c] = "read" => lastError = outcome[c].error

\* A step of c, which is under way: nobody else is alone.
LEMMA AloneKept ==
    ASSUME TypeOK, AloneInv, NEW c \in Coros, pc[c] # "idle", NEW x,
           pc' = [pc EXCEPT ![c] = x], UNCHANGED alone,
           /\ x \in {"report", "read"} /\ op'[c].name = "discover" =>
                 lastEndpoints' = outcome'[c].endpoints
           /\ x = "read" => lastError' = outcome'[c].error
    PROVE  AloneInv'
<1> SUFFICES ASSUME NEW d \in Coros, alone[d], pc'[d] # "idle"
             PROVE  /\ \A e \in Coros : e # d => pc'[e] = "idle"
                    /\ pc'[d] \in {"report", "read"} /\ op'[d].name = "discover" =>
                          lastEndpoints' = outcome'[d].endpoints
                    /\ pc'[d] = "read" => lastError' = outcome'[d].error
  BY DEF AloneInv
<1>1. pc'[c] = x /\ \A e \in Coros : e # c => pc'[e] = pc[e]
  BY DEF TypeOK
<1>2. pc[d] # "idle"
  BY <1>1
<1>3. \A e \in Coros : e # d => pc[e] = "idle"
  BY <1>2 DEF AloneInv
<1>4. d = c
  BY <1>3
<1> QED
  BY <1>1, <1>3, <1>4

\* Every step keeps an operation that is alone its result.
LEMMA AloneStep == TypeOK /\ AloneInv /\ [Next]_vars => AloneInv'
<1> SUFFICES ASSUME TypeOK, AloneInv, [Next]_vars
             PROVE  AloneInv'
  OBVIOUS
<1>1. ASSUME NEW c \in Coros, NEW o \in Operations, Begin(c, o)
      PROVE  AloneInv'
  <2>1. pc[c] = "idle" /\ pc' = [pc EXCEPT ![c] = "lock"]
    BY <1>1 DEF Begin
  <2>2. alone' = [d \in Coros |-> IF d = c THEN \A e \in Coros \ {c} : pc[e] = "idle"
                                  ELSE alone[d] /\ pc[d] = "idle"]
    BY <1>1 DEF Begin
  <2>3. pc'[c] = "lock" /\ \A d \in Coros : d # c => pc'[d] = pc[d]
    BY <2>1 DEF TypeOK
  <2> SUFFICES ASSUME NEW d \in Coros, alone'[d], pc'[d] # "idle"
               PROVE  (\A e \in Coros : e # d => pc'[e] = "idle") /\ pc'[d] = "lock"
    BY DEF AloneInv
  <2>4. d = c
    BY <2>2, <2>3, Zenon
  <2>5. \A e \in Coros \ {c} : pc[e] = "idle"
    BY <2>2, <2>4, Zenon
  <2> QED
    BY <2>3, <2>4, <2>5
<1>2. ASSUME NEW c \in Coros, Lock(c)
      PROVE  AloneInv'
  BY <1>2, AloneKept DEF Lock, callVars
<1>3. ASSUME NEW c \in Coros, LockFail(c)
      PROVE  AloneInv'
  <2>1. PICK res : res = [error |-> "LOCK_TIMEOUT", endpoints |-> <<>>]
    OBVIOUS
  <2>2. /\ pc[c] = "lock" /\ pc' = [pc EXCEPT ![c] = "read"] /\ UNCHANGED <<alone, op>>
        /\ outcome' = [outcome EXCEPT ![c] = res]
        /\ lastError' = res.error
        /\ op[c].name = "discover" => lastEndpoints' = res.endpoints
    BY <1>3, <2>1 DEF LockFail, callVars
  <2>3. outcome'[c] = res
    BY <2>2 DEF TypeOK
  <2> QED
    BY <2>2, <2>3, AloneKept
<1>4. ASSUME NEW c \in Coros, Work(c)
      PROVE  AloneInv'
  <2>1. /\ pc[c] = "work" /\ pc' = [pc EXCEPT ![c] = "report"] /\ UNCHANGED <<alone, op>>
    BY <1>4 DEF Work, registerServiceAsync, deregisterServiceAsync, DeregisterMissing,
                discoverServiceAsync, watchServiceAsync, unwatchServiceAsync, Working,
                Worked, callVars
  <2>2. op[c].name = "discover" => lastEndpoints' = outcome'[c].endpoints
    <3> SUFFICES ASSUME op[c].name = "discover"
                 PROVE  lastEndpoints' = outcome'[c].endpoints
      OBVIOUS
    <3>1. discoverServiceAsync(c)
      BY <1>4 DEF Work, registerServiceAsync, deregisterServiceAsync, DeregisterMissing,
                  watchServiceAsync, unwatchServiceAsync, Working
    <3>2. PICK q : q = services[op[c].s]
      OBVIOUS
    <3>3. /\ lastEndpoints' = q
          /\ outcome' = [outcome EXCEPT ![c] = [error |-> "OK", endpoints |-> q]]
      BY <3>1, <3>2 DEF discoverServiceAsync, Worked
    <3> QED
      BY <3>3 DEF TypeOK
  <2> QED
    BY <2>1, <2>2, AloneKept
<1>5. ASSUME NEW c \in Coros, Report(c)
      PROVE  AloneInv'
  <2>1. /\ pc[c] = "report" /\ pc' = [pc EXCEPT ![c] = "read"]
        /\ UNCHANGED <<alone, op, outcome, lastEndpoints>> /\ lastError' = outcome[c].error
    BY <1>5 DEF Report, callVars
  <2>2. CASE alone[c]
    <3>1. op[c].name = "discover" => lastEndpoints = outcome[c].endpoints
      BY <2>1, <2>2 DEF AloneInv
    <3> QED
      BY <2>1, <3>1, AloneKept
  <2>3. CASE ~alone[c]
    <3> SUFFICES ASSUME NEW d \in Coros, alone[d], pc'[d] # "idle"
                 PROVE  FALSE
      BY <2>1 DEF AloneInv
    <3>1. d # c /\ pc[d] # "idle"
      BY <2>1, <2>3 DEF TypeOK
    <3> QED
      BY <2>1, <3>1 DEF AloneInv
  <2> QED
    BY <2>2, <2>3
<1>6. ASSUME NEW c \in Coros, ReadLast(c)
      PROVE  AloneInv'
  BY <1>6, AloneKept DEF ReadLast
<1>7. CASE UNCHANGED vars
  BY <1>7 DEF AloneInv, vars, memberVars, callVars
<1> QED
  BY <1>1, <1>2, <1>3, <1>4, <1>5, <1>6, <1>7 DEF Next, Step

\* A caller whose operation met no other one reads its own result from
\* lastError() and lastEndpoints(): no path leaves an old error or list behind.
THEOREM AloneOwnResult == Spec => []OwnResult
<1>1. Init => AloneInv
  BY DEF Init, AloneInv
<1>2. AloneInv => OwnResult
  BY DEF AloneInv, OwnResult
<1> QED
  BY RegistryTypeCorrect, AloneStep, <1>1, <1>2, PTL DEF Spec

-----------------------------------------------------------------------------
(* The coroutines are a registry of a single thread.                         *)

\* Every step is a step of that registry or leaves it alone.
LEMMA LocalStep ==
    TypeOK /\ WatchersInv /\ [Next]_vars => [Local!Next]_(Local!vars)
<1> SUFFICES ASSUME TypeOK, WatchersInv, [Next]_vars
             PROVE  Local!Next \/ UNCHANGED Local!vars
  OBVIOUS
<1>1. CASE UNCHANGED <<services, watchers, mirror>>
  BY <1>1 DEF Local!vars
<1>2. ASSUME NEW c \in Coros, registerServiceAsync(c)
      PROVE  Local!Next
  <2>1. op[c].ep \in Endpoints
    BY <1>2, WorkingOn, OperationTypes DEF registerServiceAsync
  <2>2. Local!registerService(op[c].ep)
    BY <1>2 DEF registerServiceAsync, Notify, Local!registerService, Local!Notify
  <2> QED
    BY <2>1, <2>2 DEF Local!Next, Local!Endpoints, Endpoints
<1>3. ASSUME NEW c \in Coros, deregisterServiceAsync(c)
      PROVE  Local!Next
  <2>1. PICK ep : ep = op[c].ep
    OBVIOUS
  <2>2. ep \in Endpoints /\ ep.service \in Services
    BY <1>3, <2>1, WorkingOn, OperationTypes, EndpointTypes DEF deregisterServiceAsync
  <2>3. PICK q \in Seq(Endpoints) : q = services[ep.service]
    BY <2>2 DEF TypeOK
  <2>4. PICK at : at = PlaceOf(q, ep)
    OBVIOUS
  <2>5. /\ at # 0 /\ services' = [services EXCEPT ![ep.service] = RemoveAt(@, at)]
        /\ Notify("REMOVED", q[at]) /\ UNCHANGED watchers
    BY <1>3, <2>1, <2>3, <2>4, Deregistering, Zenon
  <2>6. at \in 1..Len(q) /\ q[at].id = ep.id
    BY <2>2, <2>3, <2>4, <2>5, ScanFinds
  <2>7. Local!Found(ep)
    BY <2>3, <2>6 DEF Local!Found
  <2>8. Local!FirstOf(ep) = q[at]
    BY <2>3, <2>4, SameScan
  <2>9. Local!RemoveFirst(q, q[at]) = RemoveAt(q, at)
    BY <2>2, <2>3, <2>4, <2>5, SameErase, EraseFirst
  <2>10. services' = [services EXCEPT ![ep.service] = Local!RemoveFirst(@, Local!FirstOf(ep))]
    BY <2>2, <2>3, <2>5, <2>8, <2>9 DEF TypeOK
  <2>11. Local!Notify([type |-> "REMOVED", endpoint |-> Local!FirstOf(ep)])
    BY <2>5, <2>8 DEF Notify, Local!Notify
  <2>12. Local!deregisterService(ep)
    BY <2>5, <2>7, <2>10, <2>11 DEF Local!deregisterService
  <2> QED
    BY <2>2, <2>12 DEF Local!Next, Local!Endpoints, Endpoints
<1>4. ASSUME NEW c \in Coros, watchServiceAsync(c)
      PROVE  Local!Next
  <2>1. pc[c] = "work" /\ op[c].name = "watch" /\ op[c].s \in Services /\ op[c].w \in Watchers
    BY <1>4, WorkingOn, OperationTypes DEF watchServiceAsync
  <2>2. Local!Unused(op[c].w)
    BY <2>1, WatchingIs DEF Local!Unused, WatchersInv, WatchInv
  <2>3. Local!watchService(op[c].s, op[c].w)
    BY <1>4, <2>2 DEF watchServiceAsync, Local!watchService
  <2> QED
    BY <2>1, <2>3 DEF Local!Next
<1>5. ASSUME NEW c \in Coros, unwatchServiceAsync(c)
      PROVE  Local!Next
  <2>1. op[c].s \in Services
    BY <1>5, WorkingOn, OperationTypes DEF unwatchServiceAsync
  <2>2. Local!unwatchService(op[c].s)
    BY <1>5 DEF unwatchServiceAsync, Local!unwatchService
  <2> QED
    BY <2>1, <2>2 DEF Local!Next
<1> QED
  BY <1>1, <1>2, <1>3, <1>4, <1>5
     DEF Next, Step, Work, Begin, Lock, LockFail, Report, ReadLast, DeregisterMissing,
         discoverServiceAsync, registryVars, vars

\* The coroutines together do what LocalServiceRegistry does for one thread:
\* their work under the mutex is atomic, and nothing of it happens elsewhere.
THEOREM AsyncIsLocal == Spec => ImplementsLocal
<1>1. Init => Local!Init
  BY DEF Init, Local!Init
<1> QED
  BY RegistryTypeCorrect, Watching, LocalStep, <1>1, PTL
     DEF Spec, ImplementsLocal, Local!Spec
=============================================================================
