---------------------------- MODULE RpcServerProofs ----------------------------
(***************************************************************************)
(* Proofs about a server: RpcRouting for every set of services and         *)
(* methods, every cache size and every route hash, and RpcServerLifecycle  *)
(* for any number of clients: the connections are accounted for, a server  *)
(* that does not accept says why, and at most one connection is accepted   *)
(* after stop().                                                           *)
(***************************************************************************)
EXTENDS RpcRouting, RpcServerLifecycle, TLAPS, WellFoundedInduction

-----------------------------------------------------------------------------
(* RpcRouting.                                                              *)

USE RoutesAssumption, CacheSizeAssumption, HashAssumption

\* The route an unused cache entry carries is a route.
LEMMA EmptyRouteIsRoute == EmptyRoute \in Routes
  BY DEF EmptyRoute, Routes, Modes

\* findMethod gives a handler of the route's own service and method, or none.
LEMMA FindMethodType ==
  ASSUME NEW r \in Routes
  PROVE  /\ findMethod(r) \in Handlers \cup {NoHandler}
         /\ findMethod(r) # NoHandler => /\ findMethod(r).service = r.service
                                         /\ findMethod(r).method = r.method
         /\ NoHandler \notin Handlers
  BY DEF findMethod, streamModeIndex, Routes, Modes, Handlers, NoHandler

\* Two routes of one service and method that differ in their streaming mode use
\* different slots.
LEMMA StreamSlotsDiffer ==
  ASSUME NEW a \in Modes \ {"UNARY"}, NEW b \in Modes \ {"UNARY"},
         streamModeIndex(a) = streamModeIndex(b)
  PROVE  a = b
  BY DEF streamModeIndex, Modes

\* Slots are numbered 0 to 2.
LEMMA StreamSlotType ==
  ASSUME NEW a \in Modes \ {"UNARY"} PROVE streamModeIndex(a) \in 0..2
  BY DEF streamModeIndex, Modes

\* A route is found in the tables when its own entry is there.
LEMMA FoundIffPresent ==
  ASSUME NEW r \in Routes
  PROVE  findMethod(r) # NoHandler <=>
            IF r.mode = "UNARY" THEN <<r.service, r.method>> \in unaryMethods
            ELSE <<r.service, r.method, streamModeIndex(r.mode)>> \in streamSlots
  <1>1. CASE r.mode = "UNARY"
    BY <1>1 DEF findMethod, NoHandler, Routes
  <1>2. CASE r.mode # "UNARY"
    <2>1. streamModeIndex(r.mode) \in 0..2
      BY <1>2, StreamSlotType DEF Routes
    <2> QED BY <1>2, <2>1 DEF findMethod, NoHandler, Routes
  <1> QED BY <1>1, <1>2

\* The scan stops at one of the slots it looks for.
LEMMA FirstSlotFound ==
  ASSUME NEW S \in SUBSET Slots, S # {}
  PROVE  FirstSlot(S) \in S
  <1> DEFINE R == {ss \in Nat \X Nat : ss[1] < ss[2]}
  <1>1. S \subseteq Nat
    BY DEF Slots
  <1>2. PICK x \in S : \A y \in S : ~(<<y, x>> \in R)
    <2>1. IsWellFoundedOn(R, Nat)
      BY NatLessThanWellFounded DEF OpToRel
    <2> HIDE DEF R
    <2> QED BY <1>1, <2>1, WFMin
  <1>3. \A y \in S : x <= y
    <2> SUFFICES ASSUME NEW y \in S PROVE x <= y
      OBVIOUS
    <2>1. x \in Nat /\ y \in Nat
      BY <1>1
    <2>2. ~(<<y, x>>[1] < <<y, x>>[2])
      BY <1>2, <2>1
    <2> QED BY <2>1, <2>2
  <1> QED BY <1>3 DEF FirstSlot

\* The slot findCachedHandler answers from holds the request's own route.
LEMMA CachedSlotMatches ==
  ASSUME TypeOK, NEW r \in Routes, findCachedSlot(r) # 0
  PROVE  /\ findCachedSlot(r) \in Slots
         /\ cache[findCachedSlot(r)].handler # NoHandler
         /\ cache[findCachedSlot(r)].route = r
  <1> DEFINE hits == {i \in Slots : routeCacheHit(cache[i], r)}
  <1>1. findCachedSlot(r) \in hits
    <2>1. CASE lastHit # 0 /\ lastHit \in hits
      BY <2>1 DEF findCachedSlot
    <2>2. CASE ~(lastHit # 0 /\ lastHit \in hits)
      <3>1. hits # {} /\ findCachedSlot(r) = FirstSlot(hits)
        BY <2>2 DEF findCachedSlot
      <3> QED BY <3>1, FirstSlotFound
    <2> QED BY <2>1, <2>2
  <1> QED BY <1>1 DEF routeCacheHit, routeCacheKeyMatch

\* resolveMethodHandler finds a handler exactly when it reports OK.
LEMMA ResolveType ==
  ASSUME NEW r \in Routes
  PROVE  /\ resolveMethodHandler(r).code \in Codes \ {"NONE"}
         /\ resolveMethodHandler(r).handler \in Handlers \cup {NoHandler}
         /\ resolveMethodHandler(r).code = "OK" =>
               /\ r.service \in services
               /\ findMethod(r) # NoHandler
               /\ resolveMethodHandler(r).handler = findMethod(r)
  BY FindMethodType DEF resolveMethodHandler, Codes

\* The answer of the tables is the one the registrations call for.
LEMMA ResolveAsRegistered ==
  ASSUME NEW r \in Routes, TablesHoldRegistrations
  PROVE  resolveMethodHandler(r).code = ExpectedCode(r)
  BY DEF resolveMethodHandler, ExpectedCode, TablesHoldRegistrations

\* What updateRouteCache does to the cache: one slot changes, and it then holds
\* the handler under the request's own route.
LEMMA UpdateStoresRoute ==
  ASSUME TypeOK, NEW r \in Routes, NEW h \in Handlers, updateRouteCache(r, h)
  PROVE  /\ cache' \in [Slots -> Entries]
         /\ cursor' \in 0..(CacheSize - 1)
         /\ lastHit' \in 0..CacheSize
         /\ \A i \in Slots :
               cache'[i] = cache[i] \/ (cache'[i].route = r /\ cache'[i].handler = h)
  <1> DEFINE matches == {i \in Slots : routeCacheKeyMatch(cache[i], r)}
  <1>0. cache \in [Slots -> Entries] /\ cursor \in 0..(CacheSize - 1)
    BY DEF TypeOK
  <1>1. CASE matches # {}
    <2> DEFINE m == FirstSlot(matches)
    <2>1. m \in matches
      BY <1>1, FirstSlotFound
    <2>2. m \in Slots /\ cache[m].route = r
      BY <2>1 DEF routeCacheKeyMatch
    <2>3. /\ cache' = [cache EXCEPT ![m].handler = h]
          /\ lastHit' = m /\ cursor' = cursor
      BY <1>1 DEF updateRouteCache
    <2> HIDE DEF m, matches
    <2>4. cache' \in [Slots -> Entries]
      BY <1>0, <2>2, <2>3 DEF Entries
    <2>5. \A i \in Slots :
               cache'[i] = cache[i] \/ (cache'[i].route = r /\ cache'[i].handler = h)
      BY <1>0, <2>2, <2>3 DEF Entries
    <2>6. cursor' \in 0..(CacheSize - 1) /\ lastHit' \in 0..CacheSize
      BY <1>0, <2>2, <2>3 DEF Slots
    <2> QED BY <2>4, <2>5, <2>6
  <1>2. CASE matches = {}
    <2>1. /\ cache' = [cache EXCEPT ![cursor + 1] =
                          [hash |-> Hash[r], route |-> r, handler |-> h]]
          /\ lastHit' = cursor + 1
          /\ cursor' = (cursor + 1) % CacheSize
      BY <1>2 DEF updateRouteCache
    <2>2. cursor + 1 \in Slots /\ Hash[r] \in Nat
      BY <1>0 DEF Slots
    <2>3. cursor' \in 0..(CacheSize - 1) /\ lastHit' \in 0..CacheSize
      BY <1>0, <2>1
    <2>4. cache' \in [Slots -> Entries]
      BY <1>0, <2>1, <2>2 DEF Entries
    <2>5. \A i \in Slots :
               cache'[i] = cache[i] \/ (cache'[i].route = r /\ cache'[i].handler = h)
      BY <1>0, <2>1, <2>2
    <2> QED BY <2>3, <2>4, <2>5
  <1> QED BY <1>1, <1>2

\* The invariant holds before the first service is registered.
LEMMA RoutingInit == Init => RoutingInv
  <1> SUFFICES ASSUME Init PROVE RoutingInv
    OBVIOUS
  <1>1. TypeOK
    <2>1. UnusedEntry \in Entries
      BY EmptyRouteIsRoute DEF UnusedEntry, Entries
    <2>2. answer \in [route : Routes, code : Codes, handler : Handlers \cup {NoHandler}]
      BY EmptyRouteIsRoute DEF Init, Codes
    <2>3. cache \in [Slots -> Entries] /\ recent \in Seq(Routes)
      BY <2>1 DEF Init
    <2>4. cursor \in 0..(CacheSize - 1) /\ lastHit \in 0..CacheSize
      BY DEF Init
    <2> QED BY <2>2, <2>3, <2>4 DEF Init, TypeOK
  <1>2. TablesHoldRegistrations
    BY FoundIffPresent DEF Init, TablesHoldRegistrations
  <1>3. \A i \in Slots : cache[i].handler = NoHandler
    BY DEF Init, UnusedEntry
  <1> QED BY <1>1, <1>2, <1>3 DEF RoutingInv, EntriesResolve, RoutedAsRegistered, Init

\* Registering a method keeps the tables in step with the registrations.
LEMMA RegisterKeepsTables ==
  ASSUME TypeOK, TablesHoldRegistrations, NEW q \in Routes, registerMethodByMode(q)
  PROVE  TablesHoldRegistrations'
  <1> SUFFICES ASSUME NEW r \in Routes
               PROVE  r \in registered' <=> (findMethod(r) # NoHandler)'
    BY DEF TablesHoldRegistrations
  <1>1. r \in registered <=>
           IF r.mode = "UNARY" THEN <<r.service, r.method>> \in unaryMethods
           ELSE <<r.service, r.method, streamModeIndex(r.mode)>> \in streamSlots
    BY FoundIffPresent DEF TablesHoldRegistrations
  <1>2. (findMethod(r) # NoHandler)' <=>
           IF r.mode = "UNARY" THEN <<r.service, r.method>> \in unaryMethods'
           ELSE <<r.service, r.method, streamModeIndex(r.mode)>> \in streamSlots'
    <2>1. CASE r.mode = "UNARY"
      BY <2>1 DEF findMethod, NoHandler, Routes
    <2>2. CASE r.mode # "UNARY"
      <3>1. streamModeIndex(r.mode) \in 0..2
        BY <2>2, StreamSlotType DEF Routes
      <3> QED BY <2>2, <3>1 DEF findMethod, NoHandler, Routes
    <2> QED BY <2>1, <2>2
  <1>3. registered' = registered \cup {q}
    BY DEF registerMethodByMode
  <1>4. r = q <=> /\ r.service = q.service /\ r.method = q.method
                  /\ r.mode = q.mode
    BY DEF Routes
  <1>5. CASE q.mode = "UNARY"
    <2>1. unaryMethods' = unaryMethods \cup {<<q.service, q.method>>} /\ streamSlots' = streamSlots
      BY <1>5 DEF registerMethodByMode
    <2> QED BY <1>1, <1>2, <1>3, <1>4, <1>5, <2>1
  <1>6. CASE q.mode # "UNARY"
    <2>1. /\ streamSlots' = streamSlots \cup
                  {<<q.service, q.method, streamModeIndex(q.mode)>>}
          /\ unaryMethods' = unaryMethods
      BY <1>6 DEF registerMethodByMode
    <2>2. CASE r.mode = "UNARY"
      BY <1>1, <1>2, <1>3, <1>4, <1>6, <2>1, <2>2
    <2>3. CASE r.mode # "UNARY"
      <3>1. streamModeIndex(r.mode) = streamModeIndex(q.mode) => r.mode = q.mode
        BY <1>6, <2>3, StreamSlotsDiffer DEF Routes
      <3> HIDE DEF streamModeIndex
      <3> QED BY <1>1, <1>2, <1>3, <1>4, <2>1, <2>3, <3>1
    <2> QED BY <2>2, <2>3
  <1> QED BY <1>5, <1>6

\* What a routing step answers: the registry stays as it is, and the answer is
\* right for the request.
LEMMA AnswerIsRight ==
  ASSUME NEW r \in Routes, NEW c, NEW h,
         UNCHANGED registryVars,
         answer' = [route |-> r, code |-> c, handler |-> h],
         c = ExpectedCode(r),
         c = "OK" => h = findMethod(r) /\ h # NoHandler
  PROVE  RoutedAsRegistered'
  <1>1. answer'.route = r /\ answer'.code = c /\ answer'.handler = h
    OBVIOUS
  <1>2. ExpectedCode(r)' = ExpectedCode(r)
    BY DEF ExpectedCode, registryVars
  <1>3. findMethod(r)' = findMethod(r)
    BY DEF findMethod, registryVars
  <1>4. ExpectedCode(answer.route)' = ExpectedCode(r)
    BY <1>1, <1>2 DEF ExpectedCode
  <1>5. findMethod(answer.route)' = findMethod(r)
    BY <1>1, <1>3 DEF findMethod
  <1> HIDE DEF ExpectedCode, findMethod
  <1>6. c = "OK" => h.service = r.service /\ h.method = r.method
    BY FindMethodType
  <1> QED BY <1>1, <1>4, <1>5, <1>6 DEF RoutedAsRegistered

\* A step that leaves the registry alone keeps the tables as registered.
LEMMA TablesStay ==
  ASSUME TablesHoldRegistrations, UNCHANGED registryVars
  PROVE  TablesHoldRegistrations'
  BY DEF TablesHoldRegistrations, findMethod, registryVars

\* Every step of the server keeps the invariant.
LEMMA RoutingStep == RoutingInv /\ [Next]_vars => RoutingInv'
  <1> SUFFICES ASSUME RoutingInv, [Next]_vars PROVE RoutingInv'
    OBVIOUS
  <1>0. /\ TypeOK /\ TablesHoldRegistrations /\ EntriesResolve /\ RoutedAsRegistered
        /\ ~serving => /\ \A i \in Slots : cache[i].handler = NoHandler
                       /\ answer.code = "NONE"
    BY DEF RoutingInv
  <1>1. ASSUME NEW q \in Routes, registerMethodByMode(q) PROVE RoutingInv'
    <2>1. UNCHANGED <<services, serving, cache, cursor, lastHit, answer, recent>> /\ ~serving
      BY <1>1 DEF registerMethodByMode
    <2>2. /\ registered' \subseteq Routes /\ unaryMethods' \subseteq Services \X Methods
          /\ streamSlots' \subseteq Services \X Methods \X (0..2)
      <3>1. q.service \in Services /\ q.method \in Methods /\ q.mode \in Modes
        BY DEF Routes
      <3>2. CASE q.mode = "UNARY"
        BY <1>0, <1>1, <3>1, <3>2 DEF registerMethodByMode, TypeOK
      <3>3. CASE q.mode # "UNARY"
        <4>1. streamModeIndex(q.mode) \in 0..2
          BY <3>1, <3>3, StreamSlotType
        <4> QED BY <1>0, <1>1, <3>1, <3>3, <4>1 DEF registerMethodByMode, TypeOK
      <3> QED BY <3>2, <3>3
    <2>3. TypeOK'
      BY <1>0, <2>1, <2>2 DEF TypeOK
    <2>4. TablesHoldRegistrations'
      BY <1>0, <1>1, RegisterKeepsTables
    <2>5. (~serving)' /\ (\A i \in Slots : cache[i].handler = NoHandler)'
          /\ (answer.code = "NONE")'
      BY <1>0, <2>1
    <2> QED BY <2>3, <2>4, <2>5 DEF RoutingInv, EntriesResolve, RoutedAsRegistered
  <1>2. ASSUME NEW s \in Services, registerService(s) PROVE RoutingInv'
    <2>1. /\ services' \subseteq Services /\ ~serving
          /\ UNCHANGED <<registered, unaryMethods, streamSlots, serving, cache, cursor,
                         lastHit, answer, recent>>
      BY <1>0, <1>2 DEF registerService, TypeOK
    <2>2. TypeOK'
      BY <1>0, <2>1 DEF TypeOK
    <2>3. TablesHoldRegistrations'
      BY <1>0, <2>1 DEF TablesHoldRegistrations, findMethod
    <2>4. (~serving)' /\ (\A i \in Slots : cache[i].handler = NoHandler)'
          /\ (answer.code = "NONE")'
      BY <1>0, <2>1
    <2> QED BY <2>2, <2>3, <2>4 DEF RoutingInv, EntriesResolve, RoutedAsRegistered
  <1>3. CASE StartServing
    <2>1. /\ UNCHANGED <<registryVars, cache, cursor, lastHit, answer, recent>>
          /\ ~serving /\ serving'
      BY <1>3 DEF StartServing
    <2>2. TypeOK'
      BY <1>0, <2>1 DEF TypeOK, registryVars
    <2>3. TablesHoldRegistrations'
      BY <1>0, <2>1, TablesStay
    <2>4. (\A i \in Slots : cache[i].handler = NoHandler)' /\ (answer.code = "NONE")'
      BY <1>0, <2>1
    <2> QED BY <2>1, <2>2, <2>3, <2>4 DEF RoutingInv, EntriesResolve, RoutedAsRegistered
  <1>4. ASSUME NEW r \in Routes, RouteHit(r) PROVE RoutingInv'
    <2> DEFINE slot == findCachedSlot(r)
    <2>1. slot # 0 /\ UNCHANGED <<registryVars, serving, cache, cursor, recent>> /\ serving
      BY <1>4 DEF RouteHit
    <2>2. lastHit' = slot /\ answer' = [route |-> r, code |-> "OK", handler |-> cache[slot].handler]
      BY <1>4 DEF RouteHit
    <2>3. slot \in Slots /\ cache[slot].handler # NoHandler /\ cache[slot].route = r
      BY <1>0, <2>1, CachedSlotMatches
    <2> HIDE DEF slot
    <2>4. r.service \in services /\ cache[slot].handler = findMethod(r)
      BY <1>0, <2>3 DEF EntriesResolve
    <2>5. r \in registered
      BY <1>0, <2>3, <2>4 DEF TablesHoldRegistrations
    <2>6. ExpectedCode(r) = "OK"
      BY <2>4, <2>5 DEF ExpectedCode
    <2>7. RoutedAsRegistered'
      BY <2>1, <2>2, <2>3, <2>4, <2>6, AnswerIsRight
    <2>8. TypeOK'
      <3>1. lastHit' \in 0..CacheSize
        BY <2>2, <2>3 DEF Slots
      <3>2. answer' \in [route : Routes, code : Codes, handler : Handlers \cup {NoHandler}]
        BY <2>2, <2>4, FindMethodType DEF Codes
      <3> QED BY <1>0, <2>1, <3>1, <3>2 DEF TypeOK, registryVars
    <2>9. TablesHoldRegistrations'
      BY <1>0, <2>1, TablesStay
    <2>10. EntriesResolve'
      BY <1>0, <2>1 DEF EntriesResolve, findMethod, registryVars
    <2> QED BY <2>1, <2>7, <2>8, <2>9, <2>10 DEF RoutingInv
  <1>5. ASSUME NEW r \in Routes, RouteMiss(r) PROVE RoutingInv'
    <2> DEFINE found == resolveMethodHandler(r)
    <2>1. UNCHANGED <<registryVars, serving>> /\ serving
      BY <1>5 DEF RouteMiss
    <2>2. answer' = [route |-> r, code |-> found.code, handler |-> found.handler]
      BY <1>5 DEF RouteMiss
    <2>3. /\ found.code \in Codes \ {"NONE"} /\ found.handler \in Handlers \cup {NoHandler}
          /\ found.code = "OK" => /\ r.service \in services /\ findMethod(r) # NoHandler
                                  /\ found.handler = findMethod(r)
      BY ResolveType
    <2>4. found.code = ExpectedCode(r)
      BY <1>0, ResolveAsRegistered
    <2>5. found.code = "OK" => updateRouteCache(r, found.handler)
      BY <1>5 DEF RouteMiss
    <2>6. found.code # "OK" => UNCHANGED <<cache, cursor, lastHit, recent>>
      BY <1>5 DEF RouteMiss
    <2>7. recent' \in Seq(Routes)
      <3>1. recent \in Seq(Routes)
        BY <1>0 DEF TypeOK
      <3>2. CASE found.code = "OK"
        <4> DEFINE q == Append(recent, r)
        <4>1. recent' = IF Len(q) > CacheSize THEN Tail(q) ELSE q
          BY <1>5, <3>2 DEF RouteMiss
        <4>2. q \in Seq(Routes) /\ q # <<>>
          BY <3>1
        <4> HIDE DEF q
        <4>3. Tail(q) \in Seq(Routes)
          BY <4>2
        <4> QED BY <4>1, <4>2, <4>3
      <3> QED BY <2>6, <3>1, <3>2
    <2> HIDE DEF found
    <2>8. RoutedAsRegistered'
      BY <2>1, <2>2, <2>3, <2>4, AnswerIsRight
    <2>9. TablesHoldRegistrations'
      BY <1>0, <2>1, TablesStay
    <2>10. answer' \in [route : Routes, code : Codes, handler : Handlers \cup {NoHandler}]
      BY <2>2, <2>3
    <2>11. CASE found.code = "OK"
      <3>1. found.handler \in Handlers
        BY <2>3, <2>11
      <3>2. /\ cache' \in [Slots -> Entries] /\ cursor' \in 0..(CacheSize - 1)
            /\ lastHit' \in 0..CacheSize
            /\ \A i \in Slots : cache'[i] = cache[i]
                  \/ (cache'[i].route = r /\ cache'[i].handler = found.handler)
        BY <1>0, <2>5, <2>11, <3>1, UpdateStoresRoute
      <3>3. TypeOK'
        BY <1>0, <2>1, <2>7, <2>10, <3>2 DEF TypeOK, registryVars
      <3>4. EntriesResolve'
        <4> SUFFICES ASSUME NEW i \in Slots, cache'[i].handler # NoHandler
                     PROVE  /\ cache'[i].route.service \in services'
                            /\ cache'[i].handler = findMethod(cache[i].route)'
          BY DEF EntriesResolve
        <4>1. services' = services /\ unaryMethods' = unaryMethods /\ streamSlots' = streamSlots
          BY <2>1 DEF registryVars
        <4>2. CASE cache'[i] = cache[i]
          BY <1>0, <4>1, <4>2 DEF EntriesResolve, findMethod
        <4>3. CASE cache'[i].route = r /\ cache'[i].handler = found.handler
          <5>1. findMethod(cache[i].route)' = findMethod(r)
            BY <4>1, <4>3 DEF findMethod
          <5> QED BY <2>3, <2>11, <4>1, <4>3, <5>1
        <4> QED BY <3>2, <4>2, <4>3
      <3> QED BY <2>1, <2>8, <2>9, <3>3, <3>4 DEF RoutingInv
    <2>12. CASE found.code # "OK"
      <3>1. TypeOK'
        BY <1>0, <2>1, <2>6, <2>7, <2>10, <2>12 DEF TypeOK, registryVars
      <3>2. EntriesResolve'
        BY <1>0, <2>1, <2>6, <2>12 DEF EntriesResolve, findMethod, registryVars
      <3> QED BY <2>1, <2>8, <2>9, <3>1, <3>2 DEF RoutingInv
    <2> QED BY <2>11, <2>12
  <1>6. CASE UNCHANGED vars
    <2>1. /\ UNCHANGED registryVars
          /\ UNCHANGED <<serving, cache, cursor, lastHit, answer, recent>>
      BY <1>6 DEF vars
    <2>2. TypeOK'
      BY <1>0, <2>1 DEF TypeOK, registryVars
    <2>3. TablesHoldRegistrations'
      BY <1>0, <2>1, TablesStay
    <2>4. EntriesResolve'
      BY <1>0, <2>1 DEF EntriesResolve, findMethod, registryVars
    <2>5. RoutedAsRegistered'
      BY <1>0, <2>1 DEF RoutedAsRegistered, ExpectedCode, findMethod, registryVars
    <2> QED BY <1>0, <2>1, <2>2, <2>3, <2>4, <2>5 DEF RoutingInv
  <1> QED BY <1>1, <1>2, <1>3, <1>4, <1>5, <1>6 DEF Next

\* The inductive invariant holds for every set of services, cache and hash.
THEOREM Routing == Spec => []RoutingInv
  BY RoutingInit, RoutingStep, PTL DEF Spec

\* Every request a connection routes is answered as the registrations call for,
\* with its own handler (RpcServer::handleConnection), for every route hash,
\* cache size and order of requests.
THEOREM RoutesAreRight == Spec => []RoutedAsRegistered
  <1>1. RoutingInv => RoutedAsRegistered
    BY DEF RoutingInv
  <1> QED BY <1>1, Routing, PTL

\* Nothing in the cache answers differently from the tables behind it
\* (findCachedHandler against resolveMethodHandler).
THEOREM CacheIsCoherent == Spec => []CacheAgreesWithTables
  <1>1. RoutingInv => CacheAgreesWithTables
    <2> SUFFICES ASSUME RoutingInv, NEW r \in Routes, findCachedSlot(r) # 0
                 PROVE  /\ resolveMethodHandler(r).code = "OK"
                        /\ cache[findCachedSlot(r)].handler = resolveMethodHandler(r).handler
      BY DEF CacheAgreesWithTables
    <2> DEFINE slot == findCachedSlot(r)
    <2>1. slot \in Slots /\ cache[slot].handler # NoHandler /\ cache[slot].route = r
      BY CachedSlotMatches DEF RoutingInv
    <2> HIDE DEF slot
    <2>2. r.service \in services /\ cache[slot].handler = findMethod(r)
      BY <2>1 DEF RoutingInv, EntriesResolve
    <2>3. resolveMethodHandler(r).code = "OK" /\ resolveMethodHandler(r).handler = findMethod(r)
      BY <2>1, <2>2 DEF resolveMethodHandler
    <2> QED BY <2>2, <2>3 DEF slot
  <1> QED BY <1>1, Routing, PTL

-----------------------------------------------------------------------------
(* The cache holds the routes resolved last.                                 *)

\* Slot i is in use, for the n-th of the routes resolved last.
Holds(i, n) ==
    /\ cache[i].handler # NoHandler
    /\ n \in 1..Len(recent) /\ cache[i].route = recent[n]
    /\ cache[i].hash = Hash[recent[n]]

\* The slots up to the cursor were filled last, the ones behind it a round
\* earlier or never.
CacheInOrder ==
    /\ Len(recent) <= CacheSize
    /\ Len(recent) < CacheSize => cursor = Len(recent)
    /\ \A i \in Slots : i <= cursor => Holds(i, Len(recent) - cursor + i)
    /\ \A i \in Slots : i > cursor =>
          IF Len(recent) = CacheSize THEN Holds(i, i - cursor)
          ELSE cache[i] = UnusedEntry
    /\ \A m, n \in 1..Len(recent) : recent[m] = recent[n] => m = n

\* Each of the routes resolved last has a slot.
LEMMA RecentIsCached ==
  ASSUME TypeOK, CacheInOrder, NEW n \in 1..Len(recent)
  PROVE  \E i \in Slots : Holds(i, n)
  <1>1. PICK l \in Nat : l = Len(recent)
    BY DEF TypeOK
  <1>2. cursor \in Nat /\ cursor < CacheSize /\ l <= CacheSize /\ n \in 1..l
    BY <1>1 DEF TypeOK, CacheInOrder
  <1>3. CASE l < CacheSize
    <2>0. cursor = l
      BY <1>1, <1>3 DEF CacheInOrder
    <2>1. n <= cursor /\ n \in Slots /\ l - cursor + n = n
      BY <1>2, <2>0 DEF Slots
    <2> QED BY <1>1, <2>1 DEF CacheInOrder
  <1>4. CASE l = CacheSize
    <2>1. CASE n <= CacheSize - cursor
      <3>1. /\ n + cursor \in Slots /\ n + cursor > cursor
            /\ (n + cursor) - cursor = n
        BY <1>2, <2>1 DEF Slots
      <3>2. Holds(n + cursor, (n + cursor) - cursor)
        BY <1>1, <1>4, <3>1 DEF CacheInOrder
      <3> QED BY <3>1, <3>2
    <2>2. CASE n > CacheSize - cursor
      <3> DEFINE i == n - (CacheSize - cursor)
      <3>1. i \in Slots /\ i <= cursor /\ l - cursor + i = n
        BY <1>2, <1>4, <2>2 DEF Slots
      <3> HIDE DEF i
      <3>2. Holds(i, l - cursor + i)
        BY <1>1, <3>1 DEF CacheInOrder
      <3> QED BY <3>1, <3>2
    <2> QED BY <1>2, <2>1, <2>2
  <1> QED BY <1>2, <1>3, <1>4

\* A slot is in use for one of the routes resolved last, or was never used.
LEMMA SlotInOrder ==
  ASSUME TypeOK, CacheInOrder, NEW i \in Slots
  PROVE  \/ cache[i] = UnusedEntry
         \/ \E n \in 1..Len(recent) : Holds(i, n)
  <1>1. CASE i <= cursor
    <2>1. Holds(i, Len(recent) - cursor + i)
      BY <1>1 DEF CacheInOrder
    <2> QED BY <2>1 DEF Holds
  <1>2. CASE i > cursor
    <2>1. cache[i] = UnusedEntry \/ Holds(i, i - cursor)
      BY <1>2 DEF CacheInOrder
    <2> QED BY <2>1 DEF Holds
  <1> QED BY <1>1, <1>2 DEF TypeOK, Slots

\* A route findCachedHandler does not find is none of the routes resolved last,
\* and no entry has its key: it goes into the slot behind the cursor.
LEMMA MissIsNew ==
  ASSUME TypeOK, CacheInOrder, NEW r \in Routes, findCachedSlot(r) = 0
  PROVE  /\ \A n \in 1..Len(recent) : recent[n] # r
         /\ {i \in Slots : routeCacheKeyMatch(cache[i], r)} = {}
  <1>1. \A i \in Slots : ~routeCacheHit(cache[i], r)
    <2> DEFINE hits == {i \in Slots : routeCacheHit(cache[i], r)}
    <2> SUFFICES ASSUME hits # {} PROVE FALSE
      OBVIOUS
    <2>1. \/ findCachedSlot(r) = lastHit /\ lastHit # 0
          \/ findCachedSlot(r) = FirstSlot(hits)
      BY DEF findCachedSlot
    <2>2. FirstSlot(hits) \in Slots
      BY FirstSlotFound
    <2> HIDE DEF hits
    <2> QED BY <2>1, <2>2 DEF Slots
  <1>2. ASSUME NEW n \in 1..Len(recent), recent[n] = r PROVE FALSE
    <2>1. PICK i \in Slots : Holds(i, n)
      BY RecentIsCached
    <2>2. routeCacheHit(cache[i], r)
      BY <1>2, <2>1 DEF Holds, routeCacheHit, routeCacheKeyMatch
    <2> QED BY <1>1, <2>2
  <1>3. ASSUME NEW i \in Slots, routeCacheKeyMatch(cache[i], r) PROVE FALSE
    <2>1. cache[i].hash = Hash[r] /\ cache[i].route = r
      BY <1>3 DEF routeCacheKeyMatch
    <2>2. cache[i].handler = NoHandler
      BY <1>1, <1>3 DEF routeCacheHit
    <2>3. cache[i] = UnusedEntry
      BY <2>2, SlotInOrder DEF Holds
    <2>4. r = EmptyRoute /\ Hash[r] = 0
      BY <2>1, <2>3 DEF UnusedEntry
    <2> QED BY <2>4
  <1> QED BY <1>2, <1>3

\* What taking the head off a list does.
LEMMA TailOfList ==
  ASSUME NEW q \in Seq(Routes), q # <<>>
  PROVE  /\ Len(Tail(q)) = Len(q) - 1
         /\ \A n \in 1..(Len(q) - 1) : Tail(q)[n] = q[n + 1]
  OBVIOUS

\* What adding to a list does.
LEMMA AppendToList ==
  ASSUME NEW s \in Seq(Routes), NEW r \in Routes
  PROVE  /\ Append(s, r) \in Seq(Routes) /\ Append(s, r) # <<>>
         /\ Len(Append(s, r)) = Len(s) + 1 /\ Append(s, r)[Len(s) + 1] = r
         /\ \A n \in 1..Len(s) : Append(s, r)[n] = s[n]
  OBVIOUS

\* What the list of the routes resolved last becomes when it is full.
LEMMA RecentMoves ==
  ASSUME NEW s \in Seq(Routes), NEW r \in Routes, Len(s) = CacheSize
  PROVE  LET t == Tail(Append(s, r)) IN
         /\ Len(t) = CacheSize /\ t[CacheSize] = r
         /\ \A n \in 1..(CacheSize - 1) : t[n] = s[n + 1]
  <1> DEFINE q == Append(s, r)
             t == Tail(q)
  <1>1. PICK l \in Nat : l = CacheSize /\ l > 0
    OBVIOUS
  <1>2. /\ q \in Seq(Routes) /\ q # <<>> /\ Len(q) = Len(s) + 1 /\ q[Len(s) + 1] = r
        /\ \A n \in 1..Len(s) : q[n] = s[n]
    BY AppendToList
  <1> HIDE DEF q
  <1>3. Len(t) = Len(q) - 1 /\ \A n \in 1..(Len(q) - 1) : t[n] = q[n + 1]
    BY <1>2, TailOfList
  <1> HIDE DEF t
  <1>4. Len(q) = l + 1 /\ q[l + 1] = r /\ \A n \in 1..l : q[n] = s[n]
    BY <1>1, <1>2
  <1>5. Len(t) = l /\ \A n \in 1..l : t[n] = q[n + 1]
    <2>1. (l + 1) - 1 = l
      OBVIOUS
    <2> QED BY <1>3, <1>4, <2>1
  <1>6. t[l] = r
    BY <1>1, <1>4, <1>5
  <1>7. \A n \in 1..(l - 1) : t[n] = s[n + 1]
    BY <1>1, <1>4, <1>5
  <1>8. Len(t) = CacheSize /\ t[CacheSize] = r /\ \A n \in 1..(CacheSize - 1) : t[n] = s[n + 1]
    BY <1>1, <1>5, <1>6, <1>7
  <1> QED BY <1>8 DEF q, t

\* A step that resolves no route.
LEMMA OrderKept ==
  ASSUME CacheInOrder, UNCHANGED <<cache, cursor, recent>>
  PROVE  CacheInOrder'
  BY DEF CacheInOrder, Holds

\* A route that is resolved goes behind the cursor: over the one resolved
\* longest ago when the cache is full.
LEMMA OrderMiss ==
  ASSUME TypeOK, CacheInOrder, NEW r \in Routes, RouteMiss(r)
  PROVE  CacheInOrder'
  <1> DEFINE found == resolveMethodHandler(r)
  <1>1. CASE found.code # "OK"
    BY <1>1, OrderKept DEF RouteMiss
  <1>2. CASE found.code = "OK"
    <2>1. /\ \A n \in 1..Len(recent) : recent[n] # r
          /\ {i \in Slots : routeCacheKeyMatch(cache[i], r)} = {}
      BY MissIsNew DEF RouteMiss
    <2>2. PICK h : h = found.handler /\ h # NoHandler
      BY <1>2, ResolveType
    <2>3. /\ cache' = [cache EXCEPT ![cursor + 1] =
                          [hash |-> Hash[r], route |-> r, handler |-> h]]
          /\ cursor' = (cursor + 1) % CacheSize
      BY <1>2, <2>1, <2>2 DEF RouteMiss, updateRouteCache
    <2>4. recent' = LET s == Append(recent, r) IN IF Len(s) > CacheSize THEN Tail(s) ELSE s
      BY <1>2 DEF RouteMiss
    <2> HIDE DEF found
    <2>5. PICK l \in Nat : l = Len(recent)
      BY DEF TypeOK
    <2>6. PICK c \in Nat : c = cursor
      BY DEF TypeOK
    <2>7. c < CacheSize /\ l <= CacheSize /\ (l < CacheSize => c = l)
      BY <2>5, <2>6 DEF TypeOK, CacheInOrder
    <2>8. /\ c + 1 < CacheSize => cursor' = c + 1
          /\ c + 1 = CacheSize => cursor' = 0
      BY <2>3, <2>6, <2>7
    <2>9. /\ l < CacheSize => /\ Len(recent') = l + 1 /\ recent'[l + 1] = r
                              /\ \A n \in 1..l : recent'[n] = recent[n]
          /\ l = CacheSize => /\ Len(recent') = CacheSize /\ recent'[CacheSize] = r
                              /\ \A n \in 1..(CacheSize - 1) : recent'[n] = recent[n + 1]
      <3>1. recent \in Seq(Routes) /\ Len(Append(recent, r)) = l + 1
        BY <2>5 DEF TypeOK
      <3>2. /\ l < CacheSize => recent' = Append(recent, r)
            /\ l = CacheSize => recent' = Tail(Append(recent, r))
        BY <2>4, <3>1
      <3>3. ASSUME l < CacheSize
            PROVE  /\ Len(recent') = l + 1 /\ recent'[l + 1] = r
                   /\ \A n \in 1..l : recent'[n] = recent[n]
        BY <2>5, <3>1, <3>2, <3>3, AppendToList
      <3>4. ASSUME l = CacheSize
            PROVE  /\ Len(recent') = CacheSize /\ recent'[CacheSize] = r
                   /\ \A n \in 1..(CacheSize - 1) : recent'[n] = recent[n + 1]
        <4>1. Len(recent) = CacheSize
          BY <2>5, <3>4
        <4>2. recent' = Tail(Append(recent, r))
          BY <3>2, <3>4
        <4> QED BY <3>1, <4>1, <4>2, RecentMoves, Zenon
      <3> QED BY <3>3, <3>4
    <2>10. /\ cache'[c + 1].handler # NoHandler /\ cache'[c + 1].route = r
           /\ cache'[c + 1].hash = Hash[r]
           /\ \A i \in Slots : i # c + 1 => cache'[i] = cache[i]
      <3>1. c + 1 \in Slots /\ cache \in [Slots -> Entries]
        BY <2>7 DEF Slots, TypeOK
      <3> QED BY <2>2, <2>3, <2>6, <3>1
    <2>11. CASE l < CacheSize
      <3>1. \A i \in Slots : i <= l => Holds(i, i)
        <4> SUFFICES ASSUME NEW i \in Slots, i <= l PROVE Holds(i, i)
          OBVIOUS
        <4>1. Len(recent) - cursor + i = i /\ i <= cursor
          BY <2>5, <2>6, <2>7, <2>11 DEF Slots
        <4> QED BY <4>1 DEF CacheInOrder
      <3>2. \A i \in Slots : i <= l => Holds(i, i)'
        <4> SUFFICES ASSUME NEW i \in Slots, i <= l PROVE Holds(i, i)'
          OBVIOUS
        <4>1. i \in 1..l /\ i \in 1..(l + 1) /\ i # c + 1
          BY <2>7, <2>11 DEF Slots
        <4> QED BY <2>9, <2>10, <2>11, <3>1, <4>1 DEF Holds
      <3>3. Holds(l + 1, l + 1)'
        BY <2>7, <2>9, <2>10, <2>11 DEF Holds
      <3>4. \A i \in Slots : i > l + 1 => cache'[i] = UnusedEntry
        BY <2>5, <2>6, <2>7, <2>10, <2>11 DEF CacheInOrder, Slots
      <3>5. \A i \in Slots : i <= l + 1 => Holds(i, i)'
        BY <3>2, <3>3 DEF Slots
      <3>6. \A m, n \in 1..(l + 1) : recent'[m] = recent'[n] => m = n
        <4>1. \A m, n \in 1..l : recent[m] = recent[n] => m = n
          BY <2>5 DEF CacheInOrder
        <4>2. \A m \in 1..(l + 1) : m = l + 1 \/ m \in 1..l
          OBVIOUS
        <4> QED BY <2>1, <2>5, <2>9, <2>11, <4>1, <4>2
      <3>7. CASE l + 1 < CacheSize
        <4>1. cursor' = l + 1 /\ Len(recent') = l + 1
          BY <2>7, <2>8, <2>9, <2>11, <3>7
        <4>2. \A i \in Slots : i <= l + 1 => (l + 1) - (l + 1) + i = i
          BY DEF Slots
        <4> QED BY <3>4, <3>5, <3>6, <3>7, <4>1, <4>2 DEF CacheInOrder
      <3>8. CASE l + 1 = CacheSize
        <4>1. cursor' = 0 /\ Len(recent') = CacheSize
          BY <2>7, <2>8, <2>9, <2>11, <3>8
        <4>2. \A i \in Slots : i > 0 /\ ~(i <= 0) /\ i - 0 = i /\ i <= l + 1
          BY <3>8 DEF Slots
        <4> QED BY <3>5, <3>6, <3>8, <4>1, <4>2 DEF CacheInOrder
      <3> QED BY <2>11, <3>7, <3>8
    <2>12. CASE l = CacheSize
      <3>1. \A i \in Slots : i <= c => Holds(i, CacheSize - c + i)
        BY <2>5, <2>6, <2>12 DEF CacheInOrder
      <3>2. \A i \in Slots : i > c => Holds(i, i - c)
        BY <2>5, <2>6, <2>12 DEF CacheInOrder
      <3>3. \A i \in Slots : i <= c => Holds(i, CacheSize - c - 1 + i)'
        <4> SUFFICES ASSUME NEW i \in Slots, i <= c PROVE Holds(i, CacheSize - c - 1 + i)'
          OBVIOUS
        <4>1. /\ CacheSize - c - 1 + i \in 1..(CacheSize - 1) /\ i # c + 1
              /\ (CacheSize - c - 1 + i) + 1 = CacheSize - c + i
              /\ CacheSize - c - 1 + i \in 1..CacheSize
          BY <2>7 DEF Slots
        <4>2. recent'[CacheSize - c - 1 + i] = recent[CacheSize - c + i]
          BY <2>9, <2>12, <4>1
        <4>3. Holds(i, CacheSize - c + i)
          BY <3>1
        <4> QED BY <2>9, <2>10, <2>12, <4>1, <4>2, <4>3 DEF Holds
      <3>4. Holds(c + 1, CacheSize)'
        BY <2>9, <2>10, <2>12 DEF Holds
      <3>5. \A i \in Slots : i > c + 1 => Holds(i, i - (c + 1))'
        <4> SUFFICES ASSUME NEW i \in Slots, i > c + 1 PROVE Holds(i, i - (c + 1))'
          OBVIOUS
        <4>1. /\ i - (c + 1) \in 1..(CacheSize - 1) /\ i # c + 1 /\ i > c
              /\ (i - (c + 1)) + 1 = i - c /\ i - (c + 1) \in 1..CacheSize
          BY <2>7 DEF Slots
        <4>2. recent'[i - (c + 1)] = recent[i - c]
          BY <2>9, <2>12, <4>1
        <4>3. Holds(i, i - c)
          BY <3>2, <4>1
        <4> QED BY <2>9, <2>10, <2>12, <4>1, <4>2, <4>3 DEF Holds
      <3>6. \A m, n \in 1..CacheSize : recent'[m] = recent'[n] => m = n
        <4>1. \A m, n \in 1..CacheSize : recent[m] = recent[n] => m = n
          BY <2>5, <2>12 DEF CacheInOrder
        <4>2. \A m \in 1..CacheSize : recent[m] # r
          BY <2>1, <2>5, <2>12
        <4> SUFFICES ASSUME NEW m \in 1..CacheSize, NEW n \in 1..CacheSize,
                            recent'[m] = recent'[n]
                     PROVE  m = n
          OBVIOUS
        <4>3. \A k \in 1..CacheSize :
                 k = CacheSize \/ (k \in 1..(CacheSize - 1) /\ k + 1 \in 1..CacheSize)
          OBVIOUS
        <4>4. CASE m = CacheSize \/ n = CacheSize
          BY <2>9, <2>12, <4>2, <4>3, <4>4
        <4>5. CASE m # CacheSize /\ n # CacheSize
          <5>1. recent[m + 1] = recent[n + 1]
            BY <2>9, <2>12, <4>3, <4>5
          <5>2. m + 1 = n + 1
            BY <4>1, <4>3, <4>5, <5>1
          <5> QED BY <5>2
        <4> QED BY <4>4, <4>5
      <3>7. CASE c + 1 < CacheSize
        <4>1. cursor' = c + 1 /\ Len(recent') = CacheSize
          BY <2>8, <2>9, <2>12, <3>7
        <4>2. \A i \in Slots : i <= c + 1 => Holds(i, CacheSize - (c + 1) + i)'
          <5>1. \A i \in Slots : i <= c => CacheSize - (c + 1) + i = CacheSize - c - 1 + i
            BY DEF Slots
          <5>2. CacheSize - (c + 1) + (c + 1) = CacheSize
            OBVIOUS
          <5>3. \A i \in Slots : i <= c + 1 => i <= c \/ i = c + 1
            BY DEF Slots
          <5> QED BY <3>3, <3>4, <5>1, <5>2, <5>3
        <4> QED BY <3>5, <3>6, <4>1, <4>2 DEF CacheInOrder
      <3>8. CASE c + 1 = CacheSize
        <4>1. cursor' = 0 /\ Len(recent') = CacheSize
          BY <2>8, <2>9, <2>12, <3>8
        <4>2. \A i \in Slots : ~(i <= 0) /\ Holds(i, i - 0)'
          <5>1. \A i \in Slots : i <= c => CacheSize - c - 1 + i = i - 0
            BY <3>8 DEF Slots
          <5>2. \A i \in Slots : (i <= c \/ i = c + 1) /\ ~(i <= 0)
            BY <3>8 DEF Slots
          <5>3. CacheSize - 0 = c + 1
            BY <3>8
          <5> QED BY <3>3, <3>4, <3>8, <5>1, <5>2, <5>3
        <4> QED BY <3>6, <4>1, <4>2 DEF CacheInOrder
      <3> QED BY <2>7, <3>7, <3>8
    <2> QED BY <2>7, <2>11, <2>12
  <1> QED BY <1>1, <1>2

\* The cache holds exactly the CacheSize routes resolved last, each in one
\* entry: updateRouteCache evicts in the order of resolution, for every cache
\* size and every hash.
THEOREM CacheKeepsRecent == Spec => []CacheHoldsRecentRoutes
  <1>1. Init => CacheInOrder
    <2> SUFFICES ASSUME Init PROVE CacheInOrder
      OBVIOUS
    <2>1. recent = <<>> /\ cursor = 0 /\ \A i \in Slots : cache[i] = UnusedEntry
      BY DEF Init
    <2>2. Len(recent) = 0 /\ 0 # CacheSize /\ 0 < CacheSize
      BY <2>1
    <2> QED BY <2>1, <2>2 DEF CacheInOrder, Slots
  <1>2. RoutingInv /\ CacheInOrder /\ [Next]_vars => CacheInOrder'
    <2> SUFFICES ASSUME RoutingInv, CacheInOrder, [Next]_vars PROVE CacheInOrder'
      OBVIOUS
    <2>1. TypeOK
      BY DEF RoutingInv
    <2>2. CASE \E q \in Routes : registerMethodByMode(q)
      BY <2>2, OrderKept DEF registerMethodByMode
    <2>3. CASE \E s \in Services : registerService(s)
      BY <2>3, OrderKept DEF registerService
    <2>4. CASE StartServing
      BY <2>4, OrderKept DEF StartServing
    <2>5. ASSUME NEW r \in Routes, RouteHit(r) PROVE CacheInOrder'
      BY <2>5, OrderKept DEF RouteHit
    <2>6. ASSUME NEW r \in Routes, RouteMiss(r) PROVE CacheInOrder'
      BY <2>1, <2>6, OrderMiss
    <2>7. CASE UNCHANGED vars
      BY <2>7, OrderKept DEF vars
    <2> QED BY <2>2, <2>3, <2>4, <2>5, <2>6, <2>7 DEF Next
  <1>3. RoutingInv /\ CacheInOrder => CacheHoldsRecentRoutes
    <2> SUFFICES ASSUME TypeOK, CacheInOrder PROVE CacheHoldsRecentRoutes
      BY DEF RoutingInv
    <2> DEFINE used == {i \in Slots : cache[i].handler # NoHandler}
    <2>1. \A i \in used : \E n \in 1..Len(recent) : Holds(i, n)
      BY SlotInOrder DEF UnusedEntry
    <2>2. \A n \in 1..Len(recent) : \E i \in used : cache[i].route = recent[n]
      BY RecentIsCached DEF Holds
    <2>3. {cache[i].route : i \in used} = {recent[n] : n \in 1..Len(recent)}
      <3>1. ASSUME NEW x \in {cache[i].route : i \in used}
            PROVE  x \in {recent[n] : n \in 1..Len(recent)}
        BY <2>1, <3>1 DEF Holds
      <3>2. ASSUME NEW x \in {recent[n] : n \in 1..Len(recent)}
            PROVE  x \in {cache[i].route : i \in used}
        BY <2>2, <3>2
      <3> QED BY <3>1, <3>2
    <2>4. ASSUME NEW i \in used, NEW j \in used, cache[i].route = cache[j].route PROVE i = j
      <3>1. PICK l \in Nat : l = Len(recent)
        BY DEF TypeOK
      <3>2. PICK c \in Nat : c = cursor
        BY DEF TypeOK
      <3> DEFINE place(k) == IF k <= c THEN l - c + k ELSE k - c
      <3>3. \A k \in used : Holds(k, place(k)) /\ (k > c => l = CacheSize)
        <4> SUFFICES ASSUME NEW k \in used
                     PROVE  Holds(k, place(k)) /\ (k > c => l = CacheSize)
          OBVIOUS
        <4>1. k \in Slots /\ k \in Int /\ cache[k] # UnusedEntry
          BY DEF UnusedEntry, Slots
        <4>2. CASE k <= c
          BY <3>1, <3>2, <4>1, <4>2 DEF CacheInOrder
        <4>3. CASE k > c
          BY <3>1, <3>2, <4>1, <4>3 DEF CacheInOrder
        <4> QED BY <4>1, <4>2, <4>3
      <3>4. /\ place(i) \in 1..l /\ cache[i].route = recent[place(i)]
            /\ place(j) \in 1..l /\ cache[j].route = recent[place(j)]
        BY <3>1, <3>3 DEF Holds
      <3>5. place(i) = place(j)
        <4> HIDE DEF place
        <4> QED BY <2>4, <3>1, <3>4 DEF CacheInOrder
      <3>6. i \in 1..CacheSize /\ j \in 1..CacheSize
        BY DEF Slots
      <3>7. /\ i > c => l = CacheSize
            /\ j > c => l = CacheSize
        BY <3>3
      <3> QED BY <3>4, <3>5, <3>6, <3>7
    <2> QED BY <2>3, <2>4 DEF CacheHoldsRecentRoutes
  <1> QED BY Routing, <1>1, <1>2, <1>3, PTL DEF Spec

-----------------------------------------------------------------------------
(* RpcServerLifecycle.                                                       *)

Setups == {"reuseaddr", "nonblock", "bind", "listen"}

\* The types, without the bounds that CountsInv implies.
BaseTypes ==
    /\ owner \in {"new", "starting", "up", "stopping", "gone"}
    /\ running \in BOOLEAN /\ runtime \in {"off", "on", "stopped"}
    /\ loop \in Places \cup Setups
    /\ lastError \in Errors \cup Setups
    /\ listening \in BOOLEAN
    /\ waiting \in Nat /\ clients \in Nat /\ accepted \in Nat
    /\ handlers \in Nat /\ closed \in Nat /\ late \in Nat

\* Every client is in the backlog or was accepted, and ConnectionsAccounted.
CountsInv ==
    /\ clients = waiting + accepted /\ clients <= MaxClients
    /\ late <= accepted
    /\ ConnectionsAccounted

\* Where the owner is, what m_running says and where the loop is.
OwnerInv ==
    /\ owner \in {"new", "starting"} => loop = "none"
    /\ running => owner \in {"starting", "up"}
    /\ owner = "starting" => running
    /\ loop = "closing" => ~running
    /\ owner = "up" /\ ~running => loop = "none"
    /\ owner = "up" /\ loop = "none" => runtime = "stopped"
    /\ SilentServerHasError

\* A connection is late only when the loop has left accept() for good.
LateInv ==
    /\ running => late = 0
    /\ loop \notin {"placing", "dropping", "closing", "ended"} => late = 0
    /\ AtMostOneAfterStop

LifecycleInv == BaseTypes /\ CountsInv /\ OwnerInv /\ LateInv

-----------------------------------------------------------------------------
\* The stages of the listener one by one.
LEMMA StagesFacts ==
    /\ Len(Stages) = 4 /\ 1..Len(Stages) = {1, 2, 3, 4}
    /\ Stages[1] = "reuseaddr" /\ Stages[2] = "nonblock"
    /\ Stages[3] = "bind" /\ Stages[4] = "listen"
    /\ {Stages[k] : k \in 1..Len(Stages)} = Setups
<1>1. /\ Len(Stages) = 4
      /\ Stages[1] = "reuseaddr" /\ Stages[2] = "nonblock"
      /\ Stages[3] = "bind" /\ Stages[4] = "listen"
  BY DEF Stages
<1>2. 1..Len(Stages) = {1, 2, 3, 4}
  BY <1>1
<1>3. {Stages[k] : k \in 1..Len(Stages)} = Setups
  BY <1>1, <1>2 DEF Setups
<1> QED
  BY <1>1, <1>2, <1>3

\* What the named steps of the listener's set-up do to the loop.
LEMMA SetupFacts ==
    ASSUME NEW k \in 1..Len(Stages)
    PROVE  /\ Stages[k] \in Setups
           /\ (k < Len(Stages) => Stages[k + 1] \in Setups)
<1>1. k \in {1, 2, 3, 4}
  BY StagesFacts
<1>2. CASE k = 1
  BY <1>2, StagesFacts DEF Setups
<1>3. CASE k = 2
  BY <1>3, StagesFacts DEF Setups
<1>4. CASE k = 3
  BY <1>4, StagesFacts DEF Setups
<1>5. CASE k = 4
  BY <1>5, StagesFacts DEF Setups
<1> QED
  BY <1>1, <1>2, <1>3, <1>4, <1>5

-----------------------------------------------------------------------------
\* A new server satisfies the invariant.
LEMMA LifecycleInit == ServerInit => LifecycleInv
<1>1. ServerInit => BaseTypes
  <2>1. ServerInit =>
                /\ waiting \in Nat /\ clients \in Nat /\ accepted \in Nat
                /\ handlers \in Nat /\ closed \in Nat /\ late \in Nat
    BY DEF ServerInit
  <2>2. ServerInit =>
                /\ owner \in {"new", "starting", "up", "stopping", "gone"}
                /\ runtime \in {"off", "on", "stopped"}
                /\ loop \in Places \cup Setups
                /\ lastError \in Errors \cup Setups
    BY DEF ServerInit, Places, Errors, Setups
  <2>3. ServerInit => running \in BOOLEAN /\ listening \in BOOLEAN
    BY Zenon DEF ServerInit
  <2> QED
    BY <2>1, <2>2, <2>3, Zenon DEF BaseTypes
<1>2. ServerInit => OwnerInv
  BY DEF ServerInit, OwnerInv, SilentServerHasError
<1>3. ServerInit => LateInv
  BY DEF ServerInit, LateInv, AtMostOneAfterStop
<1>4. ServerInit => CountsInv
  BY LifecycleAssumption DEF ServerInit, CountsInv, ConnectionsAccounted
<1> QED
  BY <1>1, <1>2, <1>3, <1>4 DEF LifecycleInv

\* Steps of the owner keep it.
LEMMA LifecycleOwner == LifecycleInv /\ Owner => LifecycleInv'
<1> SUFFICES ASSUME LifecycleInv, Owner
             PROVE  LifecycleInv'
  OBVIOUS
<1> USE DEF LifecycleInv, BaseTypes, CountsInv, OwnerInv, LateInv, ConnectionsAccounted,
            SilentServerHasError, AtMostOneAfterStop,
            Places, Errors, Setups,
            ownerVars, connVars
<1>1. CASE start
  BY <1>1 DEF start
<1>2. CASE ScheduleLoop
  BY <1>2 DEF ScheduleLoop
<1>3. CASE ScheduleLoopFail
  BY <1>3 DEF ScheduleLoopFail
<1>4. CASE stop
  <2>1. /\ owner = "up" /\ running' = FALSE /\ owner' \in {"stopping", "gone"}
        /\ UNCHANGED <<runtime, loop, lastError, connVars>>
    BY <1>4 DEF stop
  <2>2. BaseTypes'
    <3>1. running' \in BOOLEAN
      BY <2>1, Zenon
    <3> QED
      BY <2>1, <3>1
  <2>3. OwnerInv'
    BY <2>1
  <2>4. CountsInv' /\ LateInv'
    BY <2>1
  <2> QED
    BY <2>2, <2>3, <2>4
<1>5. CASE RuntimeStop
  BY <1>5 DEF RuntimeStop
<1> QED
  BY <1>1, <1>2, <1>3, <1>4, <1>5 DEF Owner

\* Steps of the accept loop keep it.
LEMMA LifecycleLoop == LifecycleInv /\ Loop => LifecycleInv'
<1> SUFFICES ASSUME LifecycleInv, Loop
             PROVE  LifecycleInv'
  OBVIOUS
<1> USE DEF LifecycleInv, BaseTypes, CountsInv, OwnerInv, LateInv, ConnectionsAccounted,
            SilentServerHasError, AtMostOneAfterStop,
            Places, Errors, Setups,
            ownerVars, connVars, At, While,
            MayRecord
<1>1. CASE ResetError
  BY <1>1, StagesFacts DEF ResetError
<1>2. CASE \E k \in 1..Len(Stages) : Setup(k)
  <2>1. PICK k \in 1..Len(Stages) : Setup(k)
    BY <1>2
  <2>2. /\ loop \in Setups
        /\ loop' \in Setups \/ loop' = While
        /\ listening' \in BOOLEAN
        /\ UNCHANGED <<ownerVars, lastError, waiting, clients, accepted,
                       handlers, closed, late>>
    BY <2>1, SetupFacts DEF Setup
  <2> QED
    BY <2>2
<1>3. CASE \E k \in 1..Len(Stages) : SetupFail(k)
  <2>1. PICK k \in 1..Len(Stages) : SetupFail(k)
    BY <1>3
  <2>2. /\ loop \in Setups /\ loop' = "ended" /\ lastError' \in Setups
        /\ UNCHANGED <<ownerVars, connVars>>
    BY <2>1, SetupFacts DEF SetupFail
  <2> QED
    BY <2>2
<1>4. CASE Accept
  BY <1>4 DEF Accept
<1>5. CASE AcceptFail
  BY <1>5 DEF AcceptFail
<1>6. CASE Place
  BY <1>6 DEF Place
<1>7. CASE PlaceFail
  BY <1>7 DEF PlaceFail
<1>8. CASE Drop
  BY <1>8 DEF Drop
<1>9. CASE CloseListener
  BY <1>9 DEF CloseListener
<1> QED
  BY <1>1, <1>2, <1>3, <1>4, <1>5, <1>6, <1>7, <1>8, <1>9 DEF Loop

\* So do clients that connect and connections that end.
LEMMA LifecycleOthers == LifecycleInv /\ (ClientConnects \/ HandlerEnds) => LifecycleInv'
<1> SUFFICES ASSUME LifecycleInv, ClientConnects \/ HandlerEnds
             PROVE  LifecycleInv'
  OBVIOUS
<1> USE LifecycleAssumption
        DEF LifecycleInv, BaseTypes, CountsInv, OwnerInv, LateInv, ConnectionsAccounted,
        SilentServerHasError, AtMostOneAfterStop,
        Places, Errors, Setups,
        ownerVars, connVars, MayRecord
<1>1. CASE ClientConnects
  BY <1>1 DEF ClientConnects
<1>2. CASE HandlerEnds
  BY <1>2 DEF HandlerEnds
<1> QED
  BY <1>1, <1>2

\* The invariant holds in every state of every server, whatever MaxClients is.
THEOREM LifecycleInvariant == ServerSpec => []LifecycleInv
<1>1. LifecycleInv /\ [ServerNext]_serverVars => LifecycleInv'
  <2>1. LifecycleInv /\ ServerNext => LifecycleInv'
    BY LifecycleOwner, LifecycleLoop, LifecycleOthers DEF ServerNext
  <2>2. LifecycleInv /\ UNCHANGED serverVars => LifecycleInv'
    BY DEF LifecycleInv, BaseTypes, CountsInv, OwnerInv, LateInv, ConnectionsAccounted,
           SilentServerHasError, AtMostOneAfterStop, serverVars,
           ownerVars, connVars
  <2> QED
    BY <2>1, <2>2
<1> QED
  BY LifecycleInit, <1>1, PTL DEF ServerSpec

-----------------------------------------------------------------------------
\* Every variable keeps its type; no counter exceeds the number of clients.
THEOREM LifecycleTypeCorrect == ServerSpec => []ServerTypeOK
<1>1. LifecycleInv => ServerTypeOK
  <2> SUFFICES ASSUME LifecycleInv
               PROVE  ServerTypeOK
    OBVIOUS
  <2>1. /\ waiting \in 0..MaxClients /\ clients \in 0..MaxClients
        /\ accepted \in 0..MaxClients /\ late \in 0..MaxClients
    BY LifecycleAssumption DEF LifecycleInv, BaseTypes, CountsInv
  <2>2. handlers \in 0..MaxClients /\ closed \in 0..MaxClients
    BY LifecycleAssumption DEF LifecycleInv, BaseTypes, CountsInv, ConnectionsAccounted
  <2>3. {waiting, clients, accepted, handlers, closed, late} \subseteq 0..MaxClients
    BY <2>1, <2>2
  <2> QED
    BY <2>3, StagesFacts DEF LifecycleInv, BaseTypes, ServerTypeOK
<1> QED
  BY LifecycleInvariant, <1>1, PTL

\* No connection that accept() returned is forgotten, also when it cannot be
\* scheduled.
THEOREM LifecycleAccounts == ServerSpec => []ConnectionsAccounted
<1>1. LifecycleInv => ConnectionsAccounted
  BY DEF LifecycleInv, CountsInv
<1> QED
  BY LifecycleInvariant, <1>1, PTL

\* A started server without an accept loop has its reason in m_last_error.
THEOREM LifecycleSaysWhy == ServerSpec => []SilentServerHasError
<1>1. LifecycleInv => SilentServerHasError
  BY DEF LifecycleInv, OwnerInv
<1> QED
  BY LifecycleInvariant, <1>1, PTL

\* stop() lets the loop accept one more connection and no further one.
THEOREM LifecycleStops == ServerSpec => []AtMostOneAfterStop
<1>1. LifecycleInv => AtMostOneAfterStop
  BY DEF LifecycleInv, LateInv
<1> QED
  BY LifecycleInvariant, <1>1, PTL
=============================================================================
