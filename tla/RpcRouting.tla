------------------------------ MODULE RpcRouting ------------------------------
(***************************************************************************)
(* How the server finds the handler of a request: the method tables of the *)
(* services (RpcService), the service table of the server, and the small   *)
(* route cache every connection keeps in front of them (RpcServer).        *)
(*                                                                         *)
(* Services are registered before the server starts, as every use of the   *)
(* repository does; a handler pointer then stays valid for the server's    *)
(* life and the cache needs no invalidation.                               *)
(***************************************************************************)
EXTENDS Integers, Sequences

CONSTANTS
    Services,       \* service names
    Methods,        \* method names
    EmptyName,      \* the empty string, a name like any other to the cache
    CacheSize,      \* kRouteCacheSize
    Hash            \* buildRouteHash: 64-bit FNV, so routes may collide

Modes == {"UNARY", "CLIENT_STREAMING", "SERVER_STREAMING", "BIDI_STREAMING"}

\* What a request is routed by.
Routes == [service : Services, method : Methods, mode : Modes]

EmptyRoute == [service |-> EmptyName, method |-> EmptyName, mode |-> "UNARY"]

ASSUME RoutesAssumption == EmptyName \in Services /\ EmptyName \in Methods
ASSUME CacheSizeAssumption == CacheSize \in Nat \ {0}

\* FNV's steps are invertible, and the hash of the empty route is not 0, the
\* hash of an unused cache entry.
ASSUME HashAssumption == Hash \in [Routes -> Nat] /\ Hash[EmptyRoute] # 0

VARIABLES
    registered,     \* the routes the services were asked to register
    unaryMethods,   \* m_unary_methods of every service
    streamSlots,    \* the filled slots of m_stream_methods of every service
    services,       \* m_services of the server
    serving,        \* the connection is being served
    cache,          \* route_cache
    cursor,         \* route_cache_cursor
    lastHit,        \* last_hit, 0 for a null pointer
    answer,         \* how the last request was routed
    recent          \* the routes resolved last, at most CacheSize

registryVars == <<registered, unaryMethods, streamSlots, services>>
vars == <<registryVars, serving, cache, cursor, lastHit, answer, recent>>

-----------------------------------------------------------------------------
(* The service tables.                                                       *)

\* Mutant: two streaming modes share a slot.
streamModeIndexShared(mode) == CASE mode = "CLIENT_STREAMING" -> 0
                                 [] mode = "SERVER_STREAMING" -> 1
                                 [] mode = "BIDI_STREAMING"   -> 0

\* kStreamRpcModeCount slots per streaming method.
streamModeIndex(mode) == CASE mode = "CLIENT_STREAMING" -> 0
                           [] mode = "SERVER_STREAMING" -> 1
                           [] mode = "BIDI_STREAMING"   -> 2

\* A handler is known by its address: the service, the method's node in the
\* table, and the slot in it (3 stands for the unary table).
Handlers == [service : Services, method : Methods, slot : 0..3]
NoHandler == [service |-> EmptyName, method |-> EmptyName, slot |-> 4]

\* RpcService::findMethod(method, mode) of the service named r.service.
findMethod(r) ==
    IF r.mode = "UNARY"
    THEN IF <<r.service, r.method>> \in unaryMethods
         THEN [service |-> r.service, method |-> r.method, slot |-> 3]
         ELSE NoHandler
    ELSE IF <<r.service, r.method, streamModeIndex(r.mode)>> \in streamSlots
         THEN [service |-> r.service, method |-> r.method,
               slot |-> streamModeIndex(r.mode)]
         ELSE NoHandler

resolveMethodHandler(r) ==
    [code |-> IF r.service \notin services THEN "SERVICE_NOT_FOUND"
              ELSE IF findMethod(r) = NoHandler THEN "METHOD_NOT_FOUND" ELSE "OK",
     handler |-> IF r.service \notin services THEN NoHandler ELSE findMethod(r)]

-----------------------------------------------------------------------------
(* The route cache of a connection.                                          *)

Slots == 1..CacheSize
Entries == [hash : Nat, route : Routes, handler : Handlers \cup {NoHandler}]
UnusedEntry == [hash |-> 0, route |-> EmptyRoute, handler |-> NoHandler]

\* Mutant: the hash alone identifies the route.
routeCacheHashMatch(entry, r) == entry.hash = Hash[r]

routeCacheKeyMatch(entry, r) == entry.hash = Hash[r] /\ entry.route = r
routeCacheHit(entry, r) == entry.handler # NoHandler /\ routeCacheKeyMatch(entry, r)

FirstSlot(S) == CHOOSE i \in S : \A j \in S : i <= j

\* findCachedHandler: the slot that answers, 0 when there is none.
findCachedSlot(r) ==
    LET hits == {i \in Slots : routeCacheHit(cache[i], r)} IN
    IF lastHit # 0 /\ lastHit \in hits THEN lastHit
    ELSE IF hits # {} THEN FirstSlot(hits) ELSE 0

\* Mutant: the cursor stays where it is.
updateRouteCacheStuck(r, handler) ==
    /\ cache' = [cache EXCEPT ![cursor + 1] =
                     [hash |-> Hash[r], route |-> r, handler |-> handler]]
    /\ lastHit' = cursor + 1
    /\ UNCHANGED cursor

\* updateRouteCache: into the entry of the same route, else over the oldest.
updateRouteCache(r, handler) ==
    LET matches == {i \in Slots : routeCacheKeyMatch(cache[i], r)} IN
    IF matches # {}
    THEN /\ cache' = [cache EXCEPT ![FirstSlot(matches)].handler = handler]
         /\ lastHit' = FirstSlot(matches)
         /\ UNCHANGED cursor
    ELSE /\ cache' = [cache EXCEPT ![cursor + 1] =
                         [hash |-> Hash[r], route |-> r, handler |-> handler]]
         /\ lastHit' = cursor + 1
         /\ cursor' = (cursor + 1) % CacheSize

-----------------------------------------------------------------------------
Init ==
    /\ registered = {} /\ unaryMethods = {} /\ streamSlots = {} /\ services = {}
    /\ serving = FALSE
    /\ cache = [i \in Slots |-> UnusedEntry]
    /\ cursor = 0 /\ lastHit = 0
    /\ answer = [route |-> EmptyRoute, code |-> "NONE", handler |-> NoHandler]
    /\ recent = <<>>

\* RpcService::registerMethodByMode, behind every register...Method.
registerMethodByMode(r) ==
    /\ ~serving
    /\ registered' = registered \cup {r}
    /\ IF r.mode = "UNARY"
       THEN /\ unaryMethods' = unaryMethods \cup {<<r.service, r.method>>}
            /\ UNCHANGED streamSlots
       ELSE /\ streamSlots' = streamSlots \cup
                   {<<r.service, r.method, streamModeIndex(r.mode)>>}
            /\ UNCHANGED unaryMethods
    /\ UNCHANGED <<services, serving, cache, cursor, lastHit, answer, recent>>

\* RpcServer::registerService.
registerService(s) ==
    /\ ~serving
    /\ services' = services \cup {s}
    /\ UNCHANGED <<registered, unaryMethods, streamSlots, serving, cache, cursor,
                   lastHit, answer, recent>>

\* The server is started and a client connects.
StartServing ==
    /\ ~serving /\ serving' = TRUE
    /\ UNCHANGED <<registryVars, cache, cursor, lastHit, answer, recent>>

\* handleConnection routes one request: the cache answers ...
RouteHit(r) ==
    /\ serving
    /\ findCachedSlot(r) # 0
    /\ lastHit' = findCachedSlot(r)
    /\ answer' = [route |-> r, code |-> "OK",
                  handler |-> cache[findCachedSlot(r)].handler]
    /\ UNCHANGED <<registryVars, serving, cache, cursor, recent>>

\* ... or the tables do, and a handler found there is cached.
RouteMiss(r) ==
    LET found == resolveMethodHandler(r) IN
    /\ serving
    /\ findCachedSlot(r) = 0
    /\ answer' = [route |-> r, code |-> found.code, handler |-> found.handler]
    /\ IF found.code = "OK"
       THEN /\ updateRouteCache(r, found.handler)
            /\ recent' = LET s == Append(recent, r) IN
                         IF Len(s) > CacheSize THEN Tail(s) ELSE s
       ELSE UNCHANGED <<cache, cursor, lastHit, recent>>
    /\ UNCHANGED <<registryVars, serving>>

Next ==
    \/ \E r \in Routes : registerMethodByMode(r)
    \/ \E s \in Services : registerService(s)
    \/ StartServing
    \/ \E r \in Routes : RouteHit(r) \/ RouteMiss(r)

Spec == Init /\ [][Next]_vars

-----------------------------------------------------------------------------
(* Properties.                                                               *)

Codes == {"NONE", "OK", "SERVICE_NOT_FOUND", "METHOD_NOT_FOUND"}

\* Every variable has its type; last_hit and the cursor stay in the cache.
TypeOK ==
    /\ registered \subseteq Routes
    /\ unaryMethods \subseteq Services \X Methods
    /\ streamSlots \subseteq Services \X Methods \X (0..2)
    /\ services \subseteq Services
    /\ serving \in BOOLEAN
    /\ cache \in [Slots -> Entries]
    /\ cursor \in 0..(CacheSize - 1)
    /\ lastHit \in 0..CacheSize
    /\ answer \in [route : Routes, code : Codes, handler : Handlers \cup {NoHandler}]
    /\ recent \in Seq(Routes)

\* The answer the registrations alone call for.
ExpectedCode(r) == IF r.service \notin services THEN "SERVICE_NOT_FOUND"
                   ELSE IF r \notin registered THEN "METHOD_NOT_FOUND" ELSE "OK"

\* Whatever the order of the requests, the hash collisions and the evictions,
\* a request is routed to its own service and method in its own mode exactly
\* when that was registered, and refused with the right code otherwise.
RoutedAsRegistered ==
    answer.code # "NONE" =>
        /\ answer.code = ExpectedCode(answer.route)
        /\ answer.code = "OK" => /\ answer.handler = findMethod(answer.route)
                                 /\ answer.handler.service = answer.route.service
                                 /\ answer.handler.method = answer.route.method

\* No request can be answered from the cache with a handler the tables would
\* not give, through last_hit or through the scan.
CacheAgreesWithTables ==
    \A r \in Routes : findCachedSlot(r) # 0 =>
        /\ resolveMethodHandler(r).code = "OK"
        /\ cache[findCachedSlot(r)].handler = resolveMethodHandler(r).handler

\* The cache holds exactly the CacheSize routes resolved last: none is lost
\* early and none occupies two entries.
CacheHoldsRecentRoutes ==
    LET used == {i \in Slots : cache[i].handler # NoHandler} IN
    /\ {cache[i].route : i \in used} = {recent[n] : n \in 1..Len(recent)}
    /\ \A i, j \in used : cache[i].route = cache[j].route => i = j

-----------------------------------------------------------------------------
(* The inductive invariant.                                                  *)

\* A route is found in the method tables exactly when it was registered, in
\* spite of the slots streaming modes share a table node with.
TablesHoldRegistrations ==
    \A r \in Routes : r \in registered <=> findMethod(r) # NoHandler

\* A cached handler is the one the tables give for the entry's route.
EntriesResolve ==
    \A i \in Slots : cache[i].handler # NoHandler =>
        /\ cache[i].route.service \in services
        /\ cache[i].handler = findMethod(cache[i].route)

\* The inductive invariant of routing: tables, cache and last answer agree.
RoutingInv ==
    /\ TypeOK
    /\ TablesHoldRegistrations
    /\ EntriesResolve
    /\ ~serving => /\ \A i \in Slots : cache[i].handler = NoHandler
                   /\ answer.code = "NONE"
    /\ RoutedAsRegistered
=============================================================================
