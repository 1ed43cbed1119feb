--------------------------- MODULE RpcAsyncRegistry ---------------------------
(***************************************************************************)
(* AsyncLocalServiceRegistry: coroutines that register, deregister, look   *)
(* up, watch and unwatch services under one AsyncMutex.  The result of an  *)
(* operation is left in two members, m_last_error and m_last_endpoints,    *)
(* that its caller reads once the coroutine has returned.                  *)
(*                                                                         *)
(* AsyncMutex is not in the repository: lock() returns to one coroutine at *)
(* a time, or fails.  Coroutines run on several threads, so one may be     *)
(* between the end of its operation and the read of its result while       *)
(* another one works.                                                      *)
(***************************************************************************)
EXTENDS Integers, Sequences, FiniteSets, SequencesExt

CONSTANTS
    Services, Ids, Hosts, Watchers,     \* see RpcRegistry
    Coros,      \* coroutines that share the registry
    NoCoro,     \* none of them
    MaxOps      \* bound: operations of one coroutine

ASSUME AsyncRegistryAssumption ==
    NoCoro \notin Coros /\ MaxOps \in Nat /\ Services # {}

VARIABLES
    services, watchers, mirror,     \* see RpcRegistry
    holder,         \* who has m_mutex
    pc,             \* each coroutine: "idle", "lock", "work", "report" or "read"
    op,             \* its operation
    alone,          \* whether no other operation overlapped with it
    outcome,        \* how its operation went
    left,           \* operations it may still begin
    lastError,      \* m_last_error
    lastEndpoints,  \* m_last_endpoints
    told            \* registrations minus deregistrations that reported success

registryVars == <<services, watchers, mirror>>
memberVars == <<lastError, lastEndpoints>>
callVars == <<op, alone, left>>
vars == <<registryVars, memberVars, callVars, holder, pc, outcome, told>>

\* The registry of a single thread.
Local == INSTANCE RpcRegistry

Endpoints == [service : Services, id : Ids, host : Hosts]
Operations ==
    [name : {"register", "deregister"}, ep : Endpoints]
        \cup [name : {"discover", "unwatch"}, s : Services]
        \cup [name : {"watch"}, s : Services, w : Watchers]

NoOutcome == [error |-> "OK", endpoints |-> <<>>]
NoOp == [name |-> "unwatch", s |-> CHOOSE s \in Services : TRUE]

Init ==
    /\ services = [s \in Services |-> <<>>] /\ watchers = [s \in Services |-> <<>>]
    /\ mirror = [w \in Watchers |-> <<>>]
    /\ holder = NoCoro /\ pc = [c \in Coros |-> "idle"]
    /\ op = [c \in Coros |-> NoOp]
    /\ alone = [c \in Coros |-> TRUE]
    /\ outcome = [c \in Coros |-> NoOutcome]
    /\ left = [c \in Coros |-> MaxOps]
    /\ lastError = "OK" /\ lastEndpoints = <<>>
    /\ told = [s \in Services |-> [i \in Ids |-> 0]]

\* The coroutine of an operation starts.  A callback is only given away once.
Begin(c, o) ==
    /\ pc[c] = "idle" /\ left[c] > 0
    /\ o.name = "watch" =>
          /\ Local!Unused(o.w)
          /\ \A d \in Coros : pc[d] # "idle" /\ op[d].name = "watch" => op[d].w # o.w
    /\ pc' = [pc EXCEPT ![c] = "lock"] /\ op' = [op EXCEPT ![c] = o]
    /\ left' = [left EXCEPT ![c] = @ - 1]
    /\ alone' = [d \in Coros |-> IF d = c THEN \A e \in Coros \ {c} : pc[e] = "idle"
                                 ELSE alone[d] /\ pc[d] = "idle"]
    /\ UNCHANGED <<registryVars, memberVars, holder, outcome, told>>

\* co_await m_mutex.lock().
Lock(c) ==
    /\ pc[c] = "lock" /\ holder = NoCoro
    /\ holder' = c /\ pc' = [pc EXCEPT ![c] = "work"]
    /\ UNCHANGED <<registryVars, memberVars, callVars, outcome, told>>

\* lock() fails: the members are set without the lock.
LockFail(c) ==
    /\ pc[c] = "lock"
    /\ pc' = [pc EXCEPT ![c] = "read"]
    /\ outcome' = [outcome EXCEPT ![c] = [error |-> "LOCK_TIMEOUT", endpoints |-> <<>>]]
    /\ lastError' = "LOCK_TIMEOUT"
    /\ lastEndpoints' = IF op[c].name = "discover" THEN <<>> ELSE lastEndpoints
    /\ UNCHANGED <<registryVars, holder, callVars, told>>

\* The operation has done its work under the lock.
Worked(c, result) ==
    /\ pc' = [pc EXCEPT ![c] = "report"]
    /\ outcome' = [outcome EXCEPT ![c] = result]
    /\ UNCHANGED <<holder, callVars, lastError>>

\* The work of op[c], up to the assignment of m_last_error.
Working(c, name) == pc[c] = "work" /\ op[c].name = name

\* The callbacks of the service are called under the lock.
Notify(type, ep) ==
    mirror' = [w \in Watchers |->
        IF w \in Local!Watching(ep.service)
        THEN Local!Applied(mirror[w], [type |-> type, endpoint |-> ep]) ELSE mirror[w]]

SameId(ep, e) == e.id = ep.id

\* told counts what the callers will be told.
Tell(ep, n) == told' = [told EXCEPT ![ep.service][ep.id] = @ + n]

registerServiceAsync(c) ==
    /\ Working(c, "register")
    /\ LET ep == op[c].ep IN
       /\ services' = [services EXCEPT ![ep.service] = Append(@, ep)]
       /\ Notify("ADDED", ep) /\ Tell(ep, 1)
    /\ Worked(c, NoOutcome) /\ UNCHANGED <<watchers, lastEndpoints>>

\* Mutant: the callbacks are given the endpoint of the caller.
deregisterAsGiven(c) ==
    /\ Working(c, "deregister")
    /\ LET ep == op[c].ep
           at == SelectInSeq(services[ep.service], LAMBDA e : SameId(ep, e))
       IN /\ at # 0
          /\ services' = [services EXCEPT ![ep.service] = RemoveAt(@, at)]
          /\ Notify("REMOVED", ep) /\ Tell(ep, -1)
    /\ Worked(c, NoOutcome) /\ UNCHANGED <<watchers, lastEndpoints>>

\* Mutant: every instance with the id goes, in one event.
deregisterAll(c) ==
    /\ Working(c, "deregister")
    /\ LET ep == op[c].ep
           at == SelectInSeq(services[ep.service], LAMBDA e : SameId(ep, e))
       IN /\ at # 0
          /\ services' = [services EXCEPT ![ep.service] =
                             SelectSeq(@, LAMBDA e : ~SameId(ep, e))]
          /\ Notify("REMOVED", services[ep.service][at]) /\ Tell(ep, -1)
    /\ Worked(c, NoOutcome) /\ UNCHANGED <<watchers, lastEndpoints>>

deregisterServiceAsync(c) ==
    /\ Working(c, "deregister")
    /\ LET ep == op[c].ep
           at == SelectInSeq(services[ep.service], LAMBDA e : SameId(ep, e))
       IN /\ at # 0
          /\ services' = [services EXCEPT ![ep.service] = RemoveAt(@, at)]
          /\ Notify("REMOVED", services[ep.service][at]) /\ Tell(ep, -1)
    /\ Worked(c, NoOutcome) /\ UNCHANGED <<watchers, lastEndpoints>>

\* Mutant: an instance that is not there counts as deregistered.
DeregisterMissingIsFine(c) ==
    /\ Working(c, "deregister") /\ ~Local!Found(op[c].ep)
    /\ Worked(c, NoOutcome) /\ Tell(op[c].ep, -1)
    /\ UNCHANGED <<registryVars, lastEndpoints>>

\* Mutant: the early return leaves the mutex locked.
DeregisterMissingKeepsLock(c) ==
    /\ Working(c, "deregister") /\ ~Local!Found(op[c].ep)
    /\ pc' = [pc EXCEPT ![c] = "read"] /\ lastError' = "NOT_FOUND"
    /\ outcome' = [outcome EXCEPT ![c] = [error |-> "NOT_FOUND", endpoints |-> <<>>]]
    /\ UNCHANGED <<registryVars, lastEndpoints, holder, callVars, told>>

\* There is no such service or no such instance.
DeregisterMissing(c) ==
    /\ Working(c, "deregister") /\ ~Local!Found(op[c].ep)
    /\ Worked(c, [error |-> "NOT_FOUND", endpoints |-> <<>>])
    /\ UNCHANGED <<registryVars, lastEndpoints, told>>

discoverServiceAsync(c) ==
    /\ Working(c, "discover")
    /\ lastEndpoints' = services[op[c].s]
    /\ Worked(c, [error |-> "OK", endpoints |-> services[op[c].s]])
    /\ UNCHANGED <<registryVars, told>>

watchServiceAsync(c) ==
    /\ Working(c, "watch")
    /\ watchers' = [watchers EXCEPT ![op[c].s] = Append(@, op[c].w)]
    /\ mirror' = [mirror EXCEPT ![op[c].w] = services[op[c].s]]
    /\ Worked(c, NoOutcome) /\ UNCHANGED <<services, lastEndpoints, told>>

unwatchServiceAsync(c) ==
    /\ Working(c, "unwatch")
    /\ watchers' = [watchers EXCEPT ![op[c].s] = <<>>]
    /\ mirror' = [w \in Watchers |->
                    IF w \in Local!Watching(op[c].s) THEN <<>> ELSE mirror[w]]
    /\ Worked(c, NoOutcome) /\ UNCHANGED <<services, lastEndpoints, told>>

\* Mutant: only errors are reported.
ReportErrorsOnly(c) ==
    /\ pc[c] = "report"
    /\ lastError' = IF outcome[c].error = "OK" THEN lastError ELSE outcome[c].error
    /\ holder' = NoCoro /\ pc' = [pc EXCEPT ![c] = "read"]
    /\ UNCHANGED <<registryVars, lastEndpoints, callVars, outcome, told>>

\* m_last_error is assigned and the mutex unlocked, on every path.
Report(c) ==
    /\ pc[c] = "report"
    /\ lastError' = outcome[c].error
    /\ holder' = NoCoro /\ pc' = [pc EXCEPT ![c] = "read"]
    /\ UNCHANGED <<registryVars, lastEndpoints, callVars, outcome, told>>

\* The caller reads lastError() and lastEndpoints() and is done.
ReadLast(c) ==
    /\ pc[c] = "read"
    /\ pc' = [pc EXCEPT ![c] = "idle"] /\ op' = [op EXCEPT ![c] = NoOp]
    /\ outcome' = [outcome EXCEPT ![c] = NoOutcome]
    /\ UNCHANGED <<registryVars, memberVars, holder, alone, left, told>>

Work(c) ==
    \/ registerServiceAsync(c) \/ deregisterServiceAsync(c) \/ DeregisterMissing(c)
    \/ discoverServiceAsync(c) \/ watchServiceAsync(c) \/ unwatchServiceAsync(c)

Step(c) == Lock(c) \/ Work(c) \/ Report(c) \/ ReadLast(c)

Next == \E c \in Coros : Step(c) \/ LockFail(c) \/ \E o \in Operations : Begin(c, o)

Spec == Init /\ [][Next]_vars

\* Coroutines that can go on are resumed.  A coroutine begins finitely many
\* operations, so weak fairness of lock() says no more than that a free mutex
\* is not kept from everyone.
FairSpec == Spec /\ \A c \in Coros : WF_vars(Step(c))

-----------------------------------------------------------------------------
(* Properties.                                                               *)

Results == [error : {"OK", "NOT_FOUND", "LOCK_TIMEOUT"}, endpoints : Seq(Endpoints)]

\* Every variable has its type, and whoever works holds the lock.
TypeOK ==
    /\ services \in [Services -> Seq(Endpoints)]
    /\ watchers \in [Services -> Seq(Watchers)]
    /\ mirror \in [Watchers -> Seq(Endpoints)]
    /\ holder \in Coros \cup {NoCoro}
    /\ pc \in [Coros -> {"idle", "lock", "work", "report", "read"}]
    /\ op \in [Coros -> Operations]
    /\ outcome \in [Coros -> Results]
    /\ left \in [Coros -> 0..MaxOps] /\ alone \in [Coros -> BOOLEAN]
    /\ lastError \in {"OK", "NOT_FOUND", "LOCK_TIMEOUT"}
    /\ lastEndpoints \in Seq(Endpoints)
    /\ told \in [Services -> [Ids -> Int]]
    /\ \A c \in Coros : pc[c] \in {"work", "report"} <=> holder = c

\* Callbacks that follow the events of their service have its list.
MirrorsAgree == Local!MirrorsAgree

\* The places of an instance on a list.
Instances(list, i) == {n \in 1..Len(list) : list[n].id = i}

\* What the callers were told adds up: an instance is on the list once for each
\* registration that reported success and has not been taken back by a
\* deregistration that reported success, whatever overlapped or failed to lock.
ToldAddsUp ==
    \A s \in Services, i \in Ids :
        told[s][i] = Cardinality(Instances(services[s], i))

\* The coroutines exclude each other, and what they were told adds up.
RegistryInv == TypeOK /\ ToldAddsUp

\* The members hold the result of one operation only.  What a caller is about to
\* read there is the result of its own operation if no other one overlapped: no
\* path leaves an old error or an old list in place.
OwnResult ==
    \A c \in Coros : pc[c] = "read" /\ alone[c] =>
        /\ lastError = outcome[c].error
        /\ op[c].name = "discover" => lastEndpoints = outcome[c].endpoints

\* Every operation ends: the mutex is unlocked on every path.
OperationsEnd == \A c \in Coros : pc[c] = "lock" ~> pc[c] = "idle"

\* The coroutines together are a registry of a single thread.
ImplementsLocal == Local!Spec
=============================================================================
