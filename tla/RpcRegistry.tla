----------------------------- MODULE RpcRegistry ------------------------------
(***************************************************************************)
(* LocalServiceRegistry, the registry of a single thread, which is what    *)
(* AsyncLocalServiceRegistry (RpcAsyncRegistry) promises its coroutines.   *)
(*                                                                         *)
(* A watcher's callback keeps a list of its own, in step with the events   *)
(* it is given; what a callback does is not in the code.                   *)
(***************************************************************************)
EXTENDS Integers, Sequences, SequencesExt

CONSTANTS
    Services,   \* service names
    Ids,        \* instance ids
    Hosts,      \* the rest of an endpoint: address, port and weight
    Watchers    \* callbacks

Endpoints == [service : Services, id : Ids, host : Hosts]

VARIABLES
    services,   \* m_services
    watchers,   \* m_watchers: the callbacks of each service
    mirror      \* the list each callback keeps

vars == <<services, watchers, mirror>>

Init ==
    /\ services = [s \in Services |-> <<>>]
    /\ watchers = [s \in Services |-> <<>>]
    /\ mirror = [w \in Watchers |-> <<>>]

Watching(s) == {watchers[s][i] : i \in 1..Len(watchers[s])}
Unused(w) == \A s \in Services : w \notin Watching(s)

\* The registered endpoint deregisterService takes: the first with that id.
Found(ep) == \E i \in 1..Len(services[ep.service]) : services[ep.service][i].id = ep.id
FirstOf(ep) ==
    services[ep.service][SelectInSeq(services[ep.service], LAMBDA e : e.id = ep.id)]

\* What a callback makes of an event.
Applied(list, event) ==
    IF event.type = "ADDED" THEN Append(list, event.endpoint)
    ELSE RemoveFirst(list, event.endpoint)

\* Every callback of the service is given the event, under the lock if any.
Notify(event) ==
    mirror' = [w \in Watchers |->
        IF w \in Watching(event.endpoint.service) THEN Applied(mirror[w], event)
        ELSE mirror[w]]

\* An instance may be registered more than once.
registerService(ep) ==
    /\ services' = [services EXCEPT ![ep.service] = Append(@, ep)]
    /\ Notify([type |-> "ADDED", endpoint |-> ep])
    /\ UNCHANGED watchers

\* Without such an instance the call fails and changes nothing.
deregisterService(ep) ==
    /\ Found(ep)
    /\ services' = [services EXCEPT ![ep.service] = RemoveFirst(@, FirstOf(ep))]
    /\ Notify([type |-> "REMOVED", endpoint |-> FirstOf(ep)])
    /\ UNCHANGED watchers

\* A new callback starts from the list as it is now.
watchService(s, w) ==
    /\ Unused(w)
    /\ watchers' = [watchers EXCEPT ![s] = Append(@, w)]
    /\ mirror' = [mirror EXCEPT ![w] = services[s]]
    /\ UNCHANGED services

\* All callbacks of the service go, whoever added them.
unwatchService(s) ==
    /\ watchers' = [watchers EXCEPT ![s] = <<>>]
    /\ mirror' = [w \in Watchers |-> IF w \in Watching(s) THEN <<>> ELSE mirror[w]]
    /\ UNCHANGED services

Next ==
    \/ \E ep \in Endpoints : registerService(ep) \/ deregisterService(ep)
    \/ \E s \in Services, w \in Watchers : watchService(s, w)
    \/ \E s \in Services : unwatchService(s)

Spec == Init /\ [][Next]_vars

-----------------------------------------------------------------------------
\* A callback that follows the events of its service always has the service's
\* list, also when an instance is registered twice, when it is deregistered
\* with another address than it was registered with, and after unwatch and a
\* second watch.
MirrorsAgree ==
    \A s \in Services : \A w \in Watching(s) : mirror[w] = services[s]
=============================================================================
