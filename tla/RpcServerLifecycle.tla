-------------------------- MODULE RpcServerLifecycle --------------------------
(***************************************************************************)
(* start(), stop() and the accept loop of a server.  RpcServer and         *)
(* RpcStreamServer have the same three functions.  The owner of the server *)
(* runs in one thread, the accept loop and the coroutines of connections   *)
(* on the schedulers of the runtime, and all of them write m_last_error.   *)
(*                                                                         *)
(* Every use in the repository starts a server once.  The runtime is not   *)
(* in the repository: between start() and stop() it runs coroutines, after *)
(* stop() none.                                                            *)
(***************************************************************************)
EXTENDS Naturals, Sequences

CONSTANT MaxClients     \* bound: clients that connect

ASSUME LifecycleAssumption == MaxClients \in Nat

VARIABLES
    owner,      \* "new", "starting", "up", "stopping" or "gone"
    running,    \* m_running
    runtime,    \* "off", "on" or "stopped"
    loop,       \* where acceptLoop is; "none" before it is scheduled
    listening,  \* whether the listener takes connections
    lastError,  \* m_last_error
    waiting,    \* connections in the listener's backlog
    clients,    \* clients that have connected
    accepted,   \* connections accept() returned
    handlers,   \* connections with a coroutine
    closed,     \* accepted connections that are closed
    late        \* connections accepted after stop()

ownerVars == <<owner, running, runtime>>
connVars == <<listening, waiting, clients, accepted, handlers, closed, late>>
serverVars == <<ownerVars, loop, lastError, connVars>>

ServerInit ==
    /\ owner = "new" /\ running = FALSE /\ runtime = "off"
    /\ loop = "none" /\ lastError = "NONE" /\ listening = FALSE
    /\ waiting = 0 /\ clients = 0 /\ accepted = 0 /\ handlers = 0 /\ closed = 0 /\ late = 0

-----------------------------------------------------------------------------
(* The owner.                                                                *)

\* start(): m_running is set before anything else.
start ==
    /\ owner = "new"
    /\ owner' = "starting" /\ running' = TRUE /\ runtime' = "on"
    /\ UNCHANGED <<loop, lastError, connVars>>

\* The accept loop is scheduled; start() returns.
ScheduleLoop ==
    /\ owner = "starting"
    /\ owner' = "up" /\ loop' = "reset"
    /\ UNCHANGED <<running, runtime, lastError, connVars>>

ScheduleLoopFail ==
    /\ owner = "starting"
    /\ owner' = "up" /\ lastError' = "INTERNAL_ERROR"
    /\ running' = FALSE /\ runtime' = "stopped"
    /\ UNCHANGED <<loop, connVars>>

\* stop(), also from the destructor: nothing to do unless m_running was set.
stop ==
    /\ owner = "up"
    /\ running' = FALSE
    /\ owner' = IF running THEN "stopping" ELSE "gone"
    /\ UNCHANGED <<runtime, loop, lastError, connVars>>

\* m_runtime.stop().
RuntimeStop ==
    /\ owner = "stopping"
    /\ owner' = "gone" /\ runtime' = "stopped"
    /\ UNCHANGED <<running, loop, lastError, connVars>>

-----------------------------------------------------------------------------
(* acceptLoop.                                                               *)

Stages == <<"reuseaddr", "nonblock", "bind", "listen">>

\* The loop is resumed at this place.
At(place) == loop = place /\ runtime = "on"

\* Mutant: the loop goes on until the runtime is stopped.
WhileRuntime == IF runtime = "on" THEN "accepting" ELSE "closing"

\* The while condition.
While == IF running THEN "accepting" ELSE "closing"

ResetError ==
    /\ At("reset")
    /\ lastError' = "NONE" /\ loop' = Stages[1]
    /\ UNCHANGED <<ownerVars, connVars>>

Setup(k) ==
    /\ At(Stages[k])
    /\ loop' = IF k < Len(Stages) THEN Stages[k + 1] ELSE While
    /\ listening' = (k = Len(Stages))
    /\ UNCHANGED <<ownerVars, lastError, waiting, clients, accepted, handlers, closed, late>>

\* Mutant: the loop returns without a word.
SetupFailSilent(k) ==
    /\ At(Stages[k])
    /\ loop' = "ended"
    /\ UNCHANGED <<ownerVars, lastError, connVars>>

\* One of the listener's calls fails: the loop returns, m_running stays set.
SetupFail(k) ==
    /\ At(Stages[k])
    /\ lastError' = Stages[k] /\ loop' = "ended"
    /\ UNCHANGED <<ownerVars, connVars>>

ClientConnects ==
    /\ listening /\ runtime # "stopped" /\ clients < MaxClients
    /\ waiting' = waiting + 1 /\ clients' = clients + 1
    /\ UNCHANGED <<ownerVars, loop, lastError, listening, accepted, handlers, closed, late>>

Accept ==
    /\ At("accepting") /\ waiting > 0
    /\ waiting' = waiting - 1 /\ accepted' = accepted + 1
    /\ late' = IF running THEN late ELSE late + 1
    /\ loop' = "placing"
    /\ UNCHANGED <<ownerVars, lastError, listening, clients, handlers, closed>>

\* Mutant: a failed accept() ends the loop.
AcceptFailEnds ==
    /\ At("accepting")
    /\ lastError' = "accept" /\ loop' = "closing"
    /\ UNCHANGED <<ownerVars, connVars>>

\* accept() fails and is tried again at once.
AcceptFail ==
    /\ At("accepting")
    /\ lastError' = "accept" /\ loop' = While
    /\ UNCHANGED <<ownerVars, connVars>>

\* The connection's coroutine is scheduled.
Place ==
    /\ At("placing")
    /\ handlers' = handlers + 1 /\ loop' = While
    /\ UNCHANGED <<ownerVars, lastError, listening, waiting, clients, accepted, closed, late>>

\* Mutant: the connection is forgotten.
PlaceFailForgets ==
    /\ At("placing")
    /\ lastError' = "INTERNAL_ERROR" /\ loop' = While
    /\ UNCHANGED <<ownerVars, connVars>>

\* It cannot be scheduled and is closed.
PlaceFail ==
    /\ At("placing")
    /\ lastError' = "INTERNAL_ERROR" /\ loop' = "dropping"
    /\ UNCHANGED <<ownerVars, connVars>>

\* Closing may fail, which is recorded.
MayRecord(e) == lastError' \in {lastError, e}

Drop ==
    /\ At("dropping")
    /\ closed' = closed + 1 /\ loop' = While /\ MayRecord("close")
    /\ UNCHANGED <<ownerVars, listening, waiting, clients, accepted, handlers, late>>

CloseListener ==
    /\ At("closing")
    /\ listening' = FALSE /\ loop' = "ended" /\ MayRecord("close")
    /\ UNCHANGED <<ownerVars, waiting, clients, accepted, handlers, closed, late>>

\* A connection's coroutine ends, with an error or because of m_running.
HandlerEnds ==
    /\ runtime = "on" /\ handlers > 0
    /\ handlers' = handlers - 1 /\ closed' = closed + 1 /\ MayRecord("connection")
    /\ UNCHANGED <<ownerVars, loop, listening, waiting, clients, accepted, late>>

Owner == start \/ ScheduleLoop \/ ScheduleLoopFail \/ stop \/ RuntimeStop
Loop ==
    \/ ResetError \/ (\E k \in 1..Len(Stages) : Setup(k) \/ SetupFail(k))
    \/ Accept \/ AcceptFail \/ Place \/ PlaceFail \/ Drop \/ CloseListener

ServerNext == Owner \/ Loop \/ ClientConnects \/ HandlerEnds

ServerSpec == ServerInit /\ [][ServerNext]_serverVars

\* The accept loop is resumed whenever it can go on, and accept() does not fail
\* for ever.  The owner may keep the server for ever.
Fairness ==
    /\ WF_serverVars(ScheduleLoop \/ ScheduleLoopFail) /\ WF_serverVars(RuntimeStop)
    /\ WF_serverVars(ResetError \/ \E k \in 1..Len(Stages) : Setup(k) \/ SetupFail(k))
    /\ WF_serverVars(Accept) /\ WF_serverVars(Place \/ PlaceFail) /\ WF_serverVars(Drop)
    /\ WF_serverVars(CloseListener)

FairSpec == ServerSpec /\ Fairness

-----------------------------------------------------------------------------
(* Properties.                                                               *)

Places == {"none", "reset", "accepting", "placing", "dropping", "closing", "ended"}
Errors == {"NONE", "INTERNAL_ERROR", "accept", "close", "connection"}

\* Every variable has its type.
ServerTypeOK ==
    /\ owner \in {"new", "starting", "up", "stopping", "gone"}
    /\ running \in BOOLEAN /\ runtime \in {"off", "on", "stopped"}
    /\ loop \in Places \cup {Stages[k] : k \in 1..Len(Stages)}
    /\ lastError \in Errors \cup {Stages[k] : k \in 1..Len(Stages)}
    /\ listening \in BOOLEAN
    /\ {waiting, clients, accepted, handlers, closed, late} \subseteq 0..MaxClients

\* A server that has been started, was not stopped and has no accept loop says
\* why in m_last_error: no error of start() or of the listener is lost, though
\* the loop clears m_last_error and connections overwrite it.
SilentServerHasError ==
    owner = "up" /\ loop \in {"none", "ended"} => lastError # "NONE"

\* Every connection accept() returned is with its coroutine, is closed, or is
\* in the hands of the loop: none is forgotten when scheduling fails.
ConnectionsAccounted ==
    accepted = handlers + closed + (IF loop \in {"placing", "dropping"} THEN 1 ELSE 0)

\* After stop() has cleared m_running at most one more connection is accepted,
\* by the accept() the loop was waiting in.
AtMostOneAfterStop == late <= 1

\* A client in the backlog is accepted unless the server is stopped: neither
\* failing accept() calls nor connections that cannot be scheduled end the loop.
ClientsAreAccepted == waiting > 0 ~> (waiting = 0 \/ ~running)
=============================================================================
