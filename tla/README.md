# galay-rpc in TLA+

galay-rpc is a header-only C++23 RPC library on top of the coroutine runtime, the
sockets and the ring buffer of galay-kernel.  This directory holds TLA+ models of
its core, TLC configurations that check them on small instances, and TLAPS proofs
for arbitrary sizes.  `PROJECT.json` records which definition models which lines,
the runs, one mutant per checked property, the hazards and the theorems.

## 1. Inventory

| part | source (`src/galay-rpc/...`) | state it keeps | operations |
|---|---|---|---|
| wire format | `protoc/rpc_base.h`, `rpc_message.h`, `rpc_codec.h`, `rpc_error.h` | none | 16-byte header, request body (two length-prefixed names, payload), response body (error code, payload), payload views of one or two segments |
| read machine | `kernel/rpc_await.h`, `rpc_conn.h` | ring buffer (head, readable bytes, memory), pending result | `getRequest`, `getResponse`, `getHeader`, `getBody`; each is advance / wait for readv / advance |
| write machine | `kernel/rpc_await.h`, `rpc_conn.h` | the iovecs left to write | `sendRequest`, `sendResponse`, `sendRaw`; advance / wait for writev |
| unary client | `kernel/rpc_client.h` | socket and ring (both null before `connect`), `m_request_id` | `connect`, `call*`, `close`, `createStream` |
| server | `kernel/rpc_server.h` | `m_running`, `m_services`, `m_last_error`; per connection: ring, route cache, cursor, `last_hit` | `registerService`, `start`, `stop`, `acceptLoop`, `handleConnection` |
| service tables | `kernel/rpc_service.h` | unary table, stream table with three slots per method | `register*Method`, `findMethod` |
| streams | `kernel/rpc_stream.h` | stream id, ring, read progress (`m_state`, `m_body_length`) | init, data, end, cancel frames; `StreamReader::getMessage`; `createStream` of the client |
| stream server | `kernel/streamsvc.h` | `m_running`, `m_services`, `m_last_error`; per connection: ring, current stream | `start`, `stop`, `acceptLoop`, `handleConnection`, `resolveStreamHandler` |
| discovery | `kernel/rpc_discovery.h` | endpoint lists, watchers, `m_last_*` behind an `AsyncMutex` | register, deregister, discover, watch, unwatch; load-balancing client |

Interactions.  A call builds a request, its writer hands the frame to `writev`, the
peer's reader assembles it in its ring from `readv` pieces, `handleConnection` routes
it through the route cache and the tables, runs the handler, and the response takes
the same way back; `callWithMode` compares its id and mode.  Requests on one
connection are served one after the other.  The connection coroutines of a server
run on several I/O schedulers and share the service table, `m_running` and
`m_last_error`.

What is hard here:

* frames arrive and leave in arbitrary pieces, wrapped around the end of the ring's
  memory, and messages borrow ring memory that has been consumed already;
* a send or a read may time out or fail between two pieces while the connection
  stays usable;
* a timed-out call leaves its response behind for the next call on the connection,
  and request ids are reused after 2^32 calls;
* the route cache combines a hash that may collide, a replacement cursor and a
  pointer into the array it overwrites;
* `stop` races with `accept` and with the connection loops; `start` fails in several
  places after `m_running` has been set;
* stream reads keep progress across suspensions, in an object that does not outlive the
  read;
* sessions follow each other on one connection: what one of them leaves behind is in
  front of the next, and both sides send before they read;
* the same formats are parsed by three pieces of code;
* the asynchronous registry returns results through shared members.

What makes each part correct: the reader hands out whole frames in order (read
machine); the wire gets exactly the frame (write machine); a call returns the answer
to that very call or an error and is executed at most once (client and server); a
request reaches the handler registered for its service, method and mode (routing);
the frames that were sent, in order (stream reads); the echoes of that very session, and
no session left hanging (sessions); no connection forgotten and no failure silent (server
lifecycle); one meaning of every sequence of bytes (parsers); watchers that have the
registry's list, callers that read their own result (discovery).

## 2. Modules and how they correspond to the code

| module | models | abstracts |
|---|---|---|
| `RpcConn` | one direction of a connection, byte by byte: frame writes, socket stream, ring, `RpcRingBufferReadMachine`, payload views | message contents |
| `RpcWritev` | one send, iovec by iovec, of every frame kind; parsing of a request body | the ring |
| `RpcRouting` | `RpcService` tables, `RpcServer::m_services`, route cache of a connection | handlers are their addresses |
| `RpcUnary` | `RpcClient` and the server's accept and connection loops | frames are records |
| `RpcCallSpec` | nothing: the abstract promise `RpcUnary` is shown to implement | |
| `RpcStreamRead` | `StreamMessageReadState` and `StreamReader::getMessage`, byte by byte | the ring's wrap-around, which `RpcConn` has |
| `RpcStreamSession` | stream client, `RpcStreamServer::handleConnection`, echo handler on one connection | frames are records |
| `RpcStreamSpec` | nothing: the abstract promise `RpcStreamSession` is shown to implement | |
| `RpcServerLifecycle` | `start`, `stop`, `acceptLoop` of both servers, `m_last_error` | connections are counted |
| `RpcRegistry` | `LocalServiceRegistry`, the abstract registry | endpoints have a service, an id and a host |
| `RpcAsyncRegistry` | `AsyncLocalServiceRegistry`, shown to implement `RpcRegistry` | callbacks keep a copy of the list |
| `RpcParsers` | the parsers of `rpc_conn.h`, `RpcCodec` and `StreamInitRequest` on the same bytes | a byte has `Base` values |
| `RpcConnProofs`, `RpcWritevProofs`, `RpcStreamReadProofs`, `RpcUnaryProofs`, `RpcAsyncRegistryProofs`, `RpcStreamSessionProofs`, `RpcParsersProofs` and, for `RpcRouting` and `RpcServerLifecycle`, `RpcServerProofs` | the TLAPS theorems | |
| `MC*` | the instances TLC checks | |

**RpcConn.**  A byte is its position in the stream, so the ring's memory is a function
from cells to positions and "the right bytes" is an equation.  `frames` records where
each frame starts, what kind it has and the body length its header announces.  A
header whose bytes all belong to one frame decodes to that frame; any other bytes
taken for a header, which happens behind a torn frame, decode to anything.  `Parse`
follows `tryParseRequestMessage` and `tryParseResponseMessage`: header checks first
(a "foreign" header lacks magic number or type), then the wait for the whole message,
then the body fields.  The fields in front of the payload are `FieldSize` bytes; a
"broken" message has fields pointing outside its body.  `AdvanceMore`,
`AdvanceReject` and `AdvanceDeliver` are the three outcomes of `advance()`.  The
writer may give up between two writes (`AbortWrite`), the peer may close in the
middle of a frame, a read may time out or fail.

**RpcWritev.**  The iovecs of `RpcRequestWriteState`, `RpcResponseWriteState`,
`RpcVectorWriteState` and `StreamFrameWriteState` and the bookkeeping of
`consumeWritevIovecs`.  Name lengths are taken modulo `LenSpace`, as the cast to
`uint16_t` does.  `Total` and `Gather` add up and gather the bytes of a list of iovecs.
`parseRequestBody` is the receiver's parser on the bytes on the wire.  Byte order is a bijection applied on both sides and left out.

**RpcRouting.**  `registerMethodByMode` and `registerService` before `StartServing`;
then each request is a `RouteHit` or a `RouteMiss`.  `recent` is a history variable.

**RpcUnary.**  The client's owner runs one call at a time; it may connect, call, close
and reconnect in any order.  The server has one coroutine per connection.  Frames
carry a `call` number that is not on the wire, which is how the model tells a late
answer from the right one.  `gaveUp` counts, per connection, calls that took no
response.  A frame that was given up half-way is a `Torn` element of the request
queue: behind it the server decodes some request or rejects.

**RpcStreamRead.**  `getMessage` makes a new read state, so `phase` and `need`
(`m_state`, `m_body_length`) start over with every read; the actions named `Advance*`
are the outcomes of `parseFromRingBuffer` in either phase, followed by the machine's
wait or its failure for want of space.  As in `RpcConn` a byte is its position; the ring
holds the positions `consumed .. received - 1`.  A header read where a frame starts
decodes to that frame, anywhere else to anything.  `header` and `at` of a message,
`delivered` and `slips` (reads that ended between a header and its body) are history
variables; a read is given a new message or one that was used before.

**RpcStreamSession.**  The client is the one of the stream benchmark (`b5_stream.cpp`),
which sends up to a window of frames before it reads.  (The client of `e4_stream.cc` is
simpler and not modelled: it runs one session with a window of one, does not compare the
ids of echoes and ignores a cancel behind its own end.)  It may also give a session up with
`sendCancel` and begin the next one on the same connection, which the API allows.  The
server is `handleConnection` of `streamsvc.h` with its three cancel paths, and the
handler is the echo handler of `e3_stream.cc`, which may also return at any time, as a
handler of another kind would.  A behaviour chooses at its start the client's window and
whether it is `calm`: without cancels, early returns, errors, timeouts and stop; `SessionFinishes` is
about calm behaviours.  `Stop` stands for both steps of `stop()`: with `m_running` cleared
the coroutine may take further steps, until `m_runtime.stop()`, or none.  Each direction holds `ChanCap` frames, so a send may have to wait.  `of` and `n`
of a frame, `abandoned` and `cutShort` are history variables.

**RpcServerLifecycle.**  `RpcServer` and `RpcStreamServer` have the same `start`, `stop`
and `acceptLoop` (they differ in log texts and in the class of the socket they close), so
one module stands for both and the map points to either file.  `Setup` and `SetupFail`
are the four calls that set the listener up.  `late` is a history variable.

**RpcRegistry, RpcAsyncRegistry.**  A watcher is a callback that applies the events it is
given to a copy of the list (`mirror`); callbacks are external.  In `RpcAsyncRegistry`
an operation is split where coroutines can interleave: the start, `lock()`, the work
under the lock, the assignment of `m_last_error` with the unlock, and the caller's read of
`lastError()` and `lastEndpoints()`.  `lock()` may fail.  Operations overlap in any way.
`alone` (no other operation overlapped with this one) and `told` (registrations minus
deregistrations reported as successful) are history variables.

**RpcParsers.**  A state is a prefix of the bytes on the wire; the parsers are operators
on it.  `ReadIovecs(k)` is the ring wrapped around after any byte.  `max_message_size` has
its default, as everywhere in the repository.  `INVALID` stands for `INVALID_REQUEST` or
`INVALID_RESPONSE`.

## 3. Runs

| run | what it shows |
|---|---|
| `conn_framing` | Two frames of body 0, 1, 2 or 4, three kinds, in every split by `writev` and `readv` through a ring of 5 bytes, with aborts, closes, timeouts and errors: the ring is exactly the window of unread bytes, messages are the frames in order, borrowed payloads stay intact until `readv` brings bytes, "no space" is reported only for frames that cannot fit, a rejected connection hands out nothing more, and a read loop gets every whole frame or comes to one it rejects (`EveryFrameSettled`). |
| `writev_frames` | Every frame kind and every sequence of partial writes, errors and timeouts; requests parse back; every send ends. |
| `routing` | All registrations of four modes over two services, with collisions and evictions: routed as registered, cache coherent, cache holds the routes resolved last. |
| `unary_calls` | Three calls on two connections with two request ids: a call succeeds only with its own answer (unless as many calls as there are ids were given up on the connection), a mismatch is reported only after a call was given up, a client that is one answer behind stays so until it reconnects, and client and server implement `RpcCallSpec`. |
| `unary_progress` | Four calls, ids that wrap, reconnects, no faults: every call is answered. |
| `unary_retry` | Expected violation, finding 1 below. |
| `stream_read` | Two frames of every type and of bodies 0, 1, 3, 5 and 6 through a ring of 4 bytes, messages new or used again, timeouts, errors and closes: messages are frames in order, an end or a cancel stops a read loop, "no space" means a body larger than the ring, every frame is read unless the reader comes to one it rejects or cannot hold, and the inductive invariant of the proof. |
| `stream_read_timeout` | Expected violation, finding 2. |
| `stream_sessions` | Four sessions of six frames with three ids on one connection, undisturbed or with cancels, early returns, faults and stop, with unknown routes and bodies that cannot be parsed: a client takes only the echoes of its own session, a handler answers only its own session, a refusal has a cause; undisturbed sessions finish and unknown routes are refused; a session ends unless a handler cut one short or the server is stopped; a server that is not stopped lets go of a closed connection; client and server implement `RpcStreamSpec`. |
| `async_registry` | Two coroutines with two operations each, overlapping freely, locks that fail: watchers have the list, what callers were told adds up, an operation that met no other one finds its own result, every operation ends, and the registry implements `RpcRegistry`. |
| `server_lifecycle` | Four clients, every failure of set-up, `accept`, scheduling and closing, and `stop` at any time: connections are accounted for, a server without a loop has an error, at most one connection after `stop`, and clients in the backlog are accepted although `accept` may fail. |
| `parsers` | All bodies of up to 7 bytes of 3 values, with up to 2 bytes of the next message and every place where the ring may wrap: the three parsers agree, and a decision does not change with bytes that arrive later. |

Bounds.  A 5-byte ring with frames of 2, 3, 4 and 6 bytes gives frames that fit, that
wrap inside header, field or payload, two frames at once, and one that cannot fit;
a second frame is enough for anything left over by the first to matter, and the
theorems cover all sizes.  Names of 0, 1, 2 and 4 bytes with length fields of 3 values
include the cut length.  A cache of two with eight routes evicts and, as all routes
of a service have one hash, collides; one of the hashes is 0, the hash of an unused
entry.  Two ids with three calls, and two with four, make the id of a live call meet
that of an abandoned one.  In `stream_read` the ring holds 4 bytes and a header has 2:
bodies of 1 and 3 arrive with or behind their header, one of 5 does not fit, one of 6 is
beyond the limit.  In `stream_sessions` three ids serve four sessions, so an id is used
again within the run.  One of its windows, 5, is the largest for which nobody waits on
everybody, `2 * ChanCap + 1` (`WindowFits`): both directions full and one frame in the
handler's hands; with the other, 3, a client reads while leftovers of two sessions are in
front of it.  `SessionFinishes` states `WindowFits` as its condition; the mutant that
sends without a window deadlocks.  In `parsers` a length field counts up to 8, more than
the longest body, so fields point behind the body, into the next message and behind it.
`MaxFrames`, `MaxCalls`, `MaxConns`, `MaxMisread`, `MaxSessions`, `MaxOps`, `MaxClients`,
`MaxBody` and `MaxExtra` are the only bounds on counters and inputs; runs whose actors
simply come to an end at these bounds do not check for deadlock.

Fairness.  Weak fairness of each coroutine's next step: the I/O schedulers resume a
coroutine whose I/O is ready, sockets take and hand over bytes, handlers return.
Callers are not assumed to call or connect again, except that `conn_framing` and
`stream_read` read in a loop, as `handleConnection` and the stream handlers and clients
do.  Writers are not assumed to go on: `EveryFrameSettled` and `EveryFrameRead` are about
frames that are on the stream as a whole.  These two hold with timeouts and errors
too, and need strong fairness of `onRead`: bytes that are there do not lose the race
against a timeout every time.  `EveryCallAnswered` is claimed without faults,
`SessionFinishes` for calm behaviours.  The others hold under
all faults: `EverySendEnds` (a failure also ends the send), `OperationsEnd` (a lock that
fails also ends the operation), `SessionEnds`, `ServerLetsGo` and `ClientsAreAccepted`.
The last three are about a server that is not stopped: `stop()` stops the runtime, and no
coroutine of the server is resumed after that, so `RpcStreamSession` assumes fairness of
the server's steps only while it is `running`.  `ClientsAreAccepted` assumes that `accept()` is not kept from succeeding for ever while a client is in
the backlog: the code retries at once and without limit, so nothing weaker would do.  Weak
fairness of `lock()` is enough because every coroutine begins finitely many operations; it
does not assume a fair queue.  In `stream_sessions` a side that waits on a connection whose
other end is gone is told so by the socket.

Types.  Every detailed module but `RpcParsers`, whose only variable is the bytes, has a
`TypeOK`.  TLC checks it as a conjunct of the module's main
invariant (`FramingInv`, `SendInv`, `RoutingInv`, `CallInv`, `AlignedInv`, `SessionInv`,
`RegistryInv`), which also has the module's safety invariants of a smaller kind as named
parts; that of `RpcServerLifecycle`, `ServerTypeOK`, is a theorem (`LifecycleTypeCorrect`).  For
`RpcParsers` it is `WellFormed` in `RpcParsersProofs`.

Mutants.  Each property of a passing run has a mutated definition (named in
`PROJECT.json`, written next to the original and marked "Mutant") with which TLC finds
the property violated.

## 4. Findings

1. `unary_retry`: `docs/07-常见问题.md:517-518` says that a timed-out call may be
   retried, and `docs/06-高级主题.md:187-229` retries on the same client.  The late
   response stays on the connection, so the retry is refused as `INVALID_RESPONSE`, and
   so is every later call until a reconnect (`BehindUntilReconnect`).
2. `stream_read_timeout`: a stream read consumes the header before the body is there and
   remembers it only in its own read state.  After a read that timed out in between, the
   next one takes the body for a header; `rpc_stream.h:672` promises a complete message.
   `MessagesAreFramesInOrder` shows that reads get out of step in no other way.  (A send
   that is given up half-way does the same from the other side, as `RpcConn` shows for
   requests and responses; `RpcStreamRead` puts frames on the stream whole.)

Smaller observations, which the models show or which were met while reading and which have
no run of their own:

* A body within `RPC_MAX_BODY_SIZE` and `max_message_size` is refused with "No writable
  ring buffer space" when the frame is larger than the ring (8 KB by default), while
  `docs/01-架构设计.md:97` allows 16 MB.  `NoSpaceMeansOversize` shows that this is the only
  way to get that error.  A stream frame may exceed the ring by its header.
* The end flag of a `StreamMessage` that is used again is never cleared, so `isEnd()`
  (`rpc_stream.h:168`) is true for data frames after an end frame.
* `getServiceEndpoint` makes a new selector for every call, so a round robin returns the
  first instance each time, against `docs/06-高级主题.md:36-42`.
* The asynchronous registry's results are read from members after the unlock, so a caller
  whose operation overlaps another one's may read the other's result, although
  `docs/02-API参考.md:1218` calls the registry safe for coroutines.  Lines 1235 and 1303 of
  the same document warn, but only of concurrent calls of the same method, while the members
  are shared by all of them.  This is why `OwnResult` asks for an operation that was alone.
* When the listener cannot be set up, `acceptLoop` returns and `isRunning()` stays true;
  `docs/00-快速开始.md:128` and `test/t2_server.cpp:109` wait in
  `while (server.isRunning())`.
* A stream handler that returns early is not followed by an end or a cancel from the
  server, so the client may wait for the tail for ever (`cutShort` in `SessionEnds`).
* `stop()` stops the runtime at once, so a connection coroutine that is suspended at that
  time does not get to its `socket.close()`, and its client is not told (`~running` in
  `SessionEnds` and `ServerLetsGo`).

## 5. Proofs

The eight `*Proofs` modules are checked by TLAPS for every value of the constants that
satisfies the named assumptions of `RpcConn` (`SizesAssumption`, `BoundsAssumption`),
`RpcWritev` (`WritevAssumption`),
`RpcRouting` (`RoutesAssumption`, `CacheSizeAssumption`, `HashAssumption`),
`RpcStreamRead` (`StreamSizesAssumption`, `StreamBoundsAssumption`),
`RpcServerLifecycle` (`LifecycleAssumption`), `RpcUnary` (`UnaryAssumption`),
`RpcAsyncRegistry` (`AsyncRegistryAssumption`), `RpcStreamSession` (`SessionAssumption`)
and `RpcParsers` (`ParsersAssumption`).  TLC evaluates these assumptions on the runs.
`RpcServerProofs` extends both `RpcRouting` and `RpcServerLifecycle`, whose initial
condition, next-state relation, specification and type invariant carry the prefix `Server`
for that reason.  Every invariant of a passing run is a theorem, and so are the three
refinements and all action properties.

*Framing.*  That messages are frames is not inductive: a step that hands out a message
must know that what it parses starts at a frame boundary.  `FramingInv` adds that the
ring is the window `received - count .. received - 1` of the stream
(`RingHoldsUnreadBytes`), that the stream is its frames end to end
(`StreamOfFrames`), that everything in front of the window is exactly the frames
handed out (`ConsumedWholeFrames`), and that after a rejection the next frame is one
that cannot be read (`RejectedFrameBlocks`).  Since a header can only be misread behind
a torn frame, each part is conditional on no frame up to there being torn.  The proof
goes action by action; the ring's index arithmetic is in lemmas of its own.
`BorrowIsSafe` is a second invariant on top of it.  `RejectionStops` is an action
property.

*Frame writes.*  `SendInv` is inductive as it stands: with `InProgress` a send waits only
while iovecs are left, so a send that fails has not put the whole frame on the wire.  The
work is in `ConsumeLeavesRest`: after a write of `k` bytes the first `k` bytes gathered and
what `consumeWritevIovecs` leaves are the bytes there were.  It rests on facts about
`Total` and `Gather`, which are recursive functions: that such a function exists
(`Recursion`), that gathering a concatenation is concatenating what is gathered
(`GatherConcat`), and that the length of it is the total (`GatherType`).  They are proved
with `UpTo`, induction over a set of numbers, from a least element outside the set.
`SplitBytes` is the half-written iovec: the bytes written and those of the iovec with its
base moved.  `RequestsParseBack` follows from `SendInv`: a request that was sent is header,
length, service, length, method and payload one after the other (`RequestBytes`), each piece
is found at its offset (`Piece`), and neither length field can be taken for the other
(`LengthRead`).  `EveryWriteShrinks` is the argument behind `EverySendEnds`.

*Routing.*  `RoutingInv` says that the tables hold exactly the registrations, and that
a cached handler is what the tables give for the entry's own route.  `last_hit` needs
no clause: it is compared with the request like any other entry.  Which hash function
is used does not matter, and the proof does not assume it to be injective.  That a
non-empty set of slots has a first one is proved from the well-foundedness of `<` on
`Nat`.  `CacheKeepsRecent` needs the order of the entries: `CacheInOrder` says which of the
recent routes each slot holds, so that the one about to be evicted is the oldest.

*Stream reads.*  `AlignedInv` is the counterpart of `FramingInv` for a reader that
consumes in two phases: what is consumed is the frames read so far, and between a header
and its body the header of the next frame, whose type and length the read state and the
message hold.  All of it is conditional on `slips = 0`; finding 2 shows why.  The lemma
`HeaderOfNextFrame` is the heart of it: a reader in step with at least a header in the
ring decodes the frame behind the ones it has read.  `StreamNoSpace` needs one more fact,
that without room a header must have been consumed by this very read, and `StreamLoopsStop`
another (`EndInv`): the flag of a message in use is set only behind an end or a cancel.

*Server lifecycle.*  `AtMostOneAfterStop` is not inductive: the loop must be known to be
outside `accept()` once a connection was late.  `LateInv` adds that, `OwnerInv` relates
the owner, `m_running` and the place of the loop (with `m_running` unset and no `stop`,
there never was a loop), and `CountsInv` the counters.

*Unary calls.*  An id does not identify a call, so `OwnAnswer` cannot be proved from the
comparison of ids alone.  `CallInv` puts the calls in an order: the requests and responses
on a connection are those of its calls, oldest first, each call waits in one place, and a
call is at most as old as the number of calls given up on the connection allows.  Equal
ids are a multiple of `IdSpace` calls apart, so with fewer given up than there are ids they
are the same call.  `UnaryBehind` is an action property from the same invariant.  The
refinement of `RpcCallSpec` goes step by step: only a response read by its own call moves
the abstract call.

*Registry.*  `MirrorsAgree` is inductive once a callback is known to follow one service and
the lists are known to hold only instances of their service: `RemoveFirst` erases the place
the scan under the same lock found.  What callers were told is compared with the list by
counting, with lemmas on `Cardinality` of the set of places before and after an erase (a
bijection).  `OwnResult` needs `AloneInv`: while an operation has met no other, the members
hold what it wrote.  In the refinement of `RpcRegistry` the work under the lock is the
abstract step and everything else a stutter.

*Stream sessions.*  `OrderInv` is the half that holds whatever ids are used: frames travel in
the order of their sessions, and an init comes behind the closing frame of the session before,
so no handler is open when it is read; `HandlerKeepsItsSession` follows.  The other half,
`EchoesInOrder`, is conditional on `abandoned < IdSpace`: whatever is left on the connection
belongs to sessions that were given up, so two frames with equal ids are of one session (the
lemma `SameId`), and the data on its way are numbered from what the client has.
`CleanSession` says what the server sends on a connection without leftovers; without it a
refusal could not be traced to a cause.  The refinement of `RpcStreamSpec` rests on all of
them.

*Parsers.*  The heart is `Collects`: reading a field from the two pieces of a wrapped ring
gives the bytes of the field, wherever the ring wraps.  The two parsers are then followed
field by field.  They check in a different order: the connection may copy a field that
reaches into the next message and refuse it afterwards, and the proof shows that what was
copied does not matter.  `DecisionsStand` needs no case analysis of its own: the parsers
agree with `RpcCodec`, and that depends on the body alone.

Only model-checked: the liveness properties, since TLAPS proves no fairness arguments here.

## 6. Assumptions

* Code outside the repository, modelled from its use: `RingBuffer` (a cyclic array with
  one or two iovecs on each side), `TcpSocket` (a reliable byte stream whose operations
  may fail), the runtime (it resumes what is ready).
* A call that times out is abandoned at its current `co_await`; what it had read into
  the ring stays there.
* One caller at a time per client, as the examples, tests and benchmarks do; the
  library takes no locks in the client.
* Services are registered before `start`.
* In `RpcUnary` requests and responses fit the ring; `RpcConn` says what happens
  otherwise.
* In `RpcUnary` and `RpcStreamSession` the runtime may or may not let coroutines run on
  after `stop`, and no progress is claimed of them then; in
  `RpcServerLifecycle`, where `stop` has its two steps, none runs once `m_runtime.stop()`
  has returned.  A server is started once, as in every use in the repository.
* In `RpcStreamSession` a new connection starts with nothing of an old one on either
  side, so one connection is modelled.
* In `RpcServerLifecycle` an assignment of `m_last_error` takes effect as a whole.

## 7. Not modelled, and what is left

* `getHeader`, `getBody` and `ExpectedRpcResponseReadState`: no code in the repository
  reads a connection with them, so there is no protocol around them to check.
* The data race on `m_last_error`, which all coroutines of a server assign: the outcome of
  concurrent assignments of an optional with a string in it is undefined.
  `rpc_server.h:200` restricts `lastError()` to the single-threaded start.
* Registration of services while the server runs, and a second `start` of a stopped
  server: no use in the repository does either.
* A stream send that is given up half-way: what a torn frame does to the reader behind it
  is in `RpcConn` and, for calls, in `RpcUnary`.
* A stream used after its client has reconnected, which dereferences the old socket.
* Byte order, which is applied on both sides, and `materializePayloadIfNeeded`.
* Logging, `runtime_compat.h`, the C++ module wrappers; the measuring and command-line
  parts of examples and benchmarks.
* `ServiceDiscoveryClient`, which forwards to the registry and keeps nothing between two
  calls.
* The selectors, schedulers and mutex of galay-kernel, which is not in this repository.

Left for the proofs: nothing but liveness, for which the proofs hold one ingredient,
`EveryWriteShrinks`; progress of reads, calls and sessions is checked by TLC only.
