# A TLA+ model of the provider simulator

The provider simulator stands in for the blockchain nodes behind a router: a table
of 177 providers with 187 ports, each one an endpoint that answers requests with
canned content; a control API stages faults on them and reads what arrived; a
cache-sim and a RESP proxy stand in for the router's caches. Tests drive it from
many threads at once, so its hard parts are less the replies than the shared state
between the control API, the request threads and the loops that own the sockets.
This directory models those parts, checks them with TLC and proves the most
important facts with TLAPS.

## 1. The parts

| Part | Source (`src/`) | State | Meets | Module |
|---|---|---|---|---|
| Port gate | `provider_simulator/port_gate.py` | ask counter, newest answered ask, last report, pass flag | serve loop, control API | `PortGate` |
| Port serve loops, sweep, readiness | `server.py`, `control_api.py` | server object, socket, wake event, stop flag, `port_lock` | gate, scenario | `PortControl` |
| Start, stop, wait_ready | `server.py` `SimulatorServer` | servers, gates, threads | loops, other processes | `SimulatorLife` |
| Scenario acceptance | `control_api.py`, `domain/scenario.py`, `introspective_config.py` | one block per provider | control calls, sweep | `ScenarioAcceptance` |
| Resets | `control_api.py` `_perform_reset`, `resp_control.py` | everything a reset clears | all control calls | `ControlReset` |
| Request flow, fault policy, window | `listeners/base.py`, `fault_policy.py`, `domain/provider.py` | block, window counter, row | control writes | `RequestFlow` |
| Call log | `domain/call_log.py` | ring buffer, counters, generation | requests, clears | `CallLog` |
| GET /history | `control_api.py` | none of its own | call logs | `History` |
| HTTP server of a port | `server.py` `_ProviderHTTPServer`, handler, `listeners/wire.py` | client sockets, closed flag | loop of the port | `ProviderPort` |
| REST, Tendermint, JSON-RPC listeners | `listeners/rest.py`, `tendermint.py`, `jsonrpc.py` | request-id counters | request flow | `HttpListeners` |
| gRPC listener | `listeners/grpc.py`, `server.py` `_perform` | one coroutine per call | request flow | `GrpcCall` |
| GraphQL documents | `graphql_document.py` | none | GraphQL listener | `GraphQLDocument` |
| Sui transactions | `listeners/graphql.py`, `chains/sui.py`, `domain/provider.py` | bounded memory of executions | resets | `SuiTransactions` |
| WebSocket subscriptions | `listeners/ws.py`, `server.py` `_WsHandler` | registry, queue of each connection | control API, call log | `WsSubscriptions` |
| WebSocket frames | `listeners/ws_protocol.py` | parser state | reader thread | `WsFrames` |
| Cache-sim | `cache_sim.py`, `listeners/cache_grpc.py` | staged answer, log, counter | control API | `CacheSim` |
| RESP proxy | `resp_proxy.py` | gate, connections, delivery count | control threads | `RespProxy` |
| RESP store reader | `resp_store.py`, `resp_control.py` | none | an external store | `RespStore` |
| Chain heads, heights in replies | `chains/*.py`, `control_api.py` | head of each chain | POST /advance, resets | `ChainHeads` |
| Topology, registry | `topology.py`, `domain/registry.py` | fixed after start | all | `Topology`, `Registry` |

`PortService` is the abstract specification that `PortControl` implements. The
`*Proofs` modules, `PortControlTypes` and `PortControlRefinement` hold the
theorems. `MC*` modules hold the instances.

## 2. The modules and the code

In every module an action is one hold of a lock, one call on a socket or one stretch
between two awaits; what the code does under one lock is one step, and what it reads
before a lock and uses after it is two. Definitions keep the names of the functions
they translate where TLA+ allows it. A definition named "Mutant of X" in its comment is
a wrong form of X that a property must notice; no specification uses it.

### PortControl

*Loop.* `loopPc[p]` is where the thread of port `p` is. A pass is `Begin` (the ask
counter), `ReadWish` or `ReadStopped` (the lock, the stop flag, the scenario),
the steps of `Plan`, and `End` (the report). `close_port` is two steps, `CloseFlag`
(the flag `closed_by_scenario`; the server is now "half") and `Shut`; each
operation that can raise has a `...Raises` twin. `server[p]` is the object the
loop owns: none, bound (not serving), serving, half. `listening[p]` is what a TCP
connection meets. The http loop holds its own lock for the pass (`LockedLabels`),
which is what `stop()` waits for.

*Control call.* `PostScenario`, `Reset` and `Sweep` take `port_lock` and stage
their writes; `WriteProvider` and `PortWishes` write a provider and read back its
wishes; `CheckReport` decides whom to ask; `AskPort` and `WakeLoop` are the two
halves of `ask()`; `WaitReached`/`WaitTimeout` and `Probe` are `wait()`;
`AnswerOk`/`AnswerStuck` are 200 and 500. A refused request writes nothing and is
a stutter.

*Abstractions.* A scenario is its mode (success, another fault, port_closed) and
the endpoints its filters target. Time is left out: a wait may time out at any
moment, the poll may fire at any moment. `close_port` raises only after the
socket is closed (what follows it is thread creation); a gRPC `server.stop` that
raises leaves the server unchanged (external library); a `server_close` of an
unserved server does close its socket; no foreign process binds the port.
`extra_ready_ports` are left out. `promised[p]`, a history variable, is what the last
"ok" about a port said, until the next write to its provider.

### SimulatorLife, ControlReset, ScenarioAcceptance, Registry

`SimulatorLife` binds port after port (`Bind`, `BindFails` when another process holds
it), registers gates, makes threads and starts them last, and beside that runs
`stop()` and `wait_ready()`; a pass of a loop is one step, since `PortControl` has its
inside. The order among ports of one kind is left open.

`ControlReset` treats what a reset clears as items with a lock each; the state of an
item is the set of calls whose effect it holds. A reset clears item after item in the
order of `_perform_reset`, beside calls that set items and cut-offs that hold the lock
of a proxy's gate.

`ScenarioAcceptance` has each rule of POST /scenario as an operator with the name it
has in `control_api.py`, the merge of a POST over the stored block, the two-phase
check-then-store of a POST to several providers, resets and the sweep. A value keeps
what a rule tells apart.

`Topology` is the whole shipped table; `Registry` runs `build_registry` over it row by
row, and over the table with one more row, good or bad, at some place.

### RequestFlow, HttpListeners, GrpcCall, GraphQLDocument, SuiTransactions

`RequestFlow` is `Listener.serve`: `Arrive`, the snapshot of the block, the place in
the window, the reply and its row; POST /scenario, POST /reset and the sweep may come
between any two. A POST with `fail_first_n` restarts the window in one step and stores
the block in the next, as the code does.

`HttpListeners` reads a request, finds its route, draws an id under the lock of the
counter when the request has none, and labels its row. `GrpcCall` cuts a call where
the coroutine awaits, and lets the caller leave there. `GraphQLDocument` is the reader
and the projection as recursive operators beside reference definitions (paths through
the fragment graph); the parser of graphql-core is outside. `SuiTransactions` has two
executions of one transaction overlap, with an index delay and a memory at its cap.

### CallLog, History

A row is built outside the lock (`NewEntry`) and entered under it (`LogEntry`);
`Finalize` is the two branches of `finalize`; `Clear` starts a new generation. A
timestamp is the number of clears before it was taken. `History` reads the log of one
provider after the other while calls arrive and end, then filters, merges, groups and
cuts as `get_history` does.

### ProviderPort, WsSubscriptions, WsFrames

`ProviderPort` follows a connection from the kernel's queue to the last byte:
`Accept`, `Record` (the client socket), the read, the arrival row, and the reply part
by part, with a pause or a drop where the plan says; `close_port` copies the record
and shuts the copies one by one. Of a reply it keeps the header names, the declared
length, the content type and the bytes sent.

`WsSubscriptions` has the reader, the writer and the bounded queue of each connection,
the registry, and POST /ws/emit from a control thread; `close()` takes effect when the
handler returns, as `socketserver` does it. `WsFrames` scales a byte down to two values,
so that the three forms of a length and both sides of each boundary are reached with
payloads of a few bytes.

### CacheSim, ChainHeads, RespProxy, RespStore

`CacheSim`: a lookup is decided and recorded in one hold of the lock and answered
later; a self-test is four steps. `ChainHeads`: a rate is in half blocks per tick, so
that `int()` drops a fraction; a hash is known by the height it is derived from.

`RespProxy`: `Accept`, `Refuse` and `Enter` are the start of `serve`, `Leave` and
`Shut` its `finally`. One iteration of `_carry` is `Top` (the gate), `Held` or `Dial`,
the two directions of `_pump_once` (`to[c]` says which), and `IdleExpired`/`Reclaim`.
A delivery is `PassGate` or `DropChunk` (one hold of the lock), `Write` (outside it)
and `Release` or `ReleaseRaised` (the `finally`). `CutOff` closes the gate and takes
the snapshot, `Drained` is the end of its wait, `ShutOne` shuts the connections of an
error cut-off after the locks are released; `Restore` needs `transitions`. Reads,
writes, dials and the idle limit may fail or expire at any moment. History variables:
`sealed` (the kind of the last cut-off that drained), `bornHeld` (accepted under a
timeout cut-off), `idled` (given up for being idle).

`RespStore`: SCAN rounds, then GET and TTL for each key or DEL for each batch, with a
store that is written and expires between any two commands.

## 3. Runs

A run is one cfg of one `MC` module. Where an `MC` module composes several components, a
behaviour is about one of them, the `part` that is chosen at the start: the components of one
run share no state in the code, and a run asks each of them its own question. `Parts` names
the parts, and a property about a part is stated as `part = "..." => ...`.

| Run | Module, cfg | Parts and instance | Properties |
|---|---|---|---|
| `port_control` | `MCPortControl`, `PortControl.cfg` | one http port, two control threads, a prober, `stop()`, 2 writes | `PromiseKept`, `ReportMatchesPort`, `OwnWish`, `ReadyHonest`, `StopIsFinal` |
| `port_pair` | `MCPortControl`, `PortControlPair.cfg` | two providers, an http port, a gRPC port and one without listener, one call | `ImplementsService` |
| `call_log` | `MCCallLog`, `CallLog.cfg` | log: 4 rows, a buffer of 2, 2 clears. history: 2 logs, 3 rows, 3 times, one read of every kind | `CountersAgree`, `NoRowMissed`, `TimelineExact` |
| `call_log_stamps` | `MCCallLog`, `CallLogStamps.cfg` | log: 2 rows, 1 clear | violated: `PostClearTimestamps` |
| `resp_proxy` | `MCRespProxy`, `RespProxy.cfg` | proxy: 2 connections, 2 control threads, 3 gate moves, 1 counter reset. read: 3 keys, 2 match, 2 rounds. flush: 4 keys, 3 match, 2 flushes, batches of 2. In both 2 writes and 1 expiry | `CutOffQuiet`, `GateIsOwn`, `NothingLeaks`, `EntriesReported`, `FlushExact` |
| `request_flow` | `MCRequestFlow`, `RequestFlow.cfg` | window: 3 requests on an http and a ws endpoint, 2 writes. blocks: 2 requests of every wire form, posts that use the rest of a block | `WindowExact`, `RowTellsReply` |
| `listeners` | `MCListeners`, `Listeners.cfg` | http: every route, verb, body and staged reply. ids: 3 threads at once. grpc: every fault, content and corruption. limits, roots: documents of an operation, a nested set and 2 fragments. sui: 2 digests, 3 requests, a memory of 1 | `RowFindsRequest`, `RoutesExact`, `GrpcRowExact`, `DocumentsExact`, `ReadAfterWrite` |
| `cache_sim` | `MCCacheSim`, `CacheSim.cfg` | cache: 2 lookups, 2 self-tests, a log of 2, 2 staging calls. moves: 2 concurrent calls of POST /advance, 3 times. replies: five chains, one provider under every lag, 2 replies | `SelftestSound`, `BumpsKept`, `HeadsMoveForward`, `HeightsAgree` |
| `connections` | `MCWsSubscriptions`, `WsSubscriptions.cfg` | subscriptions: 2 connections, 2 subscriptions, 1 push, a queue of 1. frames: 3 frames in chunks of any size. port: 2 connections, every plan of a reply, one close | `NoOrphan`, `EventsAtOwner`, `FramesIntact`, `RepliesAsPlanned`, `CloseEndsAll` |
| `control_plane` | `MCControlPlane`, `ControlPlane.cfg` | registry: the shipped table and 12 more rows at 3 places. accept, readers, merge: providers of four kinds, different fields. resets: 2 resets, 1 call, 2 pools on one chain. life: one port of each kind and two gRPC ports; no grpcio | `RegistryExact`, `AnsweredIsStored`, `StoredCanHappen`, `LifeExact`, `ResetsExact` |
| `sessions_live` | `MCLive`, `Live.cfg` | port: one http port, one thread, 2 writes. proxy: 2 connections, 2 moves. ws: 1 connection, 2 pushes, a queue of 2 | `CallsAnswered`, `PortsConvergeByRetry`, `SessionsEnd` |
| `servers_live` | `MCServerLife`, `ServerLife.cfg` | life: one port of each kind. conn: 2 connections. reset: 1 reset, 1 call. grpc: 1 call | `EverythingEnds`, `PortsOpen` |

What the properties say is in the comment above each of them. What they show:

- *Ports.* An answer of 200 to a control call stays true until the next write, although
  passes of the serve loop overlap the call, raise half way, time out and are answered
  late; and what a call does to several ports is what one abstract service would do.
- *Log.* A clear between the arrival and the end of a request, also of one the ring
  buffer dropped, leaves the counters equal to the rows. A reader that takes no common
  lock over the logs misses no row that stays.
- *Proxy and store.* A cut-off that answered is followed by no delivery; a read or flush
  reports what it must though keys expire and are written between its commands.
- *Requests and listeners.* A window counts each request once, the row of a request tells
  the reply its caller got, for every kind of listener.
- *Control plane.* A POST is stored whole or not at all, a stored fault can happen, a
  reset leaves nothing behind in its reach and touches nothing beyond it.
- *Ends.* Control calls, resets, cut-offs, connections, writers, gRPC calls and `stop()`
  come to their end.

## 4. Bounds and deadlock

Two writes are the shortest history in which a stale report, an unanswered ask or a late
pass of the first can mislead the second. Four rows and a buffer of two make rollover of a
row in flight, and two clears make a row finalized twice with a clear before each. Three
gate moves are a cut-off, a restore and a second cut-off, from two threads that overlap, with one
connection writing while another enters. Three requests and a window of one or two leave a
request after the window. A queue of one is full after one frame, a memory of one evicts at
the second digest, a log of two is full while a self-test runs. Documents of two
fragments make cycles, depths measured from two places and fields selected twice. One time
step below, at and above the correlation window, one block below, at and above a head,
and frame lengths on both sides of each form are in the instances. For the modules with
proofs the theorems cover every other size.

Names of bounds: `MaxWrites`, `MaxMoves`, `MaxResets`, `MaxClears`, `MaxOps`, `MaxFrames`,
`MaxRows`, `MaxClock`, `MaxReplies`, `MaxExpiries`, `MaxKeys`. They stand in guards and cap
only what the environment does: writes, calls, ticks.

*Symmetry* is used for threads, connections, digests and rows that no definition tells
apart, never in a run with liveness.

*Deadlock* is checked in `port_pair`. In the other runs the system really may stop: a
stopped port, an ended connection, a finished request and a refused table have no next step
once the environment has used its bound.

## 5. Fairness

- `LoopFairness`, `CallFairness` (ports): a serve loop that can step does, since it is a
  daemon thread that lives as long as the process; a call that was made goes on. Nobody has
  to make a call. The poll is not fair, so that a lost wake-up would show.
- `RetryFairness` is the hypothesis of `PortsConvergeByRetry` only: the poll fires, and
  a bind, a serve and a close do not fail for ever when they are retried for ever. Without
  it no port could be promised.
- RESP proxy: the thread of an accepted connection and a cut-off that began go on; each
  read, dial and write of the code has a deadline. No connection has to be opened and no
  gate has to be moved.
- WebSocket: the writer goes on, and so does the end of a reader; a reader need not read.
- HTTP connections: workers go on; a caller need not do anything.
- `start()` and `stop()`, once called, and the threads they made go on; nobody has to call
  `stop()` or to free a port.
- Resets and calls go on. A wait for ports and for the deliveries of a cut-off is bounded.
- A gRPC call that sleeps wakes, since its sleeps are of finite length.

All are weak fairness except the retry of a bind, a serve and a close, which another pass
may disable and enable again.

## 6. Proofs

TLAPS checks these for every value of the constants that satisfies the named assumption of
the module. Each invariant was checked by TLC on the instances before the proof.

*Ports* (`PortControlTypes`, `PortControlProofs`, `PortControlRefinement`;
`PortsAssumption`). `ControlInvariant` is `Spec => [](TypeOK /\ ControlInv)`. None of the
properties is inductive. The strengthening says

- of a loop (`LoopInv`): the server object determines the socket at each label, the
  counter a pass saw is at most the ask counter, a stopped port has no server;
- of a port (`Stable`): it is *stable* for a state when the report, the socket and
  the wish agree and no running pass can have read another wish. This is what a
  call establishes through `last_report()` or through a ticket, and what the loop
  preserves until the next write;
- of a call (`CallInv`): who holds the lock, that its wishes are the scenario's, and
  that each port it no longer waits for is stable or stuck.

`PromiseKept` follows because every promised port is stable. In this model the test
`done >= asked` of `last_report` is not what keeps the promise (the pass flag is); it makes
the next call wait again for a port that timed out. `ServiceImplemented` maps each step to a
step or a stutter of `PortService`.

*Call log* (`CallLogProofs`; `LogAssumption`). Exact counters and an exact buffer for any
number of rows, any buffer length and any number of clears. `LogInv` adds that no row is of
a later generation (`NoFutureRow`).

*RESP proxy* (`RespProxyProofs`; `ProxyAssumption`), for any finite set of connections and
any control threads. `CutOffQuiet` needs that the count is exact (`CountExact`, by adding
and removing one element of the set of deliveries under way) and that a gate that drained
stays shut with a count of zero (`SealedShut`); `GateIsOwn` that the thread that drains is
the holder of `transitions` (`DrainOwned`); `HeldTouchesNoStore` that a connection accepted
under a timeout cut-off is still before its dial (`BornHeldWaits`); `NothingLeaks` that a
connection is registered exactly between `Enter` and `Leave` (`Registered`).

*Request flow* (`RequestFlowProofs`; `FlowAssumption`, `OverrideAssumption`). `WindowExact`
by `WindowInv`: the requests that took a place in the window are counted, each once, and a
restart empties both sides together. `RowTellsReply` and `FaultsScoped` by `AnswerInv`: the
verdict of a request follows from the block it read, and from there on only moves along.

*Subscriptions* (`WsSubscriptionsProofs`; `WsAssumption`). `NoOrphan` by `RegistryInv`: what a
connection calls its own is owned by it, and what left the registry stays out
(`PoppedStaysOut`). `OwnerRemoves` is an action property from the same invariant.
`EventsAtOwner` and `PushRowExact` by `EventInv`: a push that is under way, in a queue or
taken by a writer is at the connection that owns its subscription.

*Cache-sim* (`CacheSimProofs`; `CacheAssumption`). `SelftestSound` needs that a probe between
its two reads of the counter was recorded (`ProbeRecorded`); `LogCounted` and `HitHasEntry`
are inductive with the types; `ResetMisses` with `ResetStays`.

*Only model-checked.* Liveness, because the prover has no fairness and no ENABLED; the
recursive algorithms (GraphQL documents) and what else is computed over data (routes,
frames, registry, merges of scenarios, history), because they need induction over data; and
the components without a proof module.

## 7. Findings

`call_log_stamps` is the run of a statement that the code does not keep. The other
statements of this table are definitions too. TLC refutes each of them in an instance of its
module like the ones of section 3, with the constant in the last column where it takes one
that those instances leave out. A comment at the definition says so.

| Definition | Module | Code (`src/`) | The repository says | The code does | Takes |
|---|---|---|---|---|---|
| `PostClearTimestamps` | `CallLog` | `provider_simulator/domain/call_log.py:171` | "post-clear history never carries pre-clear timestamps" (`call_log.py:201`) | the row is stamped before the lock, so a `clear()` in between leaves an old time |  |
| `CountersNeverReset` | `CallLog` | `provider_simulator/domain/call_log.py:289` | "The counters that never reset" (`CONTEXT.md:348`) | `clear()` sets them to zero |  |
| `HeldNotReclaimed` | `RespProxy` | `provider_simulator/resp_proxy.py:505` | "The idle clock does not run while the gate is cut off" (`resp_proxy.py:77`) | the gate is re-read under the lock and the connection closed after it: a timeout cut-off in between answers, and the router reads a close where a hang was staged |  |
| `CutOffCountsConnections` | `RespProxy` | `provider_simulator/resp_proxy.py:342` | `closed_by_cut_off` counts "the ones a cut-off ended" (`resp_proxy.py:191`) | a second error cut-off counts a connection again that the first one ended |  |
| `FirstNFault` | `RequestFlow` | `provider_simulator/control_api.py:647` | "the first N requests on a targeted endpoint get the fault" (`fault_policy.py:23`) | a request that read the block before the POST takes a place of the new window |  |
| `OverridesScoped` | `RequestFlow` | `provider_simulator/listeners/base.py:309` | "The transports filter scopes per-method overrides the same way" (`base.py:32`) | a result or error override reaches endpoints outside the filter |  |
| `NoLeakedRow` | `RequestFlow` | `provider_simulator/listeners/base.py:326` | "Call from a `finally` block so a dying handler can't leak an in_flight row" (`call_log.py:198`) | `finalize` is not in a `finally`; a `build_content` that raises leaves the row in flight |  |
| `OneBlock` | `RequestFlow` | `provider_simulator/listeners/graphql.py:64` | "one fixed sequence for all transports" with one snapshot (`base.py:3`) | an unreadable GraphQL body makes the listener read the scenario a second time | `Graphql` not empty |
| `SelftestTruthful` | `CacheSim` | `provider_simulator/control_api.py:1406` | a self-test must not report "a call that did arrive as missing" (`control_api.py:1384`) | lookups, a clear or a reset between the probe and the read of the log drop its row |  |
| `ResetIsFresh` | `CacheSim` | `provider_simulator/cache_sim.py:535` | "the state a reset cache should describe" is one that has just come up (`cache_sim.py:531`) | the error status, message and body of an earlier test stay |  |
| `LookupRecorded` | `CacheSim` | `provider_simulator/cache_sim.py:651` | "a lookup that reached us is a lookup, however it was shaped" (`cache_sim.py:637`) | a block that is no number raises before the record |  |
| `StagingAnswered` | `CacheSim` | `provider_simulator/control_api.py:1287` | "Refuse a field whose type the router cannot read" (`cache_sim.py:244`) | a `TypeError` of `validate` is not caught, and the call gets no answer |  |
| `ClosedIsUnknown` | `WsSubscriptions` | `provider_simulator/listeners/ws.py:132` | a closed subscription is answered "unknown" (`ws.py:122`) | the mark is read before the put; a close in between is answered "emitted" |  |
| `WriterExits` | `WsSubscriptions` | `server.py:766` | "Exits on the sentinel or when the peer disconnects" (`server.py:650`) | a full queue drops the sentinel; a writer that sends all that is queued then waits for ever | `LiveSpec` |
| `Transparent` | `WsFrames` | `provider_simulator/listeners/ws_protocol.py:164` | "Handles RFC 6455 §5.4 fragmentation transparently" (`ws_protocol.py:124`) | a control frame inside a message drops the part that was assembled | `ControlInside = TRUE` |
| `NoPortTwice` | `Registry` | `provider_simulator/domain/registry.py:87` | it refuses "a port used twice" (`registry.py:6`) | a row with one port on two endpoints is accepted | such a row in `Extra` |
| `ClosedCanHappen` | `ScenarioAcceptance` | `provider_simulator/control_api.py:197` | a filter that is not a list "is one that ScenarioConfig refuses" (`control_api.py:188`) | an object is accepted, and a `port_closed` that closes no port is stored | every shape in `Shapes` |
| `EveryPostAnswered` | `ScenarioAcceptance` | `provider_simulator/domain/scenario.py:284` | such a filter is refused "with the reason that fits every mode" (`control_api.py:192`) | a filter that is a number raises a `TypeError`, and the POST gets no answer | every shape in `Shapes` |
| `StaleIsReverted` | `ScenarioAcceptance` | `server.py:1574` | the sweep reverts "any provider whose scenario hasn't been written to" (`server.py:1547`) | a provider in mode success is skipped, whatever its other fields hold | `LiveSpec` |
| `FlushExact` | `RespStore` | `provider_simulator/resp_store.py:264` | "Remove every key matching the pattern. Returns how many went." (`resp_store.py:244`) | a key that is not UTF-8 comes back under another name and is not removed | `Lossy` not empty |
| `ShowsRequested` | `ChainHeads` | `provider_simulator/chains/btc.py:129` | "tests can request any block by hash and see the echoed height" (`stubs_btc.py:92`) | the hash is echoed and the height stays that of the head |  |
| `HeadsReadable` | `ChainHeads` | `provider_simulator/control_api.py:96` | a bad number "fails with a 400" (`control_api.py:80`) | `per_second` Infinity is stored, and reading the head raises until a reset | Infinity in `Rates` |
| `FirstRunKept` | `SuiTransactions` | `provider_simulator/listeners/graphql.py:100` | "A digest that ran before keeps the time of its first run" (`provider.py:123`) | of two runs at once the later may be remembered first |  |
| `OneGroup` | `History` | `provider_simulator/control_api.py:1121` | "Two calls with the same (request_id, method) within this window are one group" (`control_api.py:65`) | the window is measured from the first call of a group |  |
| `FirstAttempted` | `History` | `provider_simulator/control_api.py:1107` | "`call_order` (1 = first attempted)" (`docs/using_the_simulator.md:125`) | a call that arrives at a log already read is left out, a later one at the next log is first |  |
| `HeaderUnderscore` | `History` | `provider_simulator/control_api.py:1160` | "Underscores in the parameter name become hyphens" (`docs/ARCHITECTURE_GUIDE.md:877`) | the name is only put in lower case | a header in `Headers` |
| `ProviderNarrows` | `History` | `provider_simulator/control_api.py:1100` | "only errors on provider 2" with `provider=2` (`docs/curl_reference.md:157`) | the key is `pid`; an unknown key is ignored | such a query in `Queries` |
| `StopAlwaysReturns` | `SimulatorLife` | `server.py:1822` | "`stop()` shuts the HTTP servers down" (`server.py:1599`) | after a bind that failed, `shutdown()` waits for a server that never served | `FairSpec` |
| `EveryRequestedShown` | `GraphQLDocument` | `provider_simulator/graphql_document.py:369` | "a requested key that the dict lacks gives None" (`graphql_document.py:345`) | a key selected twice keeps only what its last selection asks for |  |
| `OkForAReply` | `GrpcCall` | `provider_simulator/listeners/grpc.py:94` | `grpc_status` is "`OK` for a reply" (`docs/using_the_simulator.md:134`) | an error staged with the message OK, or code 0, is written as OK and sent without a reply | such an error in `Staged` |

`ClosedCanHappen` and `FlushExact` hold where the constant of the last column is as in the
runs, and are checked there.

## 8. Not modelled

- The dispatch of the control API's HTTP server (paths to handlers, JSON in and out): one
  request at a time and no state; the handlers behind it are modelled.
- The text of replies: stubs, the canned content of the chains, build information, and the
  wire text that prints headers and bodies. `ProviderPort` keeps lengths, header names and types.
- The text of the WebSocket handshake, and what a frame says beyond its opcode and payload.
- The parser of the RESP wire protocol in `resp_store.py`, one reply at a time on a socket of
  its own; and of the proxy the injected latency, a sleep before a delivery, and the accept
  loop, whose effect is `Accept`.
- Floating-point time: a deadline may pass at any moment, and heads move in half blocks per tick.
- Generated protobuf code, and the parser of graphql-core and grpcio, which are libraries.
- The entry point that reads the environment and calls `start()`.
