---------------------------- MODULE PortControl -----------------------------
(***************************************************************************)
(* mode="port_closed": how a control call closes or opens a provider port. *)
(*                                                                         *)
(*   - control calls (POST /scenario, the scenario resets and the          *)
(*     time-to-live sweep) hold port_lock, write scenarios, ask the gates  *)
(*     of the ports they may move, wait, measure, and answer;              *)
(*   - one serve loop per port (_HttpPortLoop.run, or _serve of            *)
(*     _run_grpc_in_thread) works in passes: read the wish, close or open  *)
(*     the port, report to the gate;                                       *)
(*   - GET /ready probes the ports;                                        *)
(*   - SimulatorServer.stop() stops the loops of the http and ws ports.    *)
(*                                                                         *)
(* A scenario is abstracted to its mode and to the endpoints its filters   *)
(* target.  Time is abstracted: a wait may time out at any moment.         *)
(***************************************************************************)
EXTENDS PortGate, FiniteSets

CONSTANTS Providers,   \* the providers of the registry
          Ports,       \* every provider port of the registry
          ProviderOf,  \* the provider that serves each port
          Grpc,        \* the ports served by a gRPC loop
          Stoppable,   \* the ports whose loop SimulatorServer.stop() may stop
          Pools,       \* the sets of providers a pool-scoped reset names
          Writers,     \* control threads and the sweep thread
          Probers,     \* threads that answer GET /ready
          MaxWrites    \* bound: control calls made

ASSUME PortsAssumption ==
  /\ Gated \subseteq Ports
  /\ Grpc \subseteq Ports
  /\ Stoppable \subseteq Gated \ Grpc
  /\ ProviderOf \in [Ports -> Providers]
  /\ Pools \subseteq SUBSET Providers
  /\ MaxWrites \in Nat
  /\ "nobody" \notin Writers \cup Probers
  /\ Writers \cap Probers = {}

VARIABLES
  scenario,    \* scenario[pr]: the stored scenario of a provider
  \* the serve loop of a port
  loopPc,      \* where the loop is
  seen,        \* the ask counter begin_pass returned; 0 between passes
  server,      \* the server object the loop owns
  listening,   \* the listening socket of the port: what a TCP connect meets
  wake,        \* ports whose wake event is set
  stopped,     \* ports whose loop was told to stop
  stopping,    \* ports whose stop() took the server and did not close it yet
  \* the control calls
  portLock,    \* who holds port_lock
  writes,      \* control calls made so far
  pc,          \* where a control call is
  staged,      \* the writes a call has still to make
  written,     \* providers written whose wishes the call has not read yet
  want,        \* want[w][p]: the state call w wished for port p
  toCheck,     \* wished ports whose last report the call has not looked at
  toWait,      \* ports the call asked and has still to wait for
  ticket,      \* ticket[w][p]: the ticket of the ask of port p
  cur,         \* the port the call is asking or probing, if any
  stuck,       \* ports that did not reach their state
  \* GET /ready
  readyPc,     \* where a prober is
  held,        \* probers that got port_lock in time
  toProbe,     \* ports it has still to probe
  missing,     \* ports that did not accept its connection
  \* history: what the last answer "ok" about a port said, until the next write
  promised

loopVars == <<loopPc, seen, server, listening, wake, stopped, stopping>>
callVars == <<pc, staged, written, want, toCheck, toWait, ticket, cur, stuck>>
readyVars == <<readyPc, held, toProbe, missing>>
vars == <<scenario, gateVars, loopVars, portLock, writes, callVars, readyVars, promised>>

EndpointsOf(pr) == {p \in Ports : ProviderOf[p] = pr}

(* The scenarios a provider can hold. A filter of another mode moves no port. *)
Scenario == [mode : {"success", "fault", "port_closed"}, targets : SUBSET Ports]
Scenarios(pr) ==
  [mode : {"success", "fault"}, targets : {EndpointsOf(pr)}]
    \cup [mode : {"port_closed"}, targets : SUBSET EndpointsOf(pr)]

Default(pr) == [mode |-> "success", targets |-> EndpointsOf(pr)]

WantsClosed(p) ==
  /\ scenario[ProviderOf[p]].mode = "port_closed"
  /\ p \in scenario[ProviderOf[p]].targets

Wish(p) == IF WantsClosed(p) THEN "closed" ELSE "open"

(* _a_port_closed_that_cannot_happen: it targets nothing, or a port no listener runs on. *)
Refused(s) ==
  /\ s.mode = "port_closed"
  /\ s.targets = {} \/ ~(s.targets \subseteq Gated)

-----------------------------------------------------------------------------
(* The serve loop of a port.                                               *)

(* The http loop holds its own lock from the read of the wish to the report. *)
LockedLabels == {"close", "shut", "close again", "shut again", "bind", "serve"}
HoldsLoopLock(p) == p \notin Grpc /\ loopPc[p] \in LockedLabels

Goto(p, label) == loopPc' = [loopPc EXCEPT ![p] = label]

(* The report of a pass that leaves the server s: open only for one that serves. *)
Report(s) == IF s = "serving" THEN "end open" ELSE "end closed"

(* Mutant of Plan: a close that raised is never finished. *)
PlanKeepsHalf(p, w, s) ==
  CASE s = "none"                              -> IF w = "open" THEN "bind" ELSE Report(s)
    [] s # "none" /\ w = "closed"              -> IF p \in Grpc THEN "shut" ELSE "close"
    [] s = "bound" /\ w = "open"               -> "serve"
    [] s \in {"half", "serving"} /\ w = "open" -> Report(s)

(* What a pass does about the wish w when the loop owns the server s. *)
Plan(p, w, s) ==
  CASE s = "none"                              -> IF w = "open" THEN "bind" ELSE Report(s)
    [] s # "none" /\ w = "closed"              -> IF p \in Grpc THEN "shut" ELSE "close"
    [] s = "half" /\ w = "open"                -> "close again"
    [] s = "bound" /\ w = "open"               -> "serve"
    [] s = "serving" /\ w = "open"             -> Report(s)

Attach(p) ==
  /\ loopPc[p] = "new"
  /\ Goto(p, "begin")
  /\ UNCHANGED <<gateVars, seen, server, listening, wake, stopped, stopping>>

Begin(p) ==
  /\ loopPc[p] = "begin"
  /\ BeginPass(p)
  /\ seen' = [seen EXCEPT ![p] = asked[p]]
  /\ Goto(p, "read")
  /\ UNCHANGED <<server, listening, wake, stopped, stopping>>

(* Mutant of ReadWish: the pass does not look at the stop flag. *)
ReadWishStopped(p) ==
  /\ loopPc[p] = "read"
  /\ Goto(p, Plan(p, Wish(p), server[p]))
  /\ UNCHANGED <<gateVars, seen, server, listening, wake, stopped, stopping>>

ReadWish(p) ==
  /\ loopPc[p] = "read"
  /\ p \notin stopped
  /\ Goto(p, Plan(p, Wish(p), server[p]))
  /\ UNCHANGED <<gateVars, seen, server, listening, wake, stopped, stopping>>

(* The loop returns with its pass begun and never ended. *)
ReadStopped(p) ==
  /\ loopPc[p] = "read"
  /\ p \in stopped
  /\ Goto(p, "gone")
  /\ UNCHANGED <<gateVars, seen, server, listening, wake, stopped, stopping>>

(* close_port of an http server: first the flag closed_by_scenario ... *)
CloseFlag(p) ==
  /\ loopPc[p] \in {"close", "close again"}
  /\ server' = [server EXCEPT ![p] = "half"]
  /\ Goto(p, IF loopPc[p] = "close" THEN "shut" ELSE "shut again")
  /\ UNCHANGED <<gateVars, seen, listening, wake, stopped, stopping>>

(* ... then the socket, and the loop drops the server; gRPC: server.stop(grace=None). *)
Shut(p) ==
  /\ loopPc[p] \in {"shut", "shut again"}
  /\ listening' = [listening EXCEPT ![p] = "closed"]
  /\ server' = [server EXCEPT ![p] = "none"]
  /\ Goto(p, IF loopPc[p] = "shut" THEN Report("none") ELSE "bind")
  /\ UNCHANGED <<gateVars, seen, wake, stopped, stopping>>

(* close_port raised after it closed the socket: the loop keeps the server. *)
(* gRPC: a stop that raises leaves the server as it is.                     *)
ShutRaises(p) ==
  /\ loopPc[p] \in {"shut", "shut again"}
  /\ listening' = [listening EXCEPT ![p] = IF p \in Grpc THEN @ ELSE "closed"]
  /\ Goto(p, Report(server[p]))
  /\ UNCHANGED <<gateVars, seen, server, wake, stopped, stopping>>

(* new_server() binds the socket; a gRPC server starts in the same step. *)
Bind(p) ==
  /\ loopPc[p] = "bind"
  /\ listening' = [listening EXCEPT ![p] = "open"]
  /\ server' = [server EXCEPT ![p] = IF p \in Grpc THEN "serving" ELSE "bound"]
  /\ Goto(p, IF p \in Grpc THEN Report("serving") ELSE "serve")
  /\ UNCHANGED <<gateVars, seen, wake, stopped, stopping>>

BindRaises(p) ==
  /\ loopPc[p] = "bind"
  /\ Goto(p, Report("none"))
  /\ UNCHANGED <<gateVars, seen, server, listening, wake, stopped, stopping>>

Serve(p) ==
  /\ loopPc[p] = "serve"
  /\ server' = [server EXCEPT ![p] = "serving"]
  /\ Goto(p, Report("serving"))
  /\ UNCHANGED <<gateVars, seen, listening, wake, stopped, stopping>>

(* Mutant of ServeRaises: the bound socket stays. *)
ServeRaisesBound(p) ==
  /\ loopPc[p] = "serve"
  /\ server' = [server EXCEPT ![p] = "none"]
  /\ Goto(p, Report("none"))
  /\ UNCHANGED <<gateVars, seen, listening, wake, stopped, stopping>>

(* No serve thread: the loop drops the server and closes its socket. *)
ServeRaises(p) ==
  /\ loopPc[p] = "serve"
  /\ server' = [server EXCEPT ![p] = "none"]
  /\ listening' = [listening EXCEPT ![p] = "closed"]
  /\ Goto(p, Report("none"))
  /\ UNCHANGED <<gateVars, seen, wake, stopped, stopping>>

(* Mutant of End: the wake event is cleared at the end of the pass. *)
EndClearsWake(p) ==
  /\ loopPc[p] \in {"end open", "end closed"}
  /\ EndPass(p, seen[p], IF loopPc[p] = "end open" THEN "open" ELSE "closed")
  /\ seen' = [seen EXCEPT ![p] = 0]
  /\ wake' = wake \ {p}
  /\ Goto(p, "wait")
  /\ UNCHANGED <<server, listening, stopped, stopping>>

End(p) ==
  /\ loopPc[p] \in {"end open", "end closed"}
  /\ EndPass(p, seen[p], IF loopPc[p] = "end open" THEN "open" ELSE "closed")
  /\ seen' = [seen EXCEPT ![p] = 0]
  /\ Goto(p, "wait")
  /\ UNCHANGED <<server, listening, wake, stopped, stopping>>

Woken(p) ==
  /\ loopPc[p] = "wait"
  /\ p \in wake
  /\ Goto(p, "clear")
  /\ UNCHANGED <<gateVars, seen, server, listening, wake, stopped, stopping>>

(* The wait for the wake event times out: the poll. *)
Poll(p) ==
  /\ loopPc[p] = "wait"
  /\ p \notin wake
  /\ Goto(p, "clear")
  /\ UNCHANGED <<gateVars, seen, server, listening, wake, stopped, stopping>>

Clear(p) ==
  /\ loopPc[p] = "clear"
  /\ wake' = wake \ {p}
  /\ Goto(p, "begin")
  /\ UNCHANGED <<gateVars, seen, server, listening, stopped, stopping>>

(* _HttpPortLoop.stop: under the loop's lock it takes the server ... *)
StopTake(p) ==
  /\ p \in Stoppable
  /\ p \notin stopped
  /\ ~HoldsLoopLock(p)
  /\ stopped' = stopped \cup {p}
  /\ stopping' = stopping \cup {p}
  /\ server' = [server EXCEPT ![p] = "none"]
  /\ wake' = wake \cup {p}
  /\ UNCHANGED <<gateVars, loopPc, seen, listening>>

(* ... and then shuts it down and closes its socket. *)
StopClose(p) ==
  /\ p \in stopping
  /\ stopping' = stopping \ {p}
  /\ listening' = [listening EXCEPT ![p] = "closed"]
  /\ UNCHANGED <<gateVars, loopPc, seen, server, wake, stopped>>

(* The loop's own steps, the poll apart. *)
Pass(p) ==
  \/ Attach(p) \/ Begin(p) \/ ReadWish(p) \/ ReadStopped(p)
  \/ CloseFlag(p) \/ Shut(p) \/ ShutRaises(p)
  \/ Bind(p) \/ BindRaises(p) \/ Serve(p) \/ ServeRaises(p)
  \/ End(p) \/ Woken(p) \/ Clear(p)

LoopStep(p) ==
  /\ Pass(p) \/ Poll(p) \/ StopTake(p) \/ StopClose(p)
  /\ UNCHANGED <<scenario, portLock, writes, callVars, readyVars, promised>>

-----------------------------------------------------------------------------
(* A control call.                                                         *)

At(w, label) == pc' = [pc EXCEPT ![w] = label]

(* Mutant of MayCall: the control calls take no lock. *)
MayCallUnlocked(w) == pc[w] = "idle" /\ writes < MaxWrites

(* A thread may make a call when nobody holds port_lock. *)
MayCall(w) == pc[w] = "idle" /\ portLock = "nobody" /\ writes < MaxWrites

(* The call has port_lock and knows its writes: a function on the providers it writes. *)
Stage(w, kind, s) ==
  /\ portLock' = w
  /\ writes' = writes + 1
  /\ At(w, kind)
  /\ staged' = [staged EXCEPT ![w] = s]
  /\ UNCHANGED <<scenario, written, want, toCheck, toWait, ticket, cur, stuck, promised>>

(* Every block passed: nothing is written before the last one is checked. *)
PostScenario(w) ==
  /\ MayCall(w)
  /\ \E prs \in SUBSET Providers :
       \E s \in [prs -> UNION {Scenarios(pr) : pr \in prs}] :
         /\ \A pr \in prs : s[pr] \in Scenarios(pr) /\ ~Refused(s[pr])
         /\ Stage(w, "write", s)

(* reset and reset_all: the whole simulator, or the providers of one pool. *)
Reset(w) ==
  /\ MayCall(w)
  /\ \E scope \in Pools \cup {Providers} : Stage(w, "write", [pr \in scope |-> Default(pr)])

(* The time-to-live sweep reverts each stale provider whose mode is not success. *)
Sweep(w) ==
  /\ MayCall(w)
  /\ \E stale \in SUBSET {pr \in Providers : scenario[pr].mode # "success"} :
       Stage(w, "sweep", [pr \in stale |-> Default(pr)])

(* A POST or a reset reads the wishes of a provider right after its write;  *)
(* the sweep reads them after its last write.                               *)
WriteProvider(w) ==
  /\ pc[w] \in {"write", "sweep"}
  /\ pc[w] = "write" => written[w] = {}
  /\ \E pr \in DOMAIN staged[w] :
       /\ scenario' = [scenario EXCEPT ![pr] = staged[w][pr]]
       /\ staged' = [staged EXCEPT ![w] = [q \in DOMAIN staged[w] \ {pr} |-> staged[w][q]]]
       /\ written' = [written EXCEPT ![w] = @ \cup {pr}]
       /\ promised' = [p \in Gated |-> IF ProviderOf[p] = pr THEN "none" ELSE promised[p]]
  /\ UNCHANGED <<portLock, writes, pc, want, toCheck, toWait, ticket, cur, stuck>>

PortWishes(w) ==
  /\ pc[w] \in {"write", "sweep"}
  /\ pc[w] = "sweep" => DOMAIN staged[w] = {}
  /\ \E pr \in written[w] :
       LET gates == EndpointsOf(pr) \cap Gated IN
       /\ want' = [want EXCEPT ![w] = [p \in Gated |-> IF p \in gates THEN Wish(p) ELSE @[p]]]
       /\ toCheck' = [toCheck EXCEPT ![w] = @ \cup gates]
       /\ written' = [written EXCEPT ![w] = @ \ {pr}]
  /\ UNCHANGED <<scenario, portLock, writes, pc, staged, toWait, ticket, cur, stuck, promised>>

SettlePorts(w) ==
  /\ pc[w] \in {"write", "sweep"}
  /\ DOMAIN staged[w] = {} /\ written[w] = {}
  /\ At(w, "check")
  /\ UNCHANGED <<scenario, portLock, writes, staged, written, want, toCheck, toWait, ticket, cur, stuck, promised>>

(* The last report of a gate decides whether the call asks it. *)
CheckReport(w) ==
  /\ pc[w] = "check"
  /\ \E p \in toCheck[w] :
       /\ toCheck' = [toCheck EXCEPT ![w] = @ \ {p}]
       /\ IF LastReportIs(p, want[w][p])
            THEN UNCHANGED <<pc, cur>>
            ELSE At(w, "ask") /\ cur' = [cur EXCEPT ![w] = {p}]
  /\ UNCHANGED <<scenario, portLock, writes, staged, written, want, toWait, ticket, stuck, promised>>

(* Mutant of AskPort: the call waits only for the gate it asked last. *)
AskPortForgets(w) ==
  /\ pc[w] = "ask"
  /\ \E p \in cur[w] :
       /\ Ask(p)
       /\ ticket' = [ticket EXCEPT ![w] = [@ EXCEPT ![p] = asked[p] + 1]]
       /\ toWait' = [toWait EXCEPT ![w] = {p}]
       /\ At(w, IF loopPc[p] = "new" THEN "check" ELSE "wake")
       /\ cur' = [cur EXCEPT ![w] = IF loopPc[p] = "new" THEN {} ELSE @]
  /\ UNCHANGED <<scenario, portLock, writes, staged, written, want, toCheck, stuck, promised>>

(* ask(): the counter and the wake call of the loop are read together. *)
AskPort(w) ==
  /\ pc[w] = "ask"
  /\ \E p \in cur[w] :
       /\ Ask(p)
       /\ ticket' = [ticket EXCEPT ![w] = [@ EXCEPT ![p] = asked[p] + 1]]
       /\ toWait' = [toWait EXCEPT ![w] = @ \cup {p}]
       /\ At(w, IF loopPc[p] = "new" THEN "check" ELSE "wake")
       /\ cur' = [cur EXCEPT ![w] = IF loopPc[p] = "new" THEN {} ELSE @]
  /\ UNCHANGED <<scenario, portLock, writes, staged, written, want, toCheck, stuck, promised>>

(* The second half of ask(), outside the condition: wake the loop. *)
WakeLoop(w) ==
  /\ pc[w] = "wake"
  /\ wake' = wake \cup cur[w]
  /\ cur' = [cur EXCEPT ![w] = {}]
  /\ At(w, "check")
  /\ UNCHANGED <<scenario, portLock, writes, staged, written, want, toCheck, toWait, ticket, stuck, promised>>

StartWaiting(w) ==
  /\ pc[w] = "check"
  /\ toCheck[w] = {}
  /\ At(w, "wait")
  /\ UNCHANGED <<scenario, portLock, writes, staged, written, want, toCheck, toWait, ticket, cur, stuck, promised>>

WaitReached(w) ==
  /\ pc[w] = "wait"
  /\ \E p \in toWait[w] :
       /\ Reached(p, ticket[w][p], want[w][p])
       /\ toWait' = [toWait EXCEPT ![w] = @ \ {p}]
       /\ cur' = [cur EXCEPT ![w] = {p}]
  /\ At(w, "probe")
  /\ UNCHANGED <<scenario, portLock, writes, staged, written, want, toCheck, ticket, stuck, promised>>

WaitTimeout(w) ==
  /\ pc[w] = "wait"
  /\ \E p \in toWait[w] :
       /\ ~Reached(p, ticket[w][p], want[w][p])
       /\ toWait' = [toWait EXCEPT ![w] = @ \ {p}]
       /\ stuck' = [stuck EXCEPT ![w] = @ \cup {p}]
  /\ UNCHANGED <<scenario, portLock, writes, pc, staged, written, want, toCheck, ticket, cur, promised>>

(* accepts(): one TCP connection, made outside the gate's condition. *)
Probe(w) ==
  /\ pc[w] = "probe"
  /\ stuck' = [stuck EXCEPT ![w] = @ \cup {p \in cur[w] : listening[p] # want[w][p]}]
  /\ cur' = [cur EXCEPT ![w] = {}]
  /\ At(w, "wait")
  /\ UNCHANGED <<scenario, portLock, writes, staged, written, want, toCheck, toWait, ticket, promised>>

(* The call returns and drops what it knew. *)
Return(w) ==
  /\ pc[w] = "wait" /\ toWait[w] = {}
  /\ At(w, "idle")
  /\ portLock' = "nobody"
  /\ want' = [want EXCEPT ![w] = [p \in Gated |-> "none"]]
  /\ ticket' = [ticket EXCEPT ![w] = [p \in Gated |-> 0]]
  /\ stuck' = [stuck EXCEPT ![w] = {}]
  /\ UNCHANGED <<scenario, writes, staged, written, toCheck, toWait, cur>>

(* 200, or a sweep that logs nothing: every port of the call is where its scenario put it. *)
AnswerOk(w) ==
  /\ stuck[w] = {}
  /\ promised' = [p \in Gated |-> IF want[w][p] = "none" THEN promised[p] ELSE want[w][p]]
  /\ Return(w)

(* 500: some port did not get there. *)
AnswerStuck(w) ==
  /\ stuck[w] # {}
  /\ Return(w)
  /\ UNCHANGED promised

CallProgress(w) ==
  \/ WriteProvider(w) \/ PortWishes(w) \/ SettlePorts(w) \/ CheckReport(w) \/ StartWaiting(w)
  \/ WaitReached(w) \/ WaitTimeout(w) \/ Probe(w) \/ AnswerOk(w) \/ AnswerStuck(w)

CallStep(w) ==
  /\ \/ (PostScenario(w) \/ Reset(w) \/ Sweep(w) \/ CallProgress(w)) /\ UNCHANGED <<gateVars, loopVars>>
     \/ AskPort(w) /\ UNCHANGED loopVars
     \/ WakeLoop(w) /\ UNCHANGED <<gateVars, loopPc, seen, server, listening, stopped, stopping>>
  /\ UNCHANGED readyVars

-----------------------------------------------------------------------------
(* GET /ready.                                                             *)

ReadyLock(r) ==
  /\ readyPc[r] = "idle"
  /\ portLock = "nobody"
  /\ portLock' = r
  /\ held' = held \cup {r}
  /\ readyPc' = [readyPc EXCEPT ![r] = "read"]
  /\ UNCHANGED <<toProbe, missing>>

(* Mutant of ReadyNoLock: the prober takes a lock it did not get for its own. *)
ReadyBelievesLock(r) ==
  /\ readyPc[r] = "idle"
  /\ portLock # "nobody"
  /\ held' = held \cup {r}
  /\ readyPc' = [readyPc EXCEPT ![r] = "read"]
  /\ UNCHANGED <<portLock, toProbe, missing>>

(* The lock did not come within _READY_LOCK_WAIT_S: read without it. *)
ReadyNoLock(r) ==
  /\ readyPc[r] = "idle"
  /\ portLock # "nobody"
  /\ readyPc' = [readyPc EXCEPT ![r] = "read"]
  /\ UNCHANGED <<portLock, held, toProbe, missing>>

(* Leave out the ports a scenario closes. *)
ReadyRead(r) ==
  /\ readyPc[r] = "read"
  /\ toProbe' = [toProbe EXCEPT ![r] = {p \in Ports : ~(p \in Gated /\ WantsClosed(p))}]
  /\ readyPc' = [readyPc EXCEPT ![r] = "probe"]
  /\ UNCHANGED <<portLock, held, missing>>

ReadyProbe(r) ==
  /\ readyPc[r] = "probe"
  /\ \E p \in toProbe[r] :
       /\ toProbe' = [toProbe EXCEPT ![r] = @ \ {p}]
       /\ missing' = [missing EXCEPT ![r] = IF listening[p] = "open" THEN @ ELSE @ \cup {p}]
  /\ UNCHANGED <<portLock, held, readyPc>>

ReadyAnswer(r) ==
  /\ readyPc[r] = "probe" /\ toProbe[r] = {}
  /\ readyPc' = [readyPc EXCEPT ![r] = "idle"]
  /\ portLock' = IF portLock = r THEN "nobody" ELSE portLock
  /\ held' = held \ {r}
  /\ missing' = [missing EXCEPT ![r] = {}]
  /\ UNCHANGED toProbe

ReadyStep(r) ==
  /\ ReadyLock(r) \/ ReadyNoLock(r) \/ ReadyRead(r) \/ ReadyProbe(r) \/ ReadyAnswer(r)
  /\ UNCHANGED <<scenario, gateVars, loopVars, writes, callVars, promised>>

-----------------------------------------------------------------------------
Init ==
  /\ scenario = [pr \in Providers |-> Default(pr)]
  /\ GateInit
  /\ loopPc = [p \in Gated |-> "new"]
  /\ seen = [p \in Gated |-> 0]
  /\ server = [p \in Gated |-> IF p \in Grpc THEN "none" ELSE "bound"]
  /\ listening = [p \in Ports |-> IF p \in Gated \ Grpc THEN "open" ELSE "closed"]
  /\ wake = {} /\ stopped = {} /\ stopping = {}
  /\ portLock = "nobody"
  /\ writes = 0
  /\ pc = [w \in Writers |-> "idle"]
  /\ staged = [w \in Writers |-> [pr \in {} |-> Default(pr)]]
  /\ written = [w \in Writers |-> {}]
  /\ want = [w \in Writers |-> [p \in Gated |-> "none"]]
  /\ toCheck = [w \in Writers |-> {}]
  /\ toWait = [w \in Writers |-> {}]
  /\ ticket = [w \in Writers |-> [p \in Gated |-> 0]]
  /\ cur = [w \in Writers |-> {}]
  /\ stuck = [w \in Writers |-> {}]
  /\ readyPc = [r \in Probers |-> "idle"]
  /\ held = {}
  /\ toProbe = [r \in Probers |-> {}]
  /\ missing = [r \in Probers |-> {}]
  /\ promised = [p \in Gated |-> "none"]

Next ==
  \/ \E p \in Gated : LoopStep(p)
  \/ \E w \in Writers : CallStep(w)
  \/ \E r \in Probers : ReadyStep(r)

Spec == Init /\ [][Next]_vars

-----------------------------------------------------------------------------
(* Properties.                                                             *)

LoopLabels == LockedLabels \cup {"new", "begin", "read", "end open", "end closed", "wait", "clear", "gone"}
CallLabels == {"idle", "write", "sweep", "check", "ask", "wake", "wait", "probe"}

(* Every variable keeps its type; in particular each stored scenario is one a provider can hold. *)
TypeOK ==
  /\ scenario \in [Providers -> Scenario]
  /\ \A pr \in Providers : scenario[pr] \in Scenarios(pr)
  /\ GateTypeOK
  /\ loopPc \in [Gated -> LoopLabels]
  /\ seen \in [Gated -> Nat]
  /\ server \in [Gated -> {"none", "bound", "serving", "half"}]
  /\ listening \in [Ports -> PortState]
  /\ wake \subseteq Gated /\ stopped \subseteq Gated /\ stopping \subseteq stopped
  /\ portLock \in Writers \cup Probers \cup {"nobody"}
  /\ writes \in 0..MaxWrites
  /\ pc \in [Writers -> CallLabels]
  /\ staged \in [Writers -> UNION {[S -> Scenario] : S \in SUBSET Providers}]
  /\ \A w \in Writers : \A pr \in DOMAIN staged[w] : staged[w][pr] \in Scenarios(pr)
  /\ written \in [Writers -> SUBSET Providers]
  /\ want \in [Writers -> [Gated -> PortState \cup {"none"}]]
  /\ toCheck \in [Writers -> SUBSET Gated]
  /\ toWait \in [Writers -> SUBSET Gated]
  /\ ticket \in [Writers -> [Gated -> Nat]]
  /\ cur \in [Writers -> SUBSET Gated]
  /\ stuck \in [Writers -> SUBSET Gated]
  /\ readyPc \in [Probers -> {"idle", "read", "probe"}]
  /\ held \subseteq Probers
  /\ toProbe \in [Probers -> SUBSET Ports]
  /\ missing \in [Probers -> SUBSET Ports]
  /\ promised \in [Gated -> PortState \cup {"none"}]

(* A control call that answered "ok" told the truth, and it stays true: until *)
(* the next write to the provider, a TCP connection to each port of the call  *)
(* meets the state the call's scenario asked for, whatever the serve loops    *)
(* still do (_settle_ports: "a 200 for a state that was not reached would     *)
(* let a test connect to a port it believes closed").                         *)
PromiseKept ==
  \A p \in Gated \ stopped : promised[p] # "none" => listening[p] = promised[p]

(* The report of a gate between two passes is what the port is: "closed" means *)
(* that a connection is refused, also after a pass that raised, and "open"     *)
(* that a server serves and not only a bound socket (class _HttpPortLoop: "A   *)
(* pass reports open only for a server that serves ... such a pass reports     *)
(* closed, and the port refuses").                                             *)
ReportMatchesPort ==
  \A p \in (reported \ inPass) \ stopped :
    /\ open[p] = listening[p]
    /\ open[p] = "open" => server[p] = "serving"

(* While a control call holds port_lock nobody changes a scenario it wrote:   *)
(* the state it waits for stays the state its own write asked for             *)
(* (ControlApi.port_lock: "no second writer can change it meanwhile").        *)
OwnWish ==
  \A w \in Writers, p \in Gated : want[w][p] # "none" => want[w][p] = Wish(p)

(* /ready with the lock held never names a port as missing whose last control *)
(* call answered that it is open (_ready: without the lock a port whose       *)
(* listener is still coming back "is reported missing").                      *)
ReadyHonest ==
  \A r \in held : \A p \in (missing[r] \cap Gated) \ stopped : promised[p] # "open"

(* Once stop() of a port loop returned, the port never accepts again          *)
(* (_HttpPortLoop: "no pass opens the port after it").                        *)
StopIsFinal == \A p \in stopped \ stopping : listening[p] = "closed"

(* The abstract service: what a caller of the control API may rely on. *)
Service == INSTANCE PortService WITH
  wished <- [p \in Gated |-> Wish(p)],
  port <- [p \in Gated |-> listening[p]],
  gone <- stopped

(* Gates, loops, lock and tickets together implement the abstract service. *)
ImplementsService == Service!SSpec

-----------------------------------------------------------------------------
(* Liveness.                                                               *)

(* A loop thread that has a step to take takes it; nothing is assumed of the poll. *)
LoopFairness == \A p \in Gated : WF_vars(LoopStep(p) /\ Pass(p))

(* A control call goes on until it returned; no new call has to be made. *)
CallFairness == \A w \in Writers : WF_vars(CallStep(w) /\ writes' = writes)

FairSpec == Spec /\ LoopFairness /\ CallFairness

(* The wake-up of an ask is never lost: a pass that saw the ask finishes even *)
(* if the poll never fires (_HTTP_PORT_POLL_S: "an ask ends the wait at once. *)
(* So this time bounds only what no write announces").                        *)
AskAnswered ==
  \A p \in Gated : asked[p] > done[p] ~> (done[p] >= asked[p] \/ p \in stopped)

(* Every control call returns and gives port_lock back, also when a loop is   *)
(* gone or its port cannot reach its state.                                   *)
CallReturns == \A w \in Writers : pc[w] # "idle" ~> pc[w] = "idle"

(* The poll fires too, and a bind, a serve or a close does not fail forever. *)
RetryFairness ==
  \A p \in Gated :
    /\ WF_vars(LoopStep(p) /\ Poll(p))
    /\ SF_vars(LoopStep(p) /\ (Shut(p) \/ Bind(p)))
    /\ SF_vars(LoopStep(p) /\ Serve(p))

RetrySpec == FairSpec /\ RetryFairness

(* When no more scenario is written, each port comes to the state its        *)
(* scenario asks for and stays, whatever failed on the way and although no   *)
(* control call asks again (port_gate.py: the poll "is what tries a failed   *)
(* bind again").                                                             *)
PortsConverge ==
  <>[](\A p \in Gated \ stopped : listening[p] = Wish(p))
=============================================================================
