--------------------------- MODULE SimulatorLife ----------------------------
(***************************************************************************)
(* The life of one SimulatorServer (server.py): start() binds the ports,   *)
(* registers the gates, makes the threads and starts them last; stop()     *)
(* ends the servers and the loops of the http and ws ports; wait_ready()   *)
(* probes the ports meanwhile.  Another process may hold a port.           *)
(*                                                                         *)
(* A pass of a port loop is one step here: PortControl has its inside.     *)
(* The order of the ports of one kind is left open.                        *)
(***************************************************************************)
EXTENDS Naturals, FiniteSets

CONSTANTS HttpPorts,    \* the http and ws ports of the registry
          GrpcPorts,    \* the gRPC ports of the registry
          Cache,        \* the ports of the cache-sims
          Control,      \* the control port
          Resp,         \* the ports of the RESP proxies
          RespControl,  \* the port of the RESP control listener
          Imports,      \* whether the import of grpcio may work: TRUE, FALSE or both
          MayBeTaken,   \* ports another process may hold when start() runs
          MaxWrites     \* bound: control writes that close or open a port

(* Each listener has a port of its own. *)
ASSUME LifeAssumption ==
  /\ Imports \subseteq BOOLEAN /\ MaxWrites \in Nat
  /\ HttpPorts \cap GrpcPorts = {}
  /\ ({Control, RespControl} \cup Resp) \cap (HttpPorts \cup GrpcPorts) = {}
  /\ Cache \cap (HttpPorts \cup GrpcPorts \cup {Control, RespControl} \cup Resp) = {}

VARIABLES
  pc,         \* the thread that calls start() and stop()
  taken,      \* ports another process holds
  grpcio,     \* whether grpcio is there; it never changes
  listening,  \* ports that accept a TCP connection of a prober
  gates,      \* the keys of control.port_gates
  loops,      \* the ports of _port_loops
  servers,    \* the ports of _servers
  threads,    \* the ports of _threads
  running,    \* the threads started
  serving,    \* servers inside serve_forever
  asked,      \* servers whose shutdown() was called
  ended,      \* servers whose serve_forever returned
  stopped,    \* loops whose stop() ran
  dead,       \* cache-sim threads that raised
  closes,     \* ports the stored scenarios close
  writes,     \* control writes made
  waiter      \* the call of wait_ready: its state, pending, and the ports of this round

startVars == <<gates, loops, servers, threads>>
lifeVars == <<pc, taken, grpcio, listening, startVars, running, serving, asked, ended, stopped, dead, closes, writes, waiter>>

Registry == HttpPorts \cup GrpcPorts
extra_ready_ports == Resp \cup (IF Resp = {} THEN {} ELSE {RespControl})
Awaited == Registry \cup extra_ready_ports

(* What start() binds itself, in its order. *)
Unbound(S) == S \ (loops \cup servers)
ToBind ==
  LET stages == <<HttpPorts, {Control}, Resp, extra_ready_ports>>
      first(i) == \A j \in 1..(i - 1) : Unbound(stages[j]) = {}
  IN  UNION {Unbound(stages[i]) : i \in {j \in 1..4 : first(j)}}

(* __init__: the registry is built and nothing is bound. *)
LifeInit ==
  /\ pc = "binding"
  /\ taken \in SUBSET MayBeTaken
  /\ grpcio \in Imports
  /\ listening = {} /\ gates = {} /\ loops = {} /\ servers = {} /\ threads = {}
  /\ running = {} /\ serving = {} /\ asked = {} /\ ended = {} /\ stopped = {}
  /\ dead = {} /\ closes = {} /\ writes = 0
  /\ waiter = [at |-> "idle", pending |-> {}, round |-> {}]

(* The first server of a port is bound; a provider port gets its gate and its loop. *)
Bind ==
  \E p \in ToBind :
    /\ pc = "binding" /\ p \notin taken
    /\ listening' = listening \cup {p}
    /\ IF p \in HttpPorts
         THEN gates' = gates \cup {p} /\ loops' = loops \cup {p} /\ UNCHANGED servers
         ELSE servers' = servers \cup {p} /\ UNCHANGED <<gates, loops>>
    /\ UNCHANGED <<pc, taken, grpcio, threads, running, serving, asked, ended, stopped, dead, closes, writes, waiter>>

(* The bind raises, and start() with it. What it bound stays bound. *)
BindFails ==
  /\ pc = "binding" /\ ToBind \cap taken # {}
  /\ pc' = "failed"
  /\ UNCHANGED <<taken, grpcio, listening, startVars, running, serving, asked, ended, stopped, dead, closes, writes, waiter>>

(* The threads are made. Without grpcio the gRPC ports and the cache-sims get none. *)
MakeThreads ==
  /\ pc = "binding" /\ ToBind = {}
  /\ threads' = servers \cup loops \cup (IF grpcio THEN GrpcPorts \cup Cache ELSE {})
  /\ gates' = gates \cup (IF grpcio THEN GrpcPorts ELSE {})
  /\ pc' = "starting"
  /\ UNCHANGED <<taken, grpcio, listening, loops, servers, running, serving, asked, ended, stopped, dead, closes, writes, waiter>>

StartThread ==
  /\ pc = "starting"
  /\ \E t \in threads \ running : running' = running \cup {t}
  /\ pc' = IF running' = threads THEN "up" ELSE pc
  /\ UNCHANGED <<taken, grpcio, listening, startVars, serving, asked, ended, stopped, dead, closes, writes, waiter>>

-----------------------------------------------------------------------------
(* The threads.                                                            *)

(* BaseServer.serve_forever: the request of a shutdown() made before is seen. *)
Serve(s) ==
  /\ s \in (servers \cap running) \ (serving \cup ended)
  /\ serving' = serving \cup {s}
  /\ UNCHANGED <<pc, taken, grpcio, listening, startVars, running, asked, ended, stopped, dead, closes, writes, waiter>>

ServeEnds(s) ==
  /\ s \in serving \cap asked
  /\ serving' = serving \ {s} /\ ended' = ended \cup {s}
  /\ UNCHANGED <<pc, taken, grpcio, listening, startVars, running, asked, stopped, dead, closes, writes, waiter>>

(* Mutant of Pass: a pass does not read the flag that stop() set. *)
PassAfterStop(p) ==
  /\ p \in loops \cap running
  /\ \/ p \in closes /\ listening' = listening \ {p}
     \/ p \notin closes \cup taken /\ listening' = listening \cup {p}
  /\ listening' # listening
  /\ UNCHANGED <<pc, taken, grpcio, startVars, running, serving, asked, ended, stopped, dead, closes, writes, waiter>>

(* A pass of an http or ws loop that moves its port. A bind that fails is tried again. *)
Pass(p) ==
  /\ p \in (loops \cap running) \ stopped
  /\ \/ p \in closes /\ listening' = listening \ {p}
     \/ p \notin closes \cup taken /\ listening' = listening \cup {p}
  /\ listening' # listening
  /\ UNCHANGED <<pc, taken, grpcio, startVars, running, serving, asked, ended, stopped, dead, closes, writes, waiter>>

(* Mutant of GrpcPass: a bind that fails ends the loop. *)
GrpcPassOnce(p) ==
  /\ p \in (GrpcPorts \cap running) \ dead
  /\ \/ p \in closes /\ listening' = listening \ {p} /\ UNCHANGED dead
     \/ p \notin closes \cup taken /\ listening' = listening \cup {p} /\ UNCHANGED dead
     \/ p \in taken \ closes /\ dead' = dead \cup {p} /\ UNCHANGED listening
  /\ listening' # listening \/ dead' # dead
  /\ UNCHANGED <<pc, taken, grpcio, startVars, running, serving, asked, ended, stopped, closes, writes, waiter>>

(* A pass of a gRPC loop. stop() does not end it: it dies with the process. *)
GrpcPass(p) ==
  /\ p \in GrpcPorts \cap running
  /\ \/ p \in closes /\ listening' = listening \ {p}
     \/ p \notin closes \cup taken /\ listening' = listening \cup {p}
  /\ listening' # listening
  /\ UNCHANGED <<pc, taken, grpcio, startVars, running, serving, asked, ended, stopped, dead, closes, writes, waiter>>

(* A cache-sim binds once. When that raises, its thread is gone and nobody is told. *)
CacheServe(c) ==
  /\ c \in (Cache \cap running) \ (listening \cup dead)
  /\ IF c \in taken THEN dead' = dead \cup {c} /\ UNCHANGED listening
                    ELSE listening' = listening \cup {c} /\ UNCHANGED dead
  /\ UNCHANGED <<pc, taken, grpcio, startVars, running, serving, asked, ended, stopped, closes, writes, waiter>>

(* A control write moves a port: one with no gate is refused (409). *)
Write ==
  /\ Control \in serving \ asked /\ writes < MaxWrites
  /\ \E p \in gates : closes' = IF p \in closes THEN closes \ {p} ELSE closes \cup {p}
  /\ writes' = writes + 1
  /\ UNCHANGED <<pc, taken, grpcio, listening, startVars, running, serving, asked, ended, stopped, dead, waiter>>

(* The other process lets a port go. *)
Release ==
  /\ pc # "binding"
  /\ \E p \in taken : taken' = taken \ {p}
  /\ UNCHANGED <<pc, grpcio, listening, startVars, running, serving, asked, ended, stopped, dead, closes, writes, waiter>>

-----------------------------------------------------------------------------
(* stop().                                                                 *)

(* Each server is asked to shut down and each loop is stopped, by threads of their own. *)
Stop ==
  /\ pc \in {"up", "failed"}
  /\ pc' = "stopping" /\ asked' = servers
  /\ UNCHANGED <<taken, grpcio, listening, startVars, running, serving, ended, stopped, dead, closes, writes, waiter>>

StopLoop(p) ==
  /\ pc = "stopping" /\ p \in loops \ stopped
  /\ stopped' = stopped \cup {p} /\ listening' = listening \ {p}
  /\ UNCHANGED <<pc, taken, grpcio, startVars, running, serving, asked, ended, dead, closes, writes, waiter>>

(* shutdown() waits for serve_forever to end; the sockets of _servers stay open. *)
StopReturns ==
  /\ pc = "stopping" /\ loops \subseteq stopped /\ servers \subseteq ended
  /\ pc' = "stopped"
  /\ UNCHANGED <<taken, grpcio, listening, startVars, running, serving, asked, ended, stopped, dead, closes, writes, waiter>>

-----------------------------------------------------------------------------
(* wait_ready().                                                           *)

WaitCall ==
  /\ pc = "up" /\ waiter.at = "idle"
  /\ waiter' = [at |-> "called", pending |-> Awaited, round |-> {}]
  /\ UNCHANGED <<pc, taken, grpcio, listening, startVars, running, serving, asked, ended, stopped, dead, closes, writes>>

(* A round leaves out the ports the scenarios close at its start. *)
WaitRound ==
  /\ waiter.at \in {"called", "wait"} /\ waiter.round = {}
  /\ LET left == waiter.pending \ closes
     IN  waiter' = [at |-> IF left = {} THEN "ready" ELSE "wait", pending |-> left, round |-> left]
  /\ UNCHANGED <<pc, taken, grpcio, listening, startVars, running, serving, asked, ended, stopped, dead, closes, writes>>

(* A port that another process holds accepts too: the probe cannot tell. *)
WaitProbe(p) ==
  /\ waiter.at = "wait" /\ p \in waiter.round
  /\ LET left == IF p \in listening \cup taken THEN waiter.pending \ {p} ELSE waiter.pending
     IN  waiter' = [at |-> IF left = {} THEN "ready" ELSE "wait",
                    pending |-> left, round |-> waiter.round \ {p}]
  /\ UNCHANGED <<pc, taken, grpcio, listening, startVars, running, serving, asked, ended, stopped, dead, closes, writes>>

(* The deadline is looked at after a whole round. *)
WaitTimeout ==
  /\ waiter.at = "wait" /\ waiter.round = {}
  /\ waiter' = [waiter EXCEPT !.at = "timeout"]
  /\ UNCHANGED <<pc, taken, grpcio, listening, startVars, running, serving, asked, ended, stopped, dead, closes, writes>>

Starting == Bind \/ BindFails \/ MakeThreads \/ StartThread
ThreadStep ==
  \/ \E s \in servers : Serve(s) \/ ServeEnds(s)
  \/ \E p \in loops : Pass(p)
  \/ \E p \in GrpcPorts : GrpcPass(p)
  \/ \E c \in Cache : CacheServe(c)
Stopping == (\E p \in loops : StopLoop(p)) \/ StopReturns
Waiting == WaitCall \/ WaitRound \/ (\E p \in Awaited : WaitProbe(p)) \/ WaitTimeout
LifeNext == Starting \/ ThreadStep \/ Write \/ Release \/ Stop \/ Stopping \/ Waiting

(* Threads are scheduled, and start() and stop() run on; nobody has to call stop(),
   write a scenario or let a port go. *)
LifeFairness ==
  /\ WF_lifeVars(Starting) /\ WF_lifeVars(Stopping)
  /\ \A s \in {Control, RespControl} \cup Resp : WF_lifeVars(Serve(s)) /\ WF_lifeVars(ServeEnds(s))
  /\ \A p \in HttpPorts : WF_lifeVars(Pass(p))
  /\ \A p \in GrpcPorts : WF_lifeVars(GrpcPass(p))
  /\ \A c \in Cache : WF_lifeVars(CacheServe(c))
LifeSpec == LifeInit /\ [][LifeNext]_lifeVars
LifeFairSpec == LifeSpec /\ LifeFairness

-----------------------------------------------------------------------------
(* start() fails whole: a port that cannot bind leaves no thread running, and  *)
(* a port has a gate only when a thread was made that can move it (the comment *)
(* of start() about gates and grpcio).                                         *)
AllOrNothing ==
  /\ pc = "failed" => running = {} /\ serving = {}
  /\ pc \in {"starting", "up"} => gates = threads \cap Registry

(* When stop() has returned no server serves and no http or ws port accepts, in *)
(* this state and in every later one, however the passes of the loops and the   *)
(* start of the serve loops interleave with it.                                 *)
StoppedIsSilent == pc = "stopped" => serving = {} /\ listening \cap HttpPorts = {}

(* wait_ready() that returned told the truth: with no control write and no stop(), *)
(* and no foreign process on a port, each port it waited for accepts.              *)
ReadyTold ==
  waiter.at = "ready" /\ writes = 0 /\ pc = "up" =>
    \A p \in Awaited : p \in listening \/ p \in MayBeTaken

(* start() fails whole: a port that cannot bind leaves no thread running,   *)
(* and a port has a gate only when a thread was made that can move it, also *)
(* where grpcio is not installed.  When stop() has returned no server       *)
(* serves and no http or ws port accepts, then or later.  wait_ready() that *)
(* returned told the truth.                                                 *)
LifeExact == AllOrNothing /\ StoppedIsSilent /\ ReadyTold

(* stop() returns after a start() that returned, also when it runs before the      *)
(* threads of the servers reached serve_forever.                                   *)
StopEnds == pc = "stopping" /\ running # {} ~> pc = "stopped"

(* A start() that returned opens every port of the registry that no scenario       *)
(* closes and no process holds for ever, with grpcio: the gRPC loops bind again    *)
(* after a failure.                                                                *)
PortsOpen ==
  \A p \in Registry :
    (pc = "up" /\ p \in threads) ~> (p \in listening \/ p \in closes \/ p \in taken \/ pc # "up")

(* stop() returns whenever it is called (the docstring of SimulatorServer: "``stop()`` *)
(* shuts the HTTP servers down").                                                      *)
(* The code does not keep it: README, section 7.                                       *)
StopAlwaysReturns == pc = "stopping" ~> pc = "stopped"
=============================================================================
