----------------------------- MODULE RespProxy ------------------------------
(***************************************************************************)
(* The RESP proxy (provider_simulator/resp_proxy.py): a pass-through       *)
(* between the router and its store, with a gate that a test closes and    *)
(* opens.                                                                  *)
(*                                                                         *)
(*   - one thread per connection accepts, registers, dials the store, and  *)
(*     pumps chunks both ways, looking at the gate before each delivery;   *)
(*   - control threads cut the router off (kind "timeout" or "error") and  *)
(*     let it through again.                                               *)
(*                                                                         *)
(* One step is one hold of the lock, or one call on a socket; a cut-off    *)
(* that finds no delivery to wait for takes its two steps in one hold,     *)
(* which no other thread can tell.  Chunks are not told apart.  Time is    *)
(* left out: a read may find nothing, a write may fail and the idle limit  *)
(* may have passed at any moment; the latency of a reply is the time       *)
(* between its read and the look at the gate.                              *)
(***************************************************************************)
EXTENDS Naturals, FiniteSets

CONSTANTS Conns,      \* the connections the router opens
          Movers,     \* the control threads
          MaxMoves,   \* bound: calls of cut_off and restore
          MaxResets   \* bound: calls of reset_counters

ASSUME ProxyAssumption ==
  /\ IsFiniteSet(Conns)
  /\ "nobody" \notin Movers
  /\ MaxMoves \in Nat /\ MaxResets \in Nat

VARIABLES
  gate,         \* forwarding, timeout or error
  transitions,  \* who holds the lock of the gate moves
  delivering,   \* deliveries that passed the gate and did not finish
  live,         \* the registered connections
  counters,     \* what the proxy has done
  \* a connection
  pc,           \* where its thread is
  to,           \* where the chunk it moves goes: to the store or to the router
  sock,         \* its socket to the router: open or shut
  store,        \* its socket to the store: none, open or shut
  \* a control thread
  mpc,          \* where it is
  kind,         \* the cut-off it performs
  snap,         \* the connections its error cut-off has still to shut
  moves, resets,
  \* history
  sealed,       \* the kind of the last cut-off that drained, until a restore begins
  bornHeld,     \* connections accepted under a timeout cut-off, until a restore
  idled         \* connections given up for carrying nothing

gateVars == <<gate, transitions, sealed, moves>>
connVars == <<pc, to, sock, store, idled>>
moverVars == <<mpc, kind, snap>>
vars == <<gateVars, delivering, live, counters, resets, connVars, moverVars, bornHeld>>

Kinds == {"timeout", "error"}
Counters == {"accepted", "forwarded", "carried", "closed_by_cut_off", "closed_when_idle"}

CountUp(name, n) == counters' = [counters EXCEPT ![name] = @ + n]

At(c, label) == pc' = [pc EXCEPT ![c] = label]

-----------------------------------------------------------------------------
(* A connection: serve and _carry.                                         *)

Accept(c) ==
  /\ pc[c] = "new"
  /\ CountUp("accepted", 1)
  /\ At(c, IF gate = "error" THEN "refuse" ELSE "enter")
  /\ bornHeld' = IF gate = "timeout" THEN bornHeld \cup {c} ELSE bornHeld
  /\ UNCHANGED <<delivering, live, to, sock, store, idled>>

(* Accepted and closed straight away. *)
Refuse(c) ==
  /\ pc[c] = "refuse"
  /\ CountUp("closed_by_cut_off", 1)
  /\ sock' = [sock EXCEPT ![c] = "shut"]
  /\ At(c, "done")
  /\ UNCHANGED <<delivering, live, to, store, idled, bornHeld>>

Enter(c) ==
  /\ pc[c] = "enter"
  /\ live' = live \cup {c}
  /\ CountUp("carried", 1)
  /\ At(c, "begin")
  /\ UNCHANGED <<delivering, to, sock, store, idled, bornHeld>>

(* settimeout raises on a socket that a cut-off closed meanwhile. *)
Begin(c) ==
  /\ pc[c] = "begin"
  /\ At(c, IF sock[c] = "open" THEN "top" ELSE "leave")
  /\ UNCHANGED <<delivering, live, counters, to, sock, store, idled, bornHeld>>

(* Mutant of Top: an error cut-off is left to the sockets. *)
TopIgnoresError(c) ==
  /\ pc[c] = "top"
  /\ At(c, CASE gate # "forwarding"                       -> "held"
             [] gate = "forwarding" /\ store[c] = "none"  -> "dial"
             [] gate = "forwarding" /\ store[c] # "none"  -> "recv")
  /\ to' = [to EXCEPT ![c] = "store"]
  /\ UNCHANGED <<delivering, live, counters, sock, store, idled, bornHeld>>

(* The gate as it is at the top of an iteration. *)
Top(c) ==
  /\ pc[c] = "top"
  /\ At(c, CASE gate = "error"                            -> "leave"
             [] gate = "timeout"                          -> "held"
             [] gate = "forwarding" /\ store[c] = "none"  -> "dial"
             [] gate = "forwarding" /\ store[c] # "none"  -> "recv")
  /\ to' = [to EXCEPT ![c] = "store"]
  /\ UNCHANGED <<delivering, live, counters, sock, store, idled, bornHeld>>

(* Hold the socket and move nothing, unless the router hung up. *)
Held(c) ==
  /\ pc[c] = "held"
  /\ \/ At(c, "leave")
     \/ sock[c] = "open" /\ At(c, "top")
  /\ UNCHANGED <<delivering, live, counters, to, sock, store, idled, bornHeld>>

Dial(c) ==
  /\ pc[c] = "dial"
  /\ store' = [store EXCEPT ![c] = "open"]
  /\ CountUp("forwarded", 1)
  /\ At(c, "recv")
  /\ UNCHANGED <<delivering, live, to, sock, idled, bornHeld>>

DialFails(c) ==
  /\ pc[c] = "dial"
  /\ At(c, "leave")
  /\ UNCHANGED <<delivering, live, counters, to, sock, store, idled, bornHeld>>

SourceOpen(c) == IF to[c] = "store" THEN sock[c] = "open" ELSE store[c] = "open"
TargetOpen(c) == IF to[c] = "store" THEN store[c] = "open" ELSE sock[c] = "open"

(* After the direction to the store comes the one to the router, then the idle limit. *)
NextDirection(c) ==
  IF to[c] = "store"
    THEN At(c, "recv") /\ to' = [to EXCEPT ![c] = "router"]
    ELSE At(c, "idle") /\ UNCHANGED to

RecvNothing(c) ==
  /\ pc[c] = "recv"
  /\ SourceOpen(c)
  /\ NextDirection(c)
  /\ UNCHANGED <<delivering, live, counters, sock, store, idled, bornHeld>>

RecvChunk(c) ==
  /\ pc[c] = "recv"
  /\ SourceOpen(c)
  /\ At(c, "send")
  /\ UNCHANGED <<delivering, live, counters, to, sock, store, idled, bornHeld>>

(* End of file or an error: the other side ended it, or a cut-off shut it. *)
RecvEnd(c) ==
  /\ pc[c] = "recv"
  /\ At(c, "leave")
  /\ UNCHANGED <<delivering, live, counters, to, sock, store, idled, bornHeld>>

(* _send_if_forwarding: the gate check and the count under one hold of the lock ... *)
PassGate(c) ==
  /\ pc[c] = "send"
  /\ gate = "forwarding"
  /\ delivering' = delivering + 1
  /\ At(c, "write")
  /\ UNCHANGED <<live, counters, to, sock, store, idled, bornHeld>>

(* ... a closed gate drops the bytes and keeps the connection ... *)
DropChunk(c) ==
  /\ pc[c] = "send"
  /\ gate # "forwarding"
  /\ NextDirection(c)
  /\ UNCHANGED <<delivering, live, counters, sock, store, idled, bornHeld>>

(* ... the write itself, outside the lock ... *)
Write(c) ==
  /\ pc[c] = "write"
  /\ \/ TargetOpen(c) /\ At(c, "written")
     \/ At(c, "raised")
  /\ UNCHANGED <<delivering, live, counters, to, sock, store, idled, bornHeld>>

(* ... and the count, in the finally. *)
Release(c) ==
  /\ pc[c] = "written"
  /\ delivering' = delivering - 1
  /\ NextDirection(c)
  /\ UNCHANGED <<live, counters, sock, store, idled, bornHeld>>

ReleaseRaised(c) ==
  /\ pc[c] = "raised"
  /\ delivering' = delivering - 1
  /\ At(c, "leave")
  /\ UNCHANGED <<live, counters, to, sock, store, idled, bornHeld>>

(* The idle limit: not reached, or the connection may be given up. *)
IdleExpired(c) ==
  /\ pc[c] = "idle"
  /\ At(c, "top") \/ At(c, "reclaim")
  /\ UNCHANGED <<delivering, live, counters, to, sock, store, idled, bornHeld>>

(* The gate is read again, under the same hold of the lock as the counter. *)
Reclaim(c) ==
  /\ pc[c] = "reclaim"
  /\ IF gate = "forwarding"
       THEN /\ CountUp("closed_when_idle", 1)
            /\ idled' = idled \cup {c}
            /\ At(c, "leave")
       ELSE At(c, "top") /\ UNCHANGED <<counters, idled>>
  /\ UNCHANGED <<delivering, live, to, sock, store, bornHeld>>

(* The end of serve: deregister, then shut both sockets. *)
Leave(c) ==
  /\ pc[c] = "leave"
  /\ live' = live \ {c}
  /\ At(c, "shut")
  /\ UNCHANGED <<delivering, counters, to, sock, store, idled, bornHeld>>

(* Mutant of Shut: only the router's side is shut. *)
ShutRouterOnly(c) ==
  /\ pc[c] = "shut"
  /\ sock' = [sock EXCEPT ![c] = "shut"]
  /\ At(c, "done")
  /\ UNCHANGED <<delivering, live, counters, to, store, idled, bornHeld>>

Shut(c) ==
  /\ pc[c] = "shut"
  /\ sock' = [sock EXCEPT ![c] = "shut"]
  /\ store' = [store EXCEPT ![c] = IF @ = "none" THEN @ ELSE "shut"]
  /\ At(c, "done")
  /\ UNCHANGED <<delivering, live, counters, to, idled, bornHeld>>

(* What the thread does once the connection was accepted. *)
Carry(c) ==
  \/ Refuse(c) \/ Enter(c) \/ Begin(c) \/ Top(c) \/ Held(c) \/ Dial(c) \/ DialFails(c)
  \/ RecvNothing(c) \/ RecvChunk(c) \/ RecvEnd(c)
  \/ PassGate(c) \/ DropChunk(c) \/ Write(c) \/ Release(c) \/ ReleaseRaised(c)
  \/ IdleExpired(c) \/ Reclaim(c) \/ Leave(c) \/ Shut(c)

ConnStep(c) ==
  /\ Accept(c) \/ Carry(c)
  /\ UNCHANGED <<gateVars, resets, moverVars>>

-----------------------------------------------------------------------------
(* The gate moves: cut_off and restore.                                    *)

MayMove(m) == mpc[m] = "idle" /\ transitions = "nobody" /\ moves < MaxMoves

(* The gate closes, and the connections it means are the ones present now. *)
CutOff(m, k) ==
  /\ MayMove(m)
  /\ moves' = moves + 1
  /\ transitions' = m
  /\ gate' = k
  /\ mpc' = [mpc EXCEPT ![m] = "drain"]
  /\ kind' = [kind EXCEPT ![m] = k]
  /\ snap' = [snap EXCEPT ![m] = IF k = "error" THEN live ELSE {}]
  /\ CountUp("closed_by_cut_off", IF k = "error" THEN Cardinality(live) ELSE 0)
  /\ UNCHANGED <<sealed, delivering, live, connVars, resets, bornHeld>>

(* Mutant of Drained: the cut-off answers without waiting. *)
DrainedAtOnce(m) ==
  /\ mpc[m] = "drain"
  /\ transitions' = "nobody"
  /\ sealed' = kind[m]
  /\ mpc' = [mpc EXCEPT ![m] = "shut"]
  /\ UNCHANGED <<gate, moves, delivering, live, counters, connVars, resets, kind, snap, bornHeld>>

(* Wait for the deliveries that passed the gate before it closed. *)
Drained(m) ==
  /\ mpc[m] = "drain"
  /\ delivering = 0
  /\ transitions' = "nobody"
  /\ sealed' = kind[m]
  /\ mpc' = [mpc EXCEPT ![m] = "shut"]
  /\ UNCHANGED <<gate, moves, delivering, live, counters, connVars, resets, kind, snap, bornHeld>>

ShutOne(m) ==
  /\ mpc[m] = "shut"
  /\ \E c \in snap[m] :
       /\ snap' = [snap EXCEPT ![m] = @ \ {c}]
       /\ sock' = [sock EXCEPT ![c] = "shut"]
       /\ store' = [store EXCEPT ![c] = IF @ = "none" THEN @ ELSE "shut"]
  /\ UNCHANGED <<gateVars, delivering, live, counters, pc, to, idled, resets, mpc, kind, bornHeld>>

CutOffReturns(m) ==
  /\ mpc[m] = "shut" /\ snap[m] = {}
  /\ mpc' = [mpc EXCEPT ![m] = "idle"]
  /\ kind' = [kind EXCEPT ![m] = "none"]
  /\ UNCHANGED <<gateVars, delivering, live, counters, connVars, resets, snap, bornHeld>>

(* Mutant of Restore: it takes only the lock that a draining cut-off gave up. *)
RestoreUnserialised(m) ==
  /\ mpc[m] = "idle" /\ moves < MaxMoves
  /\ moves' = moves + 1
  /\ gate' = "forwarding"
  /\ sealed' = "no"
  /\ bornHeld' = {}
  /\ UNCHANGED <<transitions, delivering, live, counters, connVars, resets, moverVars>>

Restore(m) ==
  /\ MayMove(m)
  /\ moves' = moves + 1
  /\ gate' = "forwarding"
  /\ sealed' = "no"
  /\ bornHeld' = {}
  /\ UNCHANGED <<transitions, delivering, live, counters, connVars, resets, moverVars>>

ResetCounters ==
  /\ resets < MaxResets
  /\ resets' = resets + 1
  /\ counters' = [n \in Counters |-> 0]
  /\ UNCHANGED <<gateVars, delivering, live, connVars, moverVars, bornHeld>>

FinishMove(m) == Drained(m) \/ ShutOne(m) \/ CutOffReturns(m)

-----------------------------------------------------------------------------
Init ==
  /\ gate = "forwarding" /\ transitions = "nobody" /\ sealed = "no"
  /\ delivering = 0
  /\ live = {}
  /\ counters = [n \in Counters |-> 0]
  /\ pc = [c \in Conns |-> "new"]
  /\ to = [c \in Conns |-> "store"]
  /\ sock = [c \in Conns |-> "open"]
  /\ store = [c \in Conns |-> "none"]
  /\ mpc = [m \in Movers |-> "idle"]
  /\ kind = [m \in Movers |-> "none"]
  /\ snap = [m \in Movers |-> {}]
  /\ moves = 0 /\ resets = 0
  /\ bornHeld = {} /\ idled = {}

Next ==
  \/ \E c \in Conns : ConnStep(c)
  \/ \E m \in Movers : (\E k \in Kinds : CutOff(m, k)) \/ FinishMove(m) \/ Restore(m)
  \/ ResetCounters

Spec == Init /\ [][Next]_vars

-----------------------------------------------------------------------------
(* Properties.                                                             *)

ConnLabels == {"new", "refuse", "enter", "begin", "top", "held", "dial", "recv", "send", "write", "written", "raised",
               "idle", "reclaim", "leave", "shut", "done"}

(* Every variable keeps its type; the delivery count never goes below zero. *)
TypeOK ==
  /\ gate \in Kinds \cup {"forwarding"}
  /\ transitions \in Movers \cup {"nobody"}
  /\ sealed \in Kinds \cup {"no"}
  /\ delivering \in Nat
  /\ live \subseteq Conns
  /\ counters \in [Counters -> Nat]
  /\ pc \in [Conns -> ConnLabels]
  /\ to \in [Conns -> {"store", "router"}]
  /\ sock \in [Conns -> {"open", "shut"}]
  /\ store \in [Conns -> {"none", "open", "shut"}]
  /\ mpc \in [Movers -> {"idle", "drain", "shut"}]
  /\ kind \in [Movers -> Kinds \cup {"none"}]
  /\ snap \in [Movers -> SUBSET Conns]
  /\ moves \in 0..MaxMoves /\ resets \in 0..MaxResets
  /\ bornHeld \subseteq Conns /\ idled \subseteq Conns

(* The deliveries between their gate check and their release. *)
InFlight == {c \in Conns : pc[c] \in {"write", "written", "raised"}}

(* "After cut_off returns, nothing further is written" (_send_if_forwarding): *)
(* from the moment a cut-off has drained until a restore begins, no thread is *)
(* in a write, in either direction, whatever it had read before.              *)
CutOffQuiet == sealed # "no" => InFlight = {}

(* A cut-off never answers about a gate that somebody else moved while it     *)
(* waited (RespProxy._transitions: "the cut-off then answers 'cut off' on a   *)
(* gate somebody else has reopened").                                         *)
GateIsOwn == \A m \in Movers : mpc[m] = "drain" => gate = kind[m]

(* "A connection opened while a timeout cut-off is in force must not touch    *)
(* the store at all" (_carry).                                                *)
HeldTouchesNoStore == \A c \in bornHeld : store[c] = "none"

(* A cut-off is not held up by a connection that is gone: what the counter    *)
(* holds is exactly the deliveries under way, also after writes that raised.  *)
CountExact == delivering = Cardinality(InFlight)

(* A connection that ended holds no socket to the store and is not listed as  *)
(* live, whichever of its own thread and a cut-off shut it first.             *)
NothingLeaks == \A c \in Conns : pc[c] = "done" => sock[c] = "shut" /\ store[c] # "open" /\ c \notin live

(* "The idle clock does not run while the gate is cut off": no connection is  *)
(* closed for being idle once a timeout cut-off has answered.                 *)
(* The code does not keep it: README, section 7.                              *)
HeldNotReclaimed ==
  [][gate = "timeout" /\ sealed = "timeout" => \A c \in idled : sock'[c] = sock[c]]_vars

(* closed_by_cut_off counts "the ones a cut-off ended": it never exceeds the  *)
(* connections that were accepted, when no counter was reset.                 *)
(* The code does not keep it: README, section 7.                              *)
CutOffCountsConnections == resets = 0 => counters["closed_by_cut_off"] <= counters["accepted"]

-----------------------------------------------------------------------------
(* Liveness.                                                               *)

(* Threads run; every read, dial and write has a deadline, so it ends.       *)
FairSpec ==
  /\ Spec
  /\ \A c \in Conns : WF_vars(ConnStep(c) /\ Carry(c))
  /\ \A m \in Movers : WF_vars(FinishMove(m))

(* A cut-off always answers: each delivery it waits for ends and is taken off *)
(* the count, also when it ends by raising.                                   *)
CutOffAnswers == \A m \in Movers : mpc[m] # "idle" ~> mpc[m] = "idle"

(* An error cut-off ends every connection that exists, also one that read the *)
(* gate before the cut-off and was registered after it, unless the gate moves *)
(* again ("cutting off acts on all of them").                                 *)
ErrorEndsAll == \A c \in Conns : (gate = "error" /\ pc[c] # "new") ~> (pc[c] = "done" \/ gate # "error")
=============================================================================
