------------------------------ MODULE MCLive --------------------------------
(***************************************************************************)
(* What must eventually happen at the ports and their control calls, in    *)
(* the RESP proxy and at the WebSocket writers.  A behaviour is about one  *)
(* part; the others stay in their initial state.                           *)
(***************************************************************************)
EXTENDS PortControl, TLC

CONSTANTS Parts   \* the parts under test: "port", "proxy", "ws"

VARIABLE part

OneProvider == [p \in Ports |-> "pr1"]

VARIABLES gate, transitions, delivering, live, counters, ppc, to, sock, store, mpc, kind, snap, moves, resets,
          sealed, bornHeld, idled
proxyVars == <<gate, transitions, delivering, live, counters, ppc, to, sock, store, mpc, kind, snap, moves,
              resets, sealed, bornHeld, idled>>
Proxy == INSTANCE RespProxy WITH pc <- ppc, Conns <- {"c1", "c2"}, Movers <- {"m1"}, MaxMoves <- 2, MaxResets <- 0

VARIABLES registry, marked, owner, reader, target, own, frames, queue, writer, item, socket, stop, emit, pushed,
          late, pushes
wsVars == <<registry, marked, owner, reader, target, own, frames, queue, writer, item, socket, stop, emit,
           pushed, late, pushes>>
Ws == INSTANCE WsSubscriptions WITH
  closed <- marked, rows <- pushes, Conns <- {"c1"}, Subs <- {"s1"}, Emits <- {"e1", "e2"}, QueueMax <- 2, MaxFrames <- 2

allVars == <<part, vars, proxyVars, wsVars>>

InitParts == Init /\ Proxy!Init /\ Ws!Init /\ part \in Parts

NextPart ==
  /\ \/ part = "port" /\ Next /\ UNCHANGED <<proxyVars, wsVars>>
     \/ part = "proxy" /\ Proxy!Next /\ UNCHANGED <<vars, wsVars>>
     \/ part = "ws" /\ Ws!Next /\ UNCHANGED <<vars, proxyVars>>
  /\ UNCHANGED part

(* The fairness of each component, in its part: LoopFairness and CallFairness of           *)
(* PortControl, and Fairness of RespProxy and of WsSubscriptions.                          *)
FairParts ==
  /\ \A p \in Gated : WF_vars(part = "port" /\ LoopStep(p) /\ Pass(p))
  /\ \A w \in Writers : WF_vars(part = "port" /\ CallStep(w) /\ writes' = writes)
  /\ \A c \in {"c1", "c2"} : WF_proxyVars(part = "proxy" /\ Proxy!ConnStep(c) /\ Proxy!Carry(c))
  /\ WF_proxyVars(part = "proxy" /\ Proxy!FinishMove("m1"))
  /\ WF_wsVars(part = "ws" /\ Ws!Writer("c1"))
  /\ WF_wsVars(part = "ws" /\ (Ws!Release("c1") \/ Ws!ReleaseMark("c1") \/ Ws!PutSentinel("c1") \/ Ws!HandlerReturns("c1")))

SpecParts == InitParts /\ [][NextPart]_allVars /\ FairParts

(* An ask of a gate is answered by a pass although no poll fires, and every *)
(* control call returns, also one whose port never answers.                *)
CallsAnswered == AskAnswered /\ CallReturns

(* When no more scenario is written, each port comes to the state that its *)
(* scenario asks for and stays, although no control call asks again,       *)
(* provided that the poll fires and that a bind, a serve or a close does   *)
(* not fail for ever.                                                      *)
PortsConvergeByRetry == RetryFairness /\ part = "port" => PortsConverge

(* A cut-off always answers: each delivery it waits for ends and is taken  *)
(* off the count.  An error cut-off ends every connection that exists,     *)
(* also one that read the gate before it and was registered after it,      *)
(* unless the gate moves again.  A WebSocket writer whose sentinel was     *)
(* queued comes to its end.                                                *)
SessionsEnd ==
  /\ part = "proxy" => Proxy!CutOffAnswers /\ Proxy!ErrorEndsAll
  /\ part = "ws" => Ws!SentinelStops
=============================================================================
