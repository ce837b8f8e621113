--------------------------- MODULE MCServerLife -----------------------------
(***************************************************************************)
(* What must eventually happen when the simulator starts and stops, at the *)
(* connections of a port, in a gRPC call and in the resets.  A behaviour   *)
(* is about one part; the others stay in their initial state.              *)
(***************************************************************************)
EXTENDS SimulatorLife, TLC

CONSTANTS Parts   \* the parts under test: "life", "conn", "reset", "grpc"

VARIABLE part

Plan_(action, at, pause, size) ==
  [action |-> action, at |-> at, pause |-> pause, body |-> "dict", size |-> size,
   corruption |-> "none", head |-> FALSE, chosen |-> {}]
FewPlans == {Plan_("hang", "none", "none", 0), Plan_("respond", "none", "mid_body", 3)}
FewStaged ==
  [mode : {"up", "down", "method_down", "hang", "drop", "rate_limit", "error"}, content : {"fits", "misfit"},
   error_message : {"text"}, error_code : {5}, corruption : {"none"}, latency : {0, 5}, reply_headers : BOOLEAN,
   drop_at : {"before_headers", "mid_body"}]

ChainOfPool == [p \in {"p1", "p2"} |-> "x1"]    \* two pools on one chain, and a chain that no pool serves

VARIABLES accepting, shut, closer, copy, accepts, clients, worker, csock, plan, out, rows, after
connVars == <<accepting, shut, closer, copy, accepts, clients, worker, csock, plan, out, rows, after>>
Conn == INSTANCE ProviderPort WITH
  listening <- accepting, closed_by_scenario <- shut, serving <- accepts, sock <- csock, portRows <- rows,
  Callers <- {"c1", "c2"}, Plans <- FewPlans, NullSize <- 1, Cut <- 1, DropSize <- 6

VARIABLES holds, port_lock, gateLock, call, reset
resetVars == <<holds, port_lock, gateLock, call, reset>>
Resets == INSTANCE ControlReset WITH
  transitions <- gateLock, Pools <- {"p1", "p2"}, Chains <- {"x1", "x2"}, ChainOf <- ChainOfPool,
  Callers <- {"a"}, Resetters <- {"r"}

VARIABLE served
grpcVars == <<served>>
GrpcCalls == INSTANCE GrpcCall WITH call <- served, Calls <- {"a"}, StagedCalls <- FewStaged

allVars == <<part, lifeVars, connVars, resetVars, grpcVars>>

InitParts ==
  /\ LifeInit /\ Conn!PortInit /\ Resets!ResetInit /\ GrpcCalls!GrpcInit
  /\ part \in Parts
  /\ part # "life" => taken = {}

NextPart ==
  /\ \/ part = "life" /\ LifeNext /\ UNCHANGED <<connVars, resetVars, grpcVars>>
     \/ part = "conn" /\ Conn!PortNext /\ UNCHANGED <<lifeVars, resetVars, grpcVars>>
     \/ part = "reset" /\ Resets!ResetNext /\ UNCHANGED <<lifeVars, connVars, grpcVars>>
     \/ part = "grpc" /\ GrpcCalls!GrpcNext /\ UNCHANGED <<lifeVars, connVars, resetVars>>
  /\ UNCHANGED part

(* The fairness of each component, in its part. *)
FairParts ==
  /\ WF_lifeVars(part = "life" /\ Starting) /\ WF_lifeVars(part = "life" /\ Stopping)
  /\ \A s \in {Control, RespControl} \cup Resp : WF_lifeVars(part = "life" /\ Serve(s)) /\ WF_lifeVars(part = "life" /\ ServeEnds(s))
  /\ \A p \in HttpPorts : WF_lifeVars(part = "life" /\ Pass(p))
  /\ \A p \in GrpcPorts : WF_lifeVars(part = "life" /\ GrpcPass(p))
  /\ \A c \in Cache : WF_lifeVars(part = "life" /\ CacheServe(c))
  /\ \A c \in {"c1", "c2"} : WF_connVars(part = "conn" /\ Conn!Record(c)) /\ WF_connVars(part = "conn" /\ Conn!Work(c))
  /\ WF_resetVars(part = "reset" /\ Resets!Progress("a")) /\ WF_resetVars(part = "reset" /\ Resets!ResetProgress("r"))
  /\ WF_grpcVars(part = "grpc" /\ GrpcCalls!WakeCall("a")) /\ WF_grpcVars(part = "grpc" /\ GrpcCalls!SendMetadata("a"))

SpecParts == InitParts /\ [][NextPart]_allVars /\ FairParts

(* stop() after a start() that returned ends, also when it runs before the *)
(* threads of the servers reached serve_forever; every accepted connection *)
(* ends, after a close too; every gRPC call ends, a hang included; and     *)
(* every reset and every call returns, though a reset holds port_lock      *)
(* while it waits for a cut-off of the RESP proxy that drains.             *)
EverythingEnds ==
  /\ StopEnds
  /\ part = "conn" => Conn!WorkersEnd
  /\ part = "reset" => Resets!EveryoneReturns
  /\ part = "grpc" => GrpcCalls!EveryCallEnds
=============================================================================
