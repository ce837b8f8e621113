--------------------------- MODULE MCControlPlane ---------------------------
(***************************************************************************)
(* The control plane: the acceptance of POST /scenario, the resets, and    *)
(* the start and stop of the simulator.  A behaviour is about one part;    *)
(* the others stay in their initial state.                                 *)
(***************************************************************************)
EXTENDS ScenarioAcceptance, ControlReset, SimulatorLife, TLC

CONSTANTS p1, p2, c1, c2,
          Parts   \* the parts under test: "scenario", "resets", "life"

VARIABLE part

-----------------------------------------------------------------------------
(* POST /scenario: providers of four kinds.  Port 2 has no listener.       *)

Door(interface, transport, port) == [interface |-> interface, transport |-> transport, port |-> port]
MCEndpoints ==
  [eth |-> {Door("jsonrpc", "http", 1), Door("jsonrpc", "ws", 2)},
   lava |-> {Door("rest", "http", 3), Door("grpc", "http2", 4)},
   grpc |-> {Door("grpc", "http2", 5)},
   sui |-> {Door("graphql", "http", 6)}]
MCQuirks == [p \in Providers |-> IF p = "eth" THEN {"logs_lag_mode"} ELSE {}]

Menu(ps, fields, n) == [providers |-> ps, given |-> fields, keys |-> n]
MCMenus ==
  {Menu({"eth", "lava"}, {"mode", "fail_first_n"}, 2),
   Menu({"grpc"}, {"corruption_mode", "responses", "rate_limit_style"}, 1),
   Menu({"sui"}, {"corruption_mode", "responses", "rate_limit_style"}, 1),
   Menu({"eth"}, {"mode", "transports", "ports", "pause_at"}, 2),
   Menu({"lava"}, {"transports", "ports", "reply_headers", "reply_trailers"}, 1)}

-----------------------------------------------------------------------------
(* The resets, with two pools on one chain, and a chain no pool serves.    *)

OneChain == p1 :> c1 @@ p2 :> c1

ResetSymmetry == Permutations(Callers) \cup Permutations(Resetters)

-----------------------------------------------------------------------------
(* One part moves; the others stay in their initial state.                 *)

allVars == <<part, vars, resetVars, lifeVars>>

InitParts ==
  /\ part \in Parts
  /\ Init /\ ResetInit /\ LifeInit
  /\ part # "scenario" => menu = CHOOSE m \in Menus : TRUE
  /\ part # "life" => taken = {} /\ grpcio = CHOOSE b \in Imports : TRUE

NextPart ==
  /\ \/ part = "scenario" /\ Next /\ UNCHANGED <<resetVars, lifeVars>>
     \/ part = "resets" /\ ResetNext /\ UNCHANGED <<vars, lifeVars>>
     \/ part = "life" /\ LifeNext /\ UNCHANGED <<vars, resetVars>>
  /\ UNCHANGED part

SpecParts == InitParts /\ [][NextPart]_allVars
=============================================================================
