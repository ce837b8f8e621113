---------------------------- MODULE MCRespProxy -----------------------------
(***************************************************************************)
(* The RESP proxy, and the two calls that read and flush the store behind  *)
(* it.  A behaviour is about one part; the variables of the others keep    *)
(* one value.                                                              *)
(***************************************************************************)
EXTENDS RespProxy, TLC

CONSTANTS c1, c2, m1, m2,
          Parts     \* the parts under test: "proxy", "read", "flush"

VARIABLES part, entries, writes, expiries, call, steady, deleted

R == INSTANCE RespStore WITH store <- entries, Keys <- 1..3, Matching <- 1..2, Lossy <- {}, Reads <- {"r1"},
                             Flushes <- {}, MaxScanRounds <- 2, DeleteBatch <- 1, MaxWrites <- 2, MaxExpiries <- 1
F == INSTANCE RespStore WITH store <- entries, Keys <- 1..4, Matching <- 1..3, Lossy <- {}, Reads <- {},
                             Flushes <- {"f1", "f2"}, MaxScanRounds <- 1, DeleteBatch <- 2, MaxWrites <- 2,
                             MaxExpiries <- 1

ASSUME R!StoreAssumption /\ F!StoreAssumption

ProxySymmetry == Permutations(Conns) \cup Permutations(Movers)

storeVars == <<entries, writes, expiries, call, steady, deleted>>

InitParts ==
  /\ Init
  /\ \/ /\ part = "proxy" /\ entries = "off" /\ writes = "off" /\ expiries = "off"
        /\ call = "off" /\ steady = "off" /\ deleted = "off"
     \/ part = "read" /\ R!Init
     \/ part = "flush" /\ F!Init
  /\ part \in Parts

NextPart ==
  /\ \/ part = "proxy" /\ Next /\ UNCHANGED storeVars
     \/ part = "read" /\ R!Next /\ UNCHANGED vars
     \/ part = "flush" /\ F!Next /\ UNCHANGED vars
  /\ UNCHANGED part

SpecParts == InitParts /\ [][NextPart]_<<part, vars, storeVars>>

(* A matching key that nobody changes is in the answer of GET entries, with *)
(* its value and its lifetime, whatever else happens between two commands; *)
(* the answer names each key once and never a key that was absent all the  *)
(* time, so its count is a number of keys.                                 *)
EntriesReported == part = "read" => R!TypeOK /\ R!SteadyReported /\ R!CountExact

(* A flush that answers 200 leaves no matching key that was there all the  *)
(* time, and its count is the number of keys that this flush removed.  It  *)
(* removes no key outside its pattern, answered or not.                    *)
FlushExact == part = "flush" => F!FlushExact /\ F!FlushScoped
=============================================================================
