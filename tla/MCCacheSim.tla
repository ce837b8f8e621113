----------------------------- MODULE MCCacheSim -----------------------------
(***************************************************************************)
(* The cache simulator, and the heads of the chains: their moves by POST   *)
(* /advance, and what the providers reply about them.  A behaviour is      *)
(* about one part; the variables of the other keep one value.              *)
(***************************************************************************)
EXTENDS CacheSim, ChainHeads, TLC

CONSTANTS l1, l2, t1, t2,
          Parts     \* the parts under test: "cache", "moves", "replies"

VARIABLE part

CallSymmetry == Permutations(Lookups) \cup Permutations(Selftests)

Body == [mode |-> "hit", keys |-> {}, typed |-> TRUE, latency |-> 0, status |-> "",
         head |-> {}, junkHead |-> FALSE]

SomeStagings ==
  {[Body EXCEPT !.keys = {"result"}],
   [Body EXCEPT !.mode = "error", !.status = "INTERNAL", !.latency = 1, !.head = {7}],
   [Body EXCEPT !.mode = "hang", !.keys = {"error", "seen_block"}, !.latency = 3],
   [Body EXCEPT !.mode = "wrong", !.keys = {"data"}],
   Body}

MCLags == {-1, 1}
MCBlocks == {-1, 0, 2}
MCRates == {-1, 0, 3}

allVars == <<part, vars, headVars>>

InitParts ==
  /\ part \in Parts
  /\ Init /\ HeadsInit
  /\ part = "cache" => chain = "btc"
  /\ part = "moves" => chain \in {"eth", "lava"} /\ \A p \in Providers : logs[p] = "off"

(* The moves of two calls, and the replies while one call bumps the heads; it arrives first. *)
Moves == (\E a \in Advances : AdvanceStep(a)) \/ ResetHeads \/ Tick
Bumps ==
  /\ advance["a1"].pc = "new" => replies = {} /\ \A p \in Providers : lag[p] = 0
  /\ AdvanceStep("a1") /\ advance'["a1"].has \subseteq {"blocks", "head"} /\ advance'["a1"].blocks \in {0, 2}
Replies == Bumps \/ ResetHeads \/ \E p \in Providers : SetLag(p) \/ Reply(p)

NextPart ==
  /\ \/ part = "cache" /\ Next /\ UNCHANGED headVars
     \/ part = "moves" /\ Moves /\ UNCHANGED vars
     \/ part = "replies" /\ Replies /\ UNCHANGED vars
  /\ UNCHANGED part

SpecParts == InitParts /\ [][NextPart]_allVars
=============================================================================
