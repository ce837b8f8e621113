--------------------------- MODULE MCPortControl ----------------------------
(***************************************************************************)
(* Small instances of PortControl: h1 is an http port, g1 a gRPC port and  *)
(* u1 a gRPC port this process runs no listener for.                       *)
(***************************************************************************)
EXTENDS PortControl, TLC

CONSTANTS h1, g1, u1, w1, w2, r1

(* One provider, or h1 at one provider and the gRPC ports at a second one. *)
OneProvider == [p \in Ports |-> "pr1"]
TwoProviders == [p \in Ports |-> IF p = h1 THEN "pr1" ELSE "pr2"]
TwoPools == {{"pr2"}}

WriterSymmetry == Permutations(Writers)
=============================================================================
