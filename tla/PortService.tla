---------------------------- MODULE PortService -----------------------------
(***************************************************************************)
(* What mode="port_closed" promises the caller of the control API, with no *)
(* gate, no loop and no lock: a call that answers "ok" found every port it *)
(* answers for in the state its scenario asks for, and the port stays      *)
(* there until the next write to its provider.  Between a write and the    *)
(* next "ok" a port may be in either state.  A port whose loop was stopped *)
(* (gone) is promised nothing.                                             *)
(***************************************************************************)
CONSTANTS Gated

VARIABLES wished,    \* wished[p]: the state the stored scenario asks for
          port,      \* port[p]: the state a TCP connection meets
          promised,  \* promised[p]: what the last "ok" said, if still in force
          gone       \* ports whose loop was told to stop

svars == <<wished, port, promised, gone>>

PortState == {"open", "closed"}

SInit ==
  /\ wished = [p \in Gated |-> "open"]
  /\ port \in [Gated -> PortState]
  /\ promised = [p \in Gated |-> "none"]
  /\ gone = {}

(* A write to the scenario behind the ports S takes back what was promised for them. *)
Write(S) ==
  /\ wished' \in [Gated -> PortState]
  /\ \A p \in Gated \ S : wished'[p] = wished[p]
  /\ promised' = [p \in Gated |-> IF p \in S THEN "none" ELSE promised[p]]
  /\ UNCHANGED <<port, gone>>

(* A port moves only while nothing is promised for it. *)
Move(p) ==
  /\ promised[p] = "none" \/ p \in gone
  /\ \E s \in PortState : port' = [port EXCEPT ![p] = s]
  /\ UNCHANGED <<wished, promised, gone>>

Answer(S) ==
  /\ \A p \in S \ gone : port[p] = wished[p]
  /\ promised' = [p \in Gated |-> IF p \in S THEN wished[p] ELSE promised[p]]
  /\ UNCHANGED <<wished, port, gone>>

Halt(p) ==
  /\ gone' = gone \cup {p}
  /\ UNCHANGED <<wished, port, promised>>

SNext ==
  \/ \E S \in SUBSET Gated : Write(S) \/ Answer(S)
  \/ \E p \in Gated : Move(p) \/ Halt(p)

SSpec == SInit /\ [][SNext]_svars
=============================================================================
