------------------------------ MODULE PortGate ------------------------------
(***************************************************************************)
(* The gate of a provider port (provider_simulator/port_gate.py): the      *)
(* counters through which a control call asks the serve loop of the port   *)
(* for a pass and learns what the newest finished pass left behind.  Each  *)
(* operator below is one critical section of the gate's condition.         *)
(*                                                                         *)
(* The flags of the code are the sets of ports whose flag is True.         *)
(***************************************************************************)
EXTENDS Naturals

CONSTANTS Gated   \* the provider ports that have a gate

VARIABLES asked,      \* asked[p]: passes asked for so far
          done,       \* done[p]: the newest ask a finished pass had already seen
          open,       \* open[p]: what the newest finished pass reported
          reported,   \* ports for which a pass has finished
          inPass      \* ports for which a pass began and did not end

gateVars == <<asked, done, open, reported, inPass>>

PortState == {"open", "closed"}

GateTypeOK ==
  /\ asked \in [Gated -> Nat]
  /\ done \in [Gated -> Nat]
  /\ open \in [Gated -> PortState]
  /\ reported \subseteq Gated
  /\ inPass \subseteq Gated

GateInit ==
  /\ asked = [p \in Gated |-> 0]
  /\ done = [p \in Gated |-> 0]
  /\ open = [p \in Gated |-> "closed"]
  /\ reported = {}
  /\ inPass = {}

(* begin_pass: the returned ask counter is asked[p], which the caller keeps. *)
BeginPass(p) ==
  /\ inPass' = inPass \cup {p}
  /\ UNCHANGED <<asked, done, open, reported>>

EndPass(p, seen, isOpen) ==
  /\ done' = [done EXCEPT ![p] = IF seen > @ THEN seen ELSE @]
  /\ open' = [open EXCEPT ![p] = isOpen]
  /\ reported' = reported \cup {p}
  /\ inPass' = inPass \ {p}
  /\ UNCHANGED asked

(* Mutant of LastReportIs: a report is trusted while a pass runs. *)
LastReportInPass(p, want) ==
  /\ p \in reported
  /\ done[p] >= asked[p]
  /\ open[p] = want

(* last_report() == want: the gate has a report to trust, and it says want. *)
LastReportIs(p, want) ==
  /\ p \in reported
  /\ p \notin inPass
  /\ done[p] >= asked[p]
  /\ open[p] = want

(* ask, up to the call that wakes the loop: the ticket is asked'[p]. *)
Ask(p) ==
  /\ asked' = [asked EXCEPT ![p] = @ + 1]
  /\ UNCHANGED <<done, open, reported, inPass>>

(* The predicate wait() blocks on. *)
Reached(p, ticket, want) ==
  /\ done[p] >= ticket
  /\ open[p] = want
=============================================================================
