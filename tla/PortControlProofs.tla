-------------------------- MODULE PortControlProofs -------------------------
(***************************************************************************)
(* A control call that answered "ok" about a port told the truth until the *)
(* next write, for any number of ports, providers, control threads and     *)
(* calls, and PortControl implements PortService: gates, loops, port_lock  *)
(* and tickets give the caller of the control API what the abstract        *)
(* service promises.                                                       *)
(***************************************************************************)
EXTENDS PortControl, TLAPS

USE ZenonT(60)

-----------------------------------------------------------------------------
(* The type invariant.                                                     *)

(* What a serve loop and its gate hold. *)
LoopPart ==
  /\ GateTypeOK
  /\ loopPc \in [Gated -> LoopLabels]
  /\ seen \in [Gated -> Nat]
  /\ server \in [Gated -> {"none", "bound", "serving", "half"}]
  /\ listening \in [Ports -> PortState]
  /\ wake \subseteq Gated /\ stopped \subseteq Gated /\ stopping \subseteq stopped

(* What the control calls hold. *)
CallPart ==
  /\ writes \in 0..MaxWrites
  /\ pc \in [Writers -> CallLabels]
  /\ written \in [Writers -> SUBSET Providers]
  /\ want \in [Writers -> [Gated -> PortState \cup {"none"}]]
  /\ toCheck \in [Writers -> SUBSET Gated]
  /\ toWait \in [Writers -> SUBSET Gated]
  /\ ticket \in [Writers -> [Gated -> Nat]]
  /\ cur \in [Writers -> SUBSET Gated]
  /\ stuck \in [Writers -> SUBSET Gated]
  /\ promised \in [Gated -> PortState \cup {"none"}]

(* The scenarios stored and the scenarios about to be written. *)
ScenarioPart ==
  /\ scenario \in [Providers -> Scenario]
  /\ \A pr \in Providers : scenario[pr] \in Scenarios(pr)
  /\ staged \in [Writers -> UNION {[S -> Scenario] : S \in SUBSET Providers}]
  /\ \A w \in Writers : \A pr \in DOMAIN staged[w] : staged[w][pr] \in Scenarios(pr)

(* What GET /ready holds, and port_lock. *)
ReadyPart ==
  /\ portLock \in Writers \cup Probers \cup {"nobody"}
  /\ readyPc \in [Probers -> {"idle", "read", "probe"}]
  /\ held \subseteq Probers
  /\ toProbe \in [Probers -> SUBSET Ports]
  /\ missing \in [Probers -> SUBSET Ports]

(* The four parts are the type invariant. *)
LEMMA TypeParts ==
  /\ TypeOK <=> LoopPart /\ CallPart /\ ScenarioPart /\ ReadyPart
  /\ TypeOK' <=> LoopPart' /\ CallPart' /\ ScenarioPart' /\ ReadyPart'
BY DEF TypeOK, LoopPart, CallPart, ScenarioPart, ReadyPart

(* A scenario that a provider can hold is a scenario. *)
LEMMA ScenariosAreScenario ==
  ASSUME NEW pr \in Providers
  PROVE  /\ Scenarios(pr) \subseteq Scenario
         /\ Default(pr) \in Scenarios(pr)
BY DEF Scenarios, Scenario, Default, EndpointsOf

(* The initial state has the declared types. *)
LEMMA InitTypes == Init => TypeOK
<1> SUFFICES ASSUME Init PROVE LoopPart /\ CallPart /\ ScenarioPart /\ ReadyPart
  BY TypeParts
<1>1. LoopPart
  BY PortsAssumption DEF Init, LoopPart, GateInit, GateTypeOK, PortState, LoopLabels
<1>2. CallPart
  BY SMTT(60), PortsAssumption DEF Init, CallPart, CallLabels
<1>3. ScenarioPart
  <2>1. scenario \in [Providers -> Scenario] /\ \A pr \in Providers : scenario[pr] \in Scenarios(pr)
    BY ScenariosAreScenario DEF Init
  <2>2. [pr \in {} |-> Default(pr)] \in [{} -> Scenario] /\ {} \in SUBSET Providers
    OBVIOUS
  <2>3. \A w \in Writers : staged[w] = [pr \in {} |-> Default(pr)] /\ DOMAIN staged[w] = {}
    BY DEF Init
  <2>4. staged \in [Writers -> UNION {[S -> Scenario] : S \in SUBSET Providers}]
    BY <2>2 DEF Init
  <2> QED
    BY <2>1, <2>3, <2>4 DEF ScenarioPart
<1>4. ReadyPart
  BY DEF Init, ReadyPart
<1> QED
  BY <1>1, <1>2, <1>3, <1>4

(* The label a pass goes to after it read the wish. *)
LEMMA PlanFacts ==
  ASSUME NEW p \in Gated, NEW w \in PortState, NEW s \in {"none", "bound", "serving", "half"}
  PROVE  /\ s = "none" => Plan(p, w, s) = IF w = "open" THEN "bind" ELSE "end closed"
         /\ s # "none" /\ w = "closed" => Plan(p, w, s) = IF p \in Grpc THEN "shut" ELSE "close"
         /\ s = "half" /\ w = "open" => Plan(p, w, s) = "close again"
         /\ s = "bound" /\ w = "open" => Plan(p, w, s) = "serve"
         /\ s = "serving" /\ w = "open" => Plan(p, w, s) = "end open"
         /\ Plan(p, w, s) \in LoopLabels
BY DEF Plan, Report, PortState, LoopLabels, LockedLabels

(* Every step of a serve loop keeps the types. *)
LEMMA LoopTypes == ASSUME TypeOK, NEW p \in Gated, LoopStep(p) PROVE TypeOK'
<1> USE PortsAssumption DEF LoopPart, GateTypeOK, PortState, Goto, Report, gateVars
<1>0. LoopPart
  BY TypeParts
<1>1. UNCHANGED <<scenario, portLock, writes, callVars, readyVars, promised>>
  BY DEF LoopStep
<1>l. /\ LockedLabels \subseteq LoopLabels
      /\ {"new", "begin", "read", "end open", "end closed", "wait", "clear", "gone"} \subseteq LoopLabels
      /\ {"close", "shut", "close again", "shut again", "bind", "serve"} = LockedLabels
  BY DEF LoopLabels, LockedLabels
<1>2. LoopPart'
  <2>1. CASE Attach(p)
    BY <1>0, <1>l, <2>1 DEF Attach
  <2>2. CASE Begin(p)
    BY <1>0, <1>l, <2>2 DEF Begin, BeginPass
  <2>3. CASE ReadWish(p)
    <3>1. Plan(p, Wish(p), server[p]) \in LoopLabels
      BY <1>0, PlanFacts DEF Wish
    <3> QED
      BY <1>0, <2>3, <3>1 DEF ReadWish
  <2>4. CASE ReadStopped(p)
    BY <1>0, <1>l, <2>4 DEF ReadStopped
  <2>5. CASE CloseFlag(p)
    BY <1>0, <1>l, <2>5 DEF CloseFlag
  <2>6. CASE Shut(p)
    BY <1>0, <1>l, <2>6 DEF Shut
  <2>7. CASE ShutRaises(p)
    BY <1>0, <1>l, <2>7 DEF ShutRaises
  <2>8. CASE Bind(p)
    BY <1>0, <1>l, <2>8 DEF Bind
  <2>9. CASE BindRaises(p)
    BY <1>0, <1>l, <2>9 DEF BindRaises
  <2>10. CASE Serve(p)
    BY <1>0, <1>l, <2>10 DEF Serve
  <2>11. CASE ServeRaises(p)
    BY <1>0, <1>l, <2>11 DEF ServeRaises
  <2>12. CASE End(p)
    BY <1>0, <1>l, <2>12 DEF End, EndPass
  <2>13. CASE Woken(p) \/ Poll(p)
    BY <1>0, <1>l, <2>13 DEF Woken, Poll
  <2>14. CASE Clear(p)
    BY <1>0, <1>l, <2>14 DEF Clear
  <2>15. CASE StopTake(p)
    BY <1>0, <2>15 DEF StopTake
  <2>16. CASE StopClose(p)
    BY <1>0, <2>16 DEF StopClose
  <2> QED
    BY <2>1, <2>2, <2>3, <2>4, <2>5, <2>6, <2>7, <2>8, <2>9, <2>10, <2>11, <2>12, <2>13, <2>14,
       <2>15, <2>16 DEF LoopStep, Pass
<1> QED
  BY <1>1, <1>2 DEF TypeOK, callVars, readyVars

(* Every step of a control call keeps the types. *)
LEMMA CallTypes == ASSUME TypeOK, NEW w \in Writers, CallStep(w) PROVE TypeOK'
<1> USE PortsAssumption DEF CallPart, At
<1>0. CallPart /\ ScenarioPart /\ LoopPart /\ ReadyPart
  BY TypeParts
<1>1. ReadyPart' /\ LoopPart'
  <2>1. portLock' \in {w, "nobody", portLock} /\ UNCHANGED readyVars
    BY DEF CallStep, CallProgress, PostScenario, Reset, Sweep, Stage, WriteProvider, PortWishes, SettlePorts,
           CheckReport, AskPort, WakeLoop, StartWaiting, WaitReached, WaitTimeout, Probe, AnswerOk, AnswerStuck, Return
  <2>2. ReadyPart'
    BY <1>0, <2>1 DEF ReadyPart, readyVars
  <2>3. CASE UNCHANGED <<gateVars, loopVars>>
    BY <1>0, <2>2, <2>3 DEF LoopPart, GateTypeOK, gateVars, loopVars
  <2>4. CASE AskPort(w) /\ UNCHANGED loopVars
    BY SMTT(60), <1>0, <2>2, <2>4 DEF LoopPart, GateTypeOK, AskPort, Ask, loopVars
  <2>5. CASE WakeLoop(w) /\ UNCHANGED <<gateVars, loopPc, seen, server, listening, stopped, stopping>>
    BY <1>0, <2>2, <2>5 DEF LoopPart, GateTypeOK, WakeLoop, gateVars
  <2> QED
    BY <2>2, <2>3, <2>4, <2>5 DEF CallStep
<1>s. ASSUME NEW kind \in {"write", "sweep"}, NEW s, NEW prs \in SUBSET Providers, s \in [prs -> Scenario],
             \A pr \in prs : s[pr] \in Scenarios(pr), MayCall(w), Stage(w, kind, s)
      PROVE  CallPart' /\ ScenarioPart'
  <2>1. CallPart'
    BY SMTT(60), <1>0, <1>s DEF Stage, MayCall, CallLabels
  <2>2. s \in UNION {[S -> Scenario] : S \in SUBSET Providers} /\ DOMAIN s = prs
    BY SMTT(60), <1>s
  <2>3. ScenarioPart'
    BY <1>0, <1>s, <2>2 DEF Stage, ScenarioPart
  <2> QED
    BY <2>1, <2>3
<1>2. CASE PostScenario(w)
  <2>1. PICK prs \in SUBSET Providers : \E s \in [prs -> UNION {Scenarios(pr) : pr \in prs}] :
           (\A pr \in prs : s[pr] \in Scenarios(pr)) /\ Stage(w, "write", s)
    BY <1>2 DEF PostScenario
  <2>2. PICK s \in [prs -> UNION {Scenarios(pr) : pr \in prs}] :
           (\A pr \in prs : s[pr] \in Scenarios(pr)) /\ Stage(w, "write", s)
    BY <2>1
  <2>3. s \in [prs -> Scenario]
    BY <2>2, ScenariosAreScenario
  <2> QED
    BY <1>1, <1>2, <1>s, <2>2, <2>3, TypeParts DEF PostScenario
<1>3. CASE Reset(w)
  <2>1. PICK scope \in SUBSET Providers : Stage(w, "write", [pr \in scope |-> Default(pr)])
    BY <1>3 DEF Reset
  <2> DEFINE s == [pr \in scope |-> Default(pr)]
  <2>2. s \in [scope -> Scenario] /\ \A pr \in scope : s[pr] \in Scenarios(pr)
    BY ScenariosAreScenario
  <2>3. MayCall(w) /\ Stage(w, "write", s)
    BY <1>3, <2>1 DEF Reset
  <2> HIDE DEF s
  <2>4. CallPart' /\ ScenarioPart'
    BY <1>s, <2>2, <2>3
  <2> QED
    BY <1>1, <2>4, TypeParts
<1>4. CASE Sweep(w)
  <2>1. PICK stale \in SUBSET Providers : Stage(w, "sweep", [pr \in stale |-> Default(pr)])
    BY <1>4 DEF Sweep
  <2> DEFINE s == [pr \in stale |-> Default(pr)]
  <2>2. s \in [stale -> Scenario] /\ \A pr \in stale : s[pr] \in Scenarios(pr)
    BY ScenariosAreScenario
  <2>3. MayCall(w) /\ Stage(w, "sweep", s)
    BY <1>4, <2>1 DEF Sweep
  <2> HIDE DEF s
  <2>4. CallPart' /\ ScenarioPart'
    BY <1>s, <2>2, <2>3
  <2> QED
    BY <1>1, <2>4, TypeParts
<1>5. CASE WriteProvider(w)
  <2>1. PICK pr \in DOMAIN staged[w] :
           /\ scenario' = [scenario EXCEPT ![pr] = staged[w][pr]]
           /\ staged' = [staged EXCEPT ![w] = [q \in DOMAIN staged[w] \ {pr} |-> staged[w][q]]]
           /\ written' = [written EXCEPT ![w] = @ \cup {pr}]
           /\ promised' = [p \in Gated |-> IF ProviderOf[p] = pr THEN "none" ELSE promised[p]]
    BY <1>5 DEF WriteProvider
  <2>2. PICK S \in SUBSET Providers : staged[w] \in [S -> Scenario]
    BY SMTT(60), <1>0 DEF ScenarioPart
  <2>3. pr \in Providers /\ DOMAIN staged[w] = S
    BY <2>1, <2>2
  <2>4. CallPart'
    BY SMTT(60), <1>0, <1>5, <2>1, <2>3 DEF WriteProvider
  <2>5. [q \in DOMAIN staged[w] \ {pr} |-> staged[w][q]] \in [S \ {pr} -> Scenario]
    BY <2>2, <2>3
  <2>6. staged' \in [Writers -> UNION {[T -> Scenario] : T \in SUBSET Providers}]
    <3> DEFINE U == UNION {[T -> Scenario] : T \in SUBSET Providers}
               rest == [q \in DOMAIN staged[w] \ {pr} |-> staged[w][q]]
    <3>1. S \ {pr} \in SUBSET Providers
      OBVIOUS
    <3>2. rest \in U
      <4>1. [S \ {pr} -> Scenario] \in {[T -> Scenario] : T \in SUBSET Providers}
        BY <3>1
      <4> QED
        BY <2>5, <4>1
    <3>3. staged \in [Writers -> U] /\ staged' = [staged EXCEPT ![w] = rest]
      BY <1>0, <2>1 DEF ScenarioPart
    <3> HIDE DEF U, rest
    <3>4. staged' \in [Writers -> U]
      BY <3>2, <3>3
    <3> QED
      BY <3>4 DEF U
  <2>7. ASSUME NEW v \in Writers, NEW q \in DOMAIN staged'[v] PROVE staged'[v][q] \in Scenarios(q)
    <3>1. CASE v = w
      <4>1. staged'[v] = [x \in DOMAIN staged[w] \ {pr} |-> staged[w][x]]
        BY <1>0, <2>1, <3>1 DEF ScenarioPart
      <4>2. q \in DOMAIN staged[w] /\ staged'[v][q] = staged[w][q]
        BY <2>7, <4>1
      <4> QED
        BY <1>0, <4>2 DEF ScenarioPart
    <3>2. CASE v # w
      BY <1>0, <2>1, <2>7, <3>2 DEF ScenarioPart
    <3> QED
      BY <3>1, <3>2
  <2>8. scenario' \in [Providers -> Scenario] /\ \A q \in Providers : scenario'[q] \in Scenarios(q)
    BY <1>0, <2>1, <2>3, ScenariosAreScenario DEF ScenarioPart
  <2> QED
    BY <1>1, <2>4, <2>6, <2>7, <2>8, TypeParts DEF ScenarioPart
<1>u. UNCHANGED <<scenario, staged>> => ScenarioPart'
  BY <1>0 DEF ScenarioPart
<1>6. CASE PortWishes(w)
  BY SMTT(60), <1>0, <1>1, <1>u, <1>6, TypeParts DEF PortWishes, Wish, PortState, EndpointsOf
<1>7. CASE SettlePorts(w)
  BY <1>0, <1>1, <1>u, <1>7, TypeParts DEF SettlePorts, CallLabels
<1>8. CASE StartWaiting(w)
  BY <1>0, <1>1, <1>u, <1>8, TypeParts DEF StartWaiting, CallLabels
<1>9. CASE CheckReport(w)
  <2>1. PICK p \in toCheck[w] :
           /\ toCheck' = [toCheck EXCEPT ![w] = @ \ {p}]
           /\ \/ pc' = pc /\ cur' = cur
              \/ pc' = [pc EXCEPT ![w] = "ask"] /\ cur' = [cur EXCEPT ![w] = {p}]
    BY <1>9 DEF CheckReport
  <2>c. UNCHANGED <<writes, written, want, toWait, ticket, stuck, promised>>
    BY <1>9 DEF CheckReport
  <2>2. CallPart'
    <3>1. p \in Gated
      BY <1>0, <2>1
    <3>a. pc \in [Writers -> CallLabels] /\ cur \in [Writers -> SUBSET Gated] /\ "ask" \in CallLabels
      BY <1>0 DEF CallLabels
    <3>2. pc' \in [Writers -> CallLabels] /\ cur' \in [Writers -> SUBSET Gated]
      BY SMTT(60), <2>1, <3>1, <3>a
    <3>3. toCheck' \in [Writers -> SUBSET Gated]
      BY <1>0, <2>1
    <3> QED
      BY <1>0, <2>c, <3>2, <3>3
  <2>3. ScenarioPart'
    BY <1>u, <1>9 DEF CheckReport
  <2> QED
    BY <1>1, <2>2, <2>3, TypeParts
<1>10. CASE AskPort(w)
  <2>1. PICK p \in cur[w] :
           /\ ticket' = [ticket EXCEPT ![w] = [@ EXCEPT ![p] = asked[p] + 1]]
           /\ toWait' = [toWait EXCEPT ![w] = @ \cup {p}]
           /\ pc' = [pc EXCEPT ![w] = IF loopPc[p] = "new" THEN "check" ELSE "wake"]
           /\ cur' = [cur EXCEPT ![w] = IF loopPc[p] = "new" THEN {} ELSE @]
    BY <1>10 DEF AskPort
  <2>c. UNCHANGED <<scenario, staged, writes, written, want, toCheck, stuck, promised>>
    BY <1>10 DEF AskPort
  <2>2. p \in Gated /\ asked[p] + 1 \in Nat
    BY SMTT(60), <1>0, <1>1, <2>1, TypeParts DEF LoopPart, GateTypeOK
  <2>3. pc' \in [Writers -> CallLabels] /\ cur' \in [Writers -> SUBSET Gated]
    BY <1>0, <2>1, <2>2 DEF CallLabels
  <2>4. ticket' \in [Writers -> [Gated -> Nat]] /\ toWait' \in [Writers -> SUBSET Gated]
    BY <1>0, <2>1, <2>2
  <2>5. CallPart'
    BY <1>0, <2>c, <2>3, <2>4
  <2> QED
    BY <1>1, <1>u, <2>c, <2>5, TypeParts
<1>11. CASE WakeLoop(w)
  BY <1>0, <1>1, <1>u, <1>11, TypeParts DEF WakeLoop, CallLabels
<1>12. CASE WaitReached(w)
  BY SMTT(60), <1>0, <1>1, <1>u, <1>12, TypeParts DEF WaitReached, CallLabels
<1>13. CASE WaitTimeout(w)
  BY SMTT(60), <1>0, <1>1, <1>u, <1>13, TypeParts DEF WaitTimeout, CallLabels
<1>14. CASE Probe(w)
  BY <1>0, <1>1, <1>u, <1>14, TypeParts DEF Probe, CallLabels
<1>15. CASE AnswerOk(w)
  BY SMTT(60), <1>0, <1>1, <1>u, <1>15, TypeParts DEF AnswerOk, CallLabels, Return
<1>16. CASE AnswerStuck(w)
  BY <1>0, <1>1, <1>u, <1>16, TypeParts DEF AnswerStuck, CallLabels, Return
<1> QED
  BY <1>2, <1>3, <1>4, <1>5, <1>6, <1>7, <1>8, <1>9, <1>10, <1>11, <1>12, <1>13, <1>14, <1>15, <1>16
  DEF CallStep, CallProgress

(* Every step of GET /ready keeps the types. *)
LEMMA ReadyTypes == ASSUME TypeOK, NEW r \in Probers, ReadyStep(r) PROVE TypeOK'
<1>1. LoopPart' /\ CallPart' /\ ScenarioPart'
  BY TypeParts DEF ReadyStep, LoopPart, CallPart, ScenarioPart, GateTypeOK, gateVars, loopVars, callVars
<1>2. ReadyPart'
  BY SMTT(60), TypeParts DEF ReadyStep, ReadyPart, ReadyLock, ReadyNoLock, ReadyRead, ReadyProbe, ReadyAnswer
<1> QED
  BY <1>1, <1>2, TypeParts

(* Every step keeps the types. *)
LEMMA NextTypes == TypeOK /\ [Next]_vars => TypeOK'
<1> SUFFICES ASSUME TypeOK, [Next]_vars PROVE TypeOK'
  OBVIOUS
<1>1. CASE UNCHANGED vars
  BY <1>1 DEF TypeOK, GateTypeOK, vars, gateVars, loopVars, callVars, readyVars
<1> QED
  BY <1>1, LoopTypes, CallTypes, ReadyTypes DEF Next

(* Every variable keeps its type, for every value of the constants. *)
THEOREM ControlTypes == Spec => []TypeOK
BY InitTypes, NextTypes, PTL DEF Spec

-----------------------------------------------------------------------------
(* The inductive invariant.                                                *)

(* The labels of a loop whose pass began and did not end. *)
PassLabels == LockedLabels \cup {"read", "end open", "end closed", "gone"}

(* The steps of a pass that read the wish "open". *)
OpeningLabels == {"close again", "shut again", "bind", "serve"}

(* The gate agrees with the loop about the pass; no pass saw an ask that was not made, and *)
(* a running pass saw every ask that an earlier pass saw.                                  *)
GateInv(p) ==
  /\ p \in inPass <=> loopPc[p] \in PassLabels
  /\ seen[p] <= asked[p]
  /\ done[p] <= asked[p]
  /\ p \in inPass => done[p] <= seen[p]

(* What the label of the loop says of the server it owns, and the server of the socket. *)
ServerInv(p) ==
  /\ server[p] = "none" => listening[p] = "closed"
  /\ server[p] \in {"bound", "serving"} => listening[p] = "open"
  /\ server[p] = "half" => listening[p] = "closed" \/ loopPc[p] = "shut"
  /\ p \in Grpc => server[p] \in {"none", "serving"} /\ loopPc[p] \notin {"close", "close again", "shut again", "serve"}
  /\ loopPc[p] = "close" => server[p] # "none"
  /\ loopPc[p] = "shut" => server[p] = IF p \in Grpc THEN "serving" ELSE "half"
  /\ loopPc[p] \in {"close again", "shut again"} => server[p] = "half"
  /\ loopPc[p] = "bind" => server[p] = "none"
  /\ loopPc[p] = "serve" => server[p] = "bound"
  /\ loopPc[p] = "end open" => server[p] = "serving"
  /\ loopPc[p] = "end closed" => server[p] \in {"none", "half"}
  /\ p \in reported /\ loopPc[p] \notin PassLabels =>
       IF open[p] = "open" THEN server[p] = "serving" ELSE server[p] \in {"none", "half"}

(* A stopped loop owns no server and is not in the middle of moving its port. *)
StopInv(p) ==
  /\ p \notin Grpc
  /\ server[p] = "none"
  /\ loopPc[p] \notin LockedLabels
  /\ p \in stopping \/ listening[p] = "closed"

LoopInv(p) ==
  /\ GateInv(p)
  /\ IF p \in stopped THEN StopInv(p) ELSE ServerInv(p)

(* The port is in the state its scenario asks for and no step of its loop will move it: *)
(* a pass that is under way read the present wish, or has nothing left to do.           *)
Stable(p) ==
  IF Wish(p) = "open"
    THEN server[p] = "serving" /\ loopPc[p] \notin LockedLabels
    ELSE listening[p] = "closed" /\ server[p] \in {"none", "half"} /\ loopPc[p] \notin OpeningLabels

(* Ports the call w has wished for and is done with. *)
Settled(w) ==
  {p \in Gated : /\ want[w][p] # "none"
                 /\ p \notin toCheck[w] \cup toWait[w] \cup stuck[w]
                 /\ p \in cur[w] => pc[w] = "probe"}

(* Only the holder of port_lock is in a call; what it has still to write it has not wished for. *)
LockInv(w) ==
  /\ pc[w] # "idle" <=> portLock = w
  /\ pc[w] = "idle" => \A p \in Gated : want[w][p] = "none"
  /\ pc[w] \in {"idle", "write", "sweep"} => toWait[w] = {} /\ cur[w] = {} /\ stuck[w] = {}
  /\ pc[w] \notin {"write", "sweep"} => DOMAIN staged[w] = {} /\ written[w] = {}
  /\ pc[w] \in {"check", "wait"} => cur[w] = {}
  /\ \A p \in Gated : want[w][p] # "none" => ProviderOf[p] \notin DOMAIN staged[w]
  /\ pc[w] \in {"idle", "write", "sweep"} => \A p \in Gated : want[w][p] # "none" => p \in toCheck[w]
  /\ pc[w] \in {"wait", "probe"} => toCheck[w] = {}
  /\ written[w] \cap DOMAIN staged[w] = {}
  /\ \A p, q \in cur[w] : p = q
  /\ pc[w] = "wake" => cur[w] \subseteq toWait[w]

(* A port that the call waits for: a report that a pass newer than the ask made and that says *)
(* what the call wants is still true.                                                         *)
WaitInv(w) ==
  \A p \in toWait[w] \ stopped :
    /\ ticket[w][p] > 0
    /\ Reached(p, ticket[w][p], Wish(p)) => Stable(p)

CallInv(w) ==
  /\ LockInv(w)
  /\ \A p \in Gated : want[w][p] # "none" => want[w][p] = Wish(p)
  /\ \A p \in toCheck[w] \cup toWait[w] \cup cur[w] : want[w][p] # "none"
  /\ WaitInv(w)
  /\ \A p \in Settled(w) \ stopped : Stable(p)

PromiseInv ==
  \A p \in Gated : promised[p] # "none" => promised[p] = Wish(p) /\ (p \in stopped \/ Stable(p))

ReadyInv(r) ==
  /\ r \in held <=> portLock = r
  /\ readyPc[r] = "idle" => r \notin held /\ missing[r] = {}
  /\ r \in held => \A p \in (missing[r] \cap Gated) \ stopped : promised[p] # "open"

ControlInv ==
  /\ \A p \in Gated : LoopInv(p)
  /\ \A w \in Writers : CallInv(w)
  /\ PromiseInv
  /\ \A r \in Probers : ReadyInv(r)

-----------------------------------------------------------------------------
(* The loops.                                                              *)

(* A step of the loop of p touches nothing of another port. *)
LEMMA LoopLocal ==
  ASSUME TypeOK, NEW p \in Gated, NEW q \in Gated \ {p}, LoopStep(p)
  PROVE  /\ loopPc'[q] = loopPc[q] /\ seen'[q] = seen[q] /\ server'[q] = server[q]
         /\ listening'[q] = listening[q] /\ asked'[q] = asked[q] /\ done'[q] = done[q] /\ open'[q] = open[q]
         /\ q \in inPass' <=> q \in inPass
         /\ q \in reported' <=> q \in reported
         /\ q \in stopped' <=> q \in stopped
         /\ q \in stopping' <=> q \in stopping
<1> USE PortsAssumption DEF LoopPart, GateTypeOK, gateVars, Goto
<1>0. LoopPart
  BY TypeParts
<1>1. CASE Attach(p) \/ Begin(p) \/ ReadWish(p) \/ ReadStopped(p) \/ CloseFlag(p)
  BY <1>0, <1>1 DEF Attach, Begin, BeginPass, ReadWish, ReadStopped, CloseFlag
<1>2. CASE Shut(p) \/ ShutRaises(p)
  BY <1>0, <1>2 DEF Shut, ShutRaises
<1>6. CASE Bind(p) \/ BindRaises(p)
  BY <1>0, <1>6 DEF Bind, BindRaises
<1>3. CASE Serve(p) \/ ServeRaises(p) \/ Woken(p) \/ Poll(p) \/ Clear(p)
  BY <1>0, <1>3 DEF Serve, ServeRaises, Woken, Poll, Clear
<1>4. CASE End(p)
  <2>1. done'[q] = done[q] /\ open'[q] = open[q]
    BY <1>0, <1>4 DEF End, EndPass
  <2> QED
    BY <1>0, <1>4, <2>1 DEF End, EndPass
<1>5. CASE StopTake(p) \/ StopClose(p)
  BY <1>0, <1>5 DEF StopTake, StopClose
<1> QED
  BY <1>1, <1>2, <1>3, <1>4, <1>5, <1>6 DEF LoopStep, Pass

(* The invariant of a loop holds at the start. *)
LEMMA InitLoopInv == Init => \A p \in Gated : LoopInv(p)
<1> SUFFICES ASSUME Init, NEW p \in Gated PROVE LoopInv(p)
  OBVIOUS
<1>1. /\ loopPc[p] = "new" /\ seen[p] = 0 /\ asked[p] = 0 /\ done[p] = 0
      /\ p \notin inPass /\ p \notin reported /\ p \notin stopped
      /\ server[p] = IF p \in Grpc THEN "none" ELSE "bound"
      /\ listening[p] = IF p \in Grpc THEN "closed" ELSE "open"
  BY PortsAssumption DEF Init, GateInit
<1> QED
  BY SMTT(60), <1>1 DEF LoopInv, GateInv, ServerInv, PassLabels, LockedLabels

(* The end of a pass keeps the gate's counters in order. *)
LEMMA EndGateInv ==
  ASSUME TypeOK, NEW p \in Gated, GateInv(p), End(p) PROVE GateInv(p)'
<1>0. LoopPart
  BY TypeParts
<1>1. /\ loopPc'[p] = "wait" /\ seen'[p] = 0 /\ p \notin inPass'
      /\ done'[p] = done[p] \/ done'[p] = seen[p]
      /\ asked' = asked
  BY <1>0 DEF End, EndPass, LoopPart, GateTypeOK, Goto
<1>2. asked[p] \in Nat /\ done[p] \in Nat /\ seen[p] \in Nat
  BY <1>0 DEF LoopPart, GateTypeOK
<1>3. seen'[p] <= asked'[p] /\ done'[p] <= asked'[p]
  BY SMTT(60), <1>1, <1>2 DEF GateInv
<1> QED
  BY <1>1, <1>3 DEF GateInv, PassLabels, LockedLabels

(* A step of the loop of p keeps the invariant of p. *)
LEMMA OwnLoopInv ==
  ASSUME TypeOK, NEW p \in Gated, LoopInv(p), LoopStep(p) PROVE LoopInv(p)'
<1> USE PortsAssumption
    DEF LoopPart, GateTypeOK, gateVars, PortState, Goto, Report, LoopInv, GateInv, ServerInv, StopInv,
        PassLabels, LockedLabels
<1>0. LoopPart
  BY TypeParts
<1>1. CASE Attach(p)
  BY <1>0, <1>1 DEF Attach
<1>2. CASE Begin(p)
  BY SMTT(60), <1>0, <1>2 DEF Begin, BeginPass
<1>3. CASE ReadWish(p)
  <2>1. Wish(p) \in PortState
    BY DEF Wish
  <2>2. loopPc'[p] = Plan(p, Wish(p), server[p]) /\ p \notin stopped /\ loopPc[p] = "read"
    BY <1>0, <1>3 DEF ReadWish
  <2>3. UNCHANGED <<asked, done, open, reported, inPass, seen, server, listening, stopped, stopping>>
    BY <1>0, <1>3 DEF ReadWish
  <2>4. CASE server[p] = "none"
    <3>1. loopPc'[p] \in {"bind", "end closed"}
      BY <1>0, <2>1, <2>2, <2>4, PlanFacts
    <3> QED
      BY <1>0, <2>2, <2>3, <2>4, <3>1
  <2>5. CASE server[p] = "half"
    <3>1. loopPc'[p] \in {"close", "close again"}
      BY <1>0, <2>1, <2>2, <2>5, PlanFacts
    <3> QED
      BY <1>0, <2>2, <2>3, <2>5, <3>1
  <2>6. CASE server[p] = "bound"
    <3>1. loopPc'[p] \in {"close", "serve"}
      BY <1>0, <2>1, <2>2, <2>6, PlanFacts
    <3> QED
      BY <1>0, <2>2, <2>3, <2>6, <3>1
  <2>7. CASE server[p] = "serving"
    <3>1. loopPc'[p] \in {IF p \in Grpc THEN "shut" ELSE "close", "end open"}
      <4>1. CASE Wish(p) = "open"
        BY <2>2, <2>7, <4>1, PlanFacts
      <4>2. CASE Wish(p) = "closed"
        BY <2>2, <2>7, <4>2, PlanFacts
      <4> QED
        BY <2>1, <4>1, <4>2
    <3> QED
      BY <1>0, <2>2, <2>3, <2>7, <3>1
  <2> QED
    BY <1>0, <2>4, <2>5, <2>6, <2>7
<1>4. CASE ReadStopped(p)
  BY <1>0, <1>4 DEF ReadStopped
<1>5. CASE CloseFlag(p)
  BY <1>0, <1>5 DEF CloseFlag
<1>6. CASE Shut(p)
  BY <1>0, <1>6 DEF Shut
<1>7. CASE ShutRaises(p)
  BY <1>0, <1>7 DEF ShutRaises
<1>8. CASE Bind(p)
  BY <1>0, <1>8 DEF Bind
<1>9. CASE BindRaises(p)
  BY <1>0, <1>9 DEF BindRaises
<1>10. CASE Serve(p)
  BY <1>0, <1>10 DEF Serve
<1>11. CASE ServeRaises(p)
  BY <1>0, <1>11 DEF ServeRaises
<1>12. CASE End(p)
  <2>1. /\ loopPc[p] \in {"end open", "end closed"} /\ loopPc'[p] = "wait" /\ seen'[p] = 0
        /\ open'[p] = IF loopPc[p] = "end open" THEN "open" ELSE "closed"
        /\ p \notin inPass' /\ p \in reported'
        /\ UNCHANGED <<asked, server, listening, stopped, stopping>>
    BY <1>0, <1>12 DEF End, EndPass
  <2>2. GateInv(p)'
    BY <1>12, EndGateInv
  <2>3. CASE p \in stopped
    BY <2>1, <2>2, <2>3
  <2>4. CASE p \notin stopped
    BY <1>0, <2>1, <2>2, <2>4
  <2> QED
    BY <2>3, <2>4
<1>13. CASE Woken(p) \/ Poll(p)
  BY <1>0, <1>13 DEF Woken, Poll
<1>14. CASE Clear(p)
  BY <1>0, <1>14 DEF Clear
<1>15. CASE StopTake(p)
  BY <1>0, <1>15 DEF StopTake, HoldsLoopLock
<1>16. CASE StopClose(p)
  BY <1>0, <1>16 DEF StopClose
<1> QED
  BY <1>1, <1>2, <1>3, <1>4, <1>5, <1>6, <1>7, <1>8, <1>9, <1>10, <1>11, <1>12, <1>13, <1>14,
     <1>15, <1>16 DEF LoopStep, Pass

(* A control call touches of a loop only the ask counter and the wake event. *)
LEMMA CallLocal ==
  ASSUME TypeOK, NEW w \in Writers, CallStep(w)
  PROVE  /\ UNCHANGED <<done, open, reported, inPass, loopPc, seen, server, listening, stopped, stopping>>
         /\ \A p \in Gated : asked'[p] \in Nat /\ asked'[p] >= asked[p]
<1>1. CASE UNCHANGED <<gateVars, loopVars>>
  BY SMTT(60), <1>1 DEF gateVars, loopVars, TypeOK, GateTypeOK
<1>2. CASE AskPort(w) /\ UNCHANGED loopVars
  <2>1. PICK p \in cur[w] : Ask(p)
    BY <1>2 DEF AskPort
  <2>2. asked' = [asked EXCEPT ![p] = asked[p] + 1] /\ UNCHANGED <<done, open, reported, inPass>>
    BY <2>1 DEF Ask
  <2>3. asked \in [Gated -> Nat]
    BY DEF TypeOK, GateTypeOK
  <2>4. \A q \in Gated : asked'[q] \in Nat /\ asked'[q] >= asked[q]
    BY SMTT(60), <2>2, <2>3
  <2> QED
    BY <1>2, <2>2, <2>4 DEF loopVars
<1>3. CASE WakeLoop(w) /\ UNCHANGED <<gateVars, loopPc, seen, server, listening, stopped, stopping>>
  BY SMTT(60), <1>3 DEF gateVars, TypeOK, GateTypeOK
<1> QED
  BY <1>1, <1>2, <1>3 DEF CallStep

(* Every step keeps the invariant of every loop. *)
LEMMA NextLoopInv ==
  ASSUME TypeOK, [Next]_vars, NEW q \in Gated, LoopInv(q) PROVE LoopInv(q)'
<1>1. ASSUME NEW p \in Gated, LoopStep(p) PROVE LoopInv(q)'
  <2>1. CASE p = q
    BY <1>1, <2>1, OwnLoopInv
  <2>2. CASE p # q
    BY <1>1, <2>2, LoopLocal DEF LoopInv, GateInv, ServerInv, StopInv
  <2> QED
    BY <2>1, <2>2
<1>2. ASSUME NEW w \in Writers, CallStep(w) PROVE LoopInv(q)'
  <2>1. LoopPart
    BY TypeParts
  <2>2. /\ UNCHANGED <<done, open, reported, inPass, loopPc, seen, server, listening, stopped, stopping>>
        /\ asked'[q] \in Nat /\ asked'[q] >= asked[q]
    BY <1>2, CallLocal
  <2>n. asked[q] \in Nat /\ done[q] \in Nat /\ seen[q] \in Nat
    BY <2>1 DEF LoopPart, GateTypeOK
  <2>3. GateInv(q)'
    <3>1. GateInv(q)
      BY DEF LoopInv
    <3> QED
      BY SMTT(60), <2>2, <2>n, <3>1 DEF GateInv
  <2> QED
    BY <2>2, <2>3 DEF LoopInv, ServerInv, StopInv
<1>3. ASSUME NEW r \in Probers, ReadyStep(r) PROVE LoopInv(q)'
  BY <1>3 DEF LoopInv, GateInv, ServerInv, StopInv, ReadyStep, gateVars, loopVars
<1>4. CASE UNCHANGED vars
  BY <1>4 DEF LoopInv, GateInv, ServerInv, StopInv, vars, gateVars, loopVars
<1> QED
  BY <1>1, <1>2, <1>3, <1>4 DEF Next

-----------------------------------------------------------------------------
(* A port that is where its scenario asks for stays there.                 *)

(* The wish of a port changes only with the scenario of its provider. *)
LEMMA WishSame ==
  ASSUME NEW p \in Gated, scenario'[ProviderOf[p]] = scenario[ProviderOf[p]] PROVE Wish(p)' = Wish(p)
BY DEF Wish, WantsClosed

(* Stability only looks at the wish, the server, the socket and the label. *)
LEMMA StableSame ==
  ASSUME NEW p \in Gated, Wish(p)' = Wish(p), UNCHANGED <<server, listening, loopPc>>
  PROVE  Stable(p)' <=> Stable(p)
BY DEF Stable

(* A report between two passes, or at the end of one, that says what the scenario asks for. *)
LEMMA ReportStable ==
  ASSUME TypeOK, NEW p \in Gated \ stopped, LoopInv(p), p \in reported, loopPc[p] \notin PassLabels, open[p] = Wish(p)
  PROVE  Stable(p)
<1>1. ServerInv(p)
  BY DEF LoopInv
<1>2. Wish(p) \in PortState
  BY DEF Wish, PortState
<1>3. CASE Wish(p) = "open"
  BY <1>1, <1>3 DEF ServerInv, Stable, PassLabels
<1>4. CASE Wish(p) = "closed"
  BY <1>1, <1>4 DEF ServerInv, Stable, PassLabels, LockedLabels, OpeningLabels
<1> QED
  BY <1>2, <1>3, <1>4 DEF PortState

(* No step of any loop takes a port away from the state its scenario asks for. *)
LEMMA LoopStable ==
  ASSUME TypeOK, NEW p \in Gated, LoopInv(p), Stable(p), NEW q \in Gated, LoopStep(q), p \notin stopped'
  PROVE  Stable(p)'
<1>0. LoopPart /\ Wish(p)' = Wish(p) /\ Wish(p) \in PortState
  BY TypeParts, WishSame DEF LoopStep, Wish, PortState
<1>1. CASE p # q
  BY <1>0, <1>1, LoopLocal DEF Stable
<1>2. CASE p = q
  <2>0. p \notin stopped
    BY <1>0, <1>2 DEF LoopStep, Pass, Attach, Begin, ReadWish, ReadStopped, CloseFlag, Shut, ShutRaises, Bind,
          BindRaises, Serve, ServeRaises, End, Woken, Poll, Clear, StopTake, StopClose
  <2>1. ServerInv(p)
    BY <2>0 DEF LoopInv
  <2> USE DEF LoopPart, Goto, Report
  <2>2. CASE ReadWish(p)
    <3>1. loopPc'[p] = Plan(p, Wish(p), server[p]) /\ UNCHANGED <<server, listening>>
      BY <1>0, <2>2 DEF ReadWish
    <3>2. CASE Wish(p) = "open"
      <4>1. server[p] = "serving"
        BY <3>2 DEF Stable
      <4>2. loopPc'[p] = "end open"
        BY <1>0, <3>1, <3>2, <4>1, PlanFacts
      <4> QED
        BY <1>0, <3>1, <3>2, <4>1, <4>2 DEF Stable, LockedLabels
    <3>3. CASE Wish(p) = "closed"
      <4>1. loopPc'[p] \in {"end closed", "close", "shut"}
        <5>1. server[p] \in {"none", "bound", "serving", "half"} /\ "closed" \in PortState
          BY <1>0 DEF PortState
        <5>2. CASE server[p] = "none"
          BY <3>1, <3>3, <5>1, <5>2, PlanFacts
        <5>3. CASE server[p] # "none"
          <6>1. loopPc'[p] = IF p \in Grpc THEN "shut" ELSE "close"
            BY <3>1, <3>3, <5>1, <5>3, PlanFacts
          <6> QED
            BY <6>1
        <5> QED
          BY <5>2, <5>3
      <4> QED
        BY <1>0, <3>1, <3>3, <4>1 DEF Stable, OpeningLabels
    <3> QED
      BY <1>0, <3>2, <3>3 DEF PortState
  <2>3. CASE Attach(p) \/ Begin(p) \/ ReadStopped(p) \/ End(p) \/ Woken(p) \/ Poll(p) \/ Clear(p)
    <3>1. /\ UNCHANGED <<server, listening>>
          /\ loopPc'[p] \in {"begin", "read", "gone", "wait", "clear"}
      BY <1>0, <2>3 DEF Attach, Begin, ReadStopped, End, Woken, Poll, Clear
    <3> QED
      BY <1>0, <3>1 DEF Stable, LockedLabels, OpeningLabels
  <2>4. CASE CloseFlag(p) \/ Shut(p) \/ ShutRaises(p)
    <3>1. Wish(p) = "closed"
      BY <1>0, <2>4 DEF Stable, LockedLabels, CloseFlag, Shut, ShutRaises, PortState
    <3>2. loopPc[p] \in {"close", "shut"} /\ listening[p] = "closed" /\ server[p] \in {"none", "half"}
      BY <2>4, <3>1 DEF Stable, OpeningLabels, CloseFlag, Shut, ShutRaises
    <3>3. CASE CloseFlag(p)
      BY <1>0, <3>1, <3>2, <3>3 DEF Stable, OpeningLabels, CloseFlag
    <3>4. CASE Shut(p)
      BY <1>0, <3>1, <3>2, <3>4 DEF Stable, OpeningLabels, Shut
    <3>5. CASE ShutRaises(p)
      BY <1>0, <3>1, <3>2, <3>5 DEF Stable, OpeningLabels, ShutRaises
    <3> QED
      BY <2>4, <3>3, <3>4, <3>5
  <2>5. CASE Bind(p) \/ BindRaises(p) \/ Serve(p) \/ ServeRaises(p)
    <3>1. FALSE
      BY <1>0, <2>5 DEF Stable, LockedLabels, OpeningLabels, Bind, BindRaises, Serve, ServeRaises, PortState
    <3> QED
      BY <3>1
  <2>6. ~StopTake(p) /\ ~StopClose(p)
    BY <1>0, <1>2, <2>0 DEF StopTake, StopClose
  <2> QED
    BY <1>2, <2>2, <2>3, <2>4, <2>5, <2>6 DEF LoopStep, Pass
<1> QED
  BY <1>1, <1>2

(* A report that answers an ask with what the scenario asks for stays true. *)
LEMMA LoopReached ==
  ASSUME TypeOK, NEW p \in Gated, LoopInv(p), NEW q \in Gated, LoopStep(q), p \notin stopped',
         NEW t \in Nat, Reached(p, t, Wish(p)) => Stable(p), Reached(p, t, Wish(p))'
  PROVE  Stable(p)'
<1>0. LoopPart /\ Wish(p)' = Wish(p)
  BY TypeParts, WishSame DEF LoopStep
<1>1. CASE p = q /\ End(p)
  <2>1. LoopInv(p)'
    BY <1>1, OwnLoopInv
  <2>2. p \in reported' /\ loopPc'[p] = "wait"
    BY <1>0, <1>1 DEF End, EndPass, Goto, LoopPart
  <2>3. open'[p] = Wish(p)'
    BY DEF Reached
  <2>4. ServerInv(p)'
    BY <2>1 DEF LoopInv
  <2>5. Wish(p)' \in PortState
    BY DEF Wish, PortState
  <2> QED
    BY <2>2, <2>3, <2>4, <2>5 DEF ServerInv, Stable, PassLabels, LockedLabels, OpeningLabels, PortState
<1>2. CASE p # q \/ ~End(p)
  <2>1. done'[p] = done[p] /\ open'[p] = open[p]
    <3>1. CASE p # q
      BY <3>1, LoopLocal
    <3>2. CASE p = q
      BY <1>2, <3>2 DEF LoopStep, Pass, Attach, Begin, BeginPass, ReadWish, ReadStopped, CloseFlag, Shut, ShutRaises,
            Bind, BindRaises, Serve, ServeRaises, Woken, Poll, Clear, StopTake, StopClose, gateVars
    <3> QED
      BY <3>1, <3>2
  <2>2. Reached(p, t, Wish(p))
    BY <1>0, <2>1 DEF Reached
  <2> QED
    BY <2>2, LoopStable
<1> QED
  BY <1>1, <1>2

-----------------------------------------------------------------------------
(* The control calls.                                                      *)

(* What the calls know and hold is there from the start. *)
LEMMA InitCallInv == Init => \A w \in Writers : CallInv(w)
<1> SUFFICES ASSUME Init, NEW w \in Writers PROVE CallInv(w)
  OBVIOUS
<1>1. /\ pc[w] = "idle" /\ portLock = "nobody" /\ toWait[w] = {} /\ cur[w] = {} /\ stuck[w] = {} /\ toCheck[w] = {}
      /\ DOMAIN staged[w] = {} /\ written[w] = {} /\ \A p \in Gated : want[w][p] = "none"
  BY DEF Init
<1> QED
  BY <1>1, PortsAssumption DEF CallInv, LockInv, WaitInv, Settled

(* A call works under port_lock. *)
LEMMA CallLock ==
  ASSUME TypeOK, NEW w \in Writers, LockInv(w), CallStep(w)
  PROVE  portLock \in {"nobody", w} /\ portLock' \in {"nobody", w}
<1>1. CASE PostScenario(w) \/ Reset(w) \/ Sweep(w)
  BY <1>1 DEF PostScenario, Reset, Sweep, MayCall, Stage
<1>2. CASE WriteProvider(w) \/ PortWishes(w) \/ SettlePorts(w) \/ CheckReport(w) \/ StartWaiting(w) \/ WaitReached(w)
  BY <1>2 DEF LockInv, WriteProvider, PortWishes, SettlePorts, CheckReport, StartWaiting, WaitReached
<1>3. CASE WaitTimeout(w) \/ Probe(w) \/ AnswerOk(w) \/ AnswerStuck(w) \/ AskPort(w) \/ WakeLoop(w)
  BY <1>3 DEF LockInv, WaitTimeout, Probe, AnswerOk, AnswerStuck, Return, AskPort, WakeLoop
<1> QED
  BY <1>1, <1>2, <1>3 DEF CallStep, CallProgress

(* A call touches nothing of another call. *)
LEMMA CallOthers ==
  ASSUME TypeOK, NEW w \in Writers, NEW v \in Writers \ {w}, CallStep(w)
  PROVE  /\ pc'[v] = pc[v] /\ staged'[v] = staged[v] /\ written'[v] = written[v] /\ want'[v] = want[v]
         /\ toCheck'[v] = toCheck[v] /\ toWait'[v] = toWait[v] /\ ticket'[v] = ticket[v]
         /\ cur'[v] = cur[v] /\ stuck'[v] = stuck[v]
<1>0. CallPart /\ staged \in [Writers -> UNION {[S -> Scenario] : S \in SUBSET Providers}]
  BY TypeParts DEF ScenarioPart
<1> USE DEF CallPart, At
<1>1. CASE PostScenario(w) \/ Reset(w) \/ Sweep(w)
  BY <1>0, <1>1 DEF PostScenario, Reset, Sweep, Stage
<1>2. CASE WriteProvider(w) \/ PortWishes(w) \/ SettlePorts(w)
  BY <1>0, <1>2 DEF WriteProvider, PortWishes, SettlePorts
<1>3. CASE CheckReport(w) \/ AskPort(w) \/ WakeLoop(w) \/ StartWaiting(w)
  BY <1>0, <1>3 DEF CheckReport, AskPort, WakeLoop, StartWaiting
<1>4. CASE WaitReached(w) \/ WaitTimeout(w) \/ Probe(w)
  BY <1>0, <1>4 DEF WaitReached, WaitTimeout, Probe
<1>5. CASE AnswerOk(w) \/ AnswerStuck(w)
  BY <1>0, <1>5 DEF AnswerOk, AnswerStuck, Return
<1> QED
  BY <1>1, <1>2, <1>3, <1>4, <1>5 DEF CallStep, CallProgress

(* While another call works, a call is idle, and an idle call knows nothing. *)
LEMMA OtherCallInv ==
  ASSUME TypeOK, NEW w \in Writers, NEW v \in Writers \ {w}, LockInv(w), CallInv(v), CallStep(w)
  PROVE  CallInv(v)'
<1>1. portLock # v /\ portLock' # v
  BY CallLock, PortsAssumption
<1>2. pc[v] = "idle" /\ pc'[v] = "idle"
  BY <1>1, CallOthers DEF CallInv, LockInv
<1>3. /\ toWait'[v] = {} /\ cur'[v] = {} /\ stuck'[v] = {} /\ toCheck'[v] = toCheck[v]
      /\ DOMAIN staged'[v] = {} /\ written'[v] = {} /\ \A p \in Gated : want'[v][p] = "none"
  <2>1. /\ toWait[v] = {} /\ cur[v] = {} /\ stuck[v] = {}
        /\ DOMAIN staged[v] = {} /\ written[v] = {} /\ \A p \in Gated : want[v][p] = "none"
    BY <1>2 DEF CallInv, LockInv
  <2>2. /\ staged'[v] = staged[v] /\ written'[v] = written[v] /\ want'[v] = want[v]
        /\ toCheck'[v] = toCheck[v] /\ toWait'[v] = toWait[v] /\ cur'[v] = cur[v] /\ stuck'[v] = stuck[v]
    BY CallOthers
  <2> QED
    BY <2>1, <2>2
<1>4. toCheck[v] = {}
  <2>1. \A p \in toCheck[v] : want[v][p] # "none" /\ p \in Gated
    BY TypeParts DEF CallInv, CallPart
  <2>2. \A p \in Gated : want[v][p] = "none"
    BY <1>2 DEF CallInv, LockInv
  <2> QED
    BY <2>1, <2>2
<1> QED
  BY <1>1, <1>2, <1>3, <1>4 DEF CallInv, LockInv, WaitInv, Settled

(* A step of a call that writes no scenario moves no port and takes back no report. *)
LEMMA CallFrame ==
  ASSUME TypeOK, NEW w \in Writers, CallStep(w), scenario' = scenario
  PROVE  /\ stopped' = stopped
         /\ \A p \in Gated : /\ Wish(p)' = Wish(p)
                             /\ Stable(p)' <=> Stable(p)
                             /\ done'[p] = done[p] /\ open'[p] = open[p]
<1>1. UNCHANGED <<done, open, server, listening, loopPc, stopped>>
  BY CallLocal
<1>2. ASSUME NEW p \in Gated PROVE Wish(p)' = Wish(p)
  BY WishSame
<1>3. ASSUME NEW p \in Gated PROVE Stable(p)' <=> Stable(p)
  BY <1>1, <1>2, StableSame
<1> QED
  BY <1>1, <1>2, <1>3

(* The call that took port_lock and has written nothing yet. *)
LEMMA StartInv ==
  ASSUME TypeOK, NEW w \in Writers, CallInv(w), PostScenario(w) \/ Reset(w) \/ Sweep(w), CallStep(w)
  PROVE  CallInv(w)'
<1>0. CallPart /\ staged \in [Writers -> UNION {[S -> Scenario] : S \in SUBSET Providers}]
  BY TypeParts DEF ScenarioPart
<1>1. /\ pc[w] = "idle" /\ pc'[w] \in {"write", "sweep"} /\ portLock' = w
      /\ UNCHANGED <<scenario, written, want, toCheck, toWait, ticket, cur, stuck>>
  BY <1>0 DEF PostScenario, Reset, Sweep, MayCall, Stage, At, CallPart
<1>2. /\ toWait'[w] = {} /\ cur'[w] = {} /\ stuck'[w] = {} /\ written'[w] = {}
      /\ \A p \in Gated : want'[w][p] = "none"
  BY <1>1 DEF CallInv, LockInv
<1>3. \A p \in toCheck'[w] : want'[w][p] # "none" /\ p \in Gated
  BY <1>0, <1>1 DEF CallInv, CallPart
<1> QED
  BY <1>1, <1>2, <1>3 DEF CallInv, LockInv, WaitInv, Settled

(* A write touches no provider whose wishes the call has read. *)
LEMMA WriteInv ==
  ASSUME TypeOK, NEW w \in Writers, CallInv(w), WriteProvider(w), CallStep(w)
  PROVE  CallInv(w)'
<1>0. CallPart /\ ScenarioPart
  BY TypeParts
<1>1. PICK pr \in DOMAIN staged[w] :
         /\ scenario' = [scenario EXCEPT ![pr] = staged[w][pr]]
         /\ staged' = [staged EXCEPT ![w] = [q \in DOMAIN staged[w] \ {pr} |-> staged[w][q]]]
         /\ written' = [written EXCEPT ![w] = @ \cup {pr}]
  BY DEF WriteProvider
<1>2. /\ pc[w] \in {"write", "sweep"} /\ pc' = pc /\ portLock' = portLock
      /\ UNCHANGED <<want, toCheck, toWait, ticket, cur, stuck>>
  BY DEF WriteProvider
<1>3. /\ DOMAIN staged'[w] = DOMAIN staged[w] \ {pr}
      /\ written'[w] = written[w] \cup {pr}
  BY <1>0, <1>1 DEF ScenarioPart, CallPart
<1>4. ASSUME NEW p \in Gated, want[w][p] # "none" PROVE want'[w][p] = Wish(p)'
  <2>1. ProviderOf[p] # pr /\ ProviderOf[p] \in Providers
    BY <1>1, <1>4, PortsAssumption DEF CallInv, LockInv
  <2>2. scenario'[ProviderOf[p]] = scenario[ProviderOf[p]]
    BY <1>0, <1>1, <2>1 DEF ScenarioPart
  <2> QED
    BY <1>2, <1>4, <2>2, WishSame DEF CallInv
<1>5. LockInv(w)'
  BY <1>2, <1>3 DEF CallInv, LockInv
<1>6. toWait'[w] = {} /\ Settled(w)' = {}
  BY <1>2 DEF CallInv, LockInv, Settled
<1>7. \A p \in toCheck'[w] \cup toWait'[w] \cup cur'[w] : want'[w][p] # "none"
  BY <1>2 DEF CallInv
<1> QED
  BY <1>2, <1>4, <1>5, <1>6, <1>7 DEF CallInv, WaitInv

(* The wishes a call reads are those of providers it does not write again. *)
LEMMA WishesInv ==
  ASSUME TypeOK, NEW w \in Writers, CallInv(w), PortWishes(w), CallStep(w)
  PROVE  CallInv(w)'
<1>0. CallPart /\ ScenarioPart
  BY TypeParts
<1> DEFINE gates(pr) == EndpointsOf(pr) \cap Gated
<1>1. PICK pr \in written[w] :
         /\ want' = [want EXCEPT ![w] = [p \in Gated |-> IF p \in gates(pr) THEN Wish(p) ELSE @[p]]]
         /\ toCheck' = [toCheck EXCEPT ![w] = @ \cup gates(pr)]
         /\ written' = [written EXCEPT ![w] = @ \ {pr}]
  BY DEF PortWishes
<1>2. /\ pc[w] \in {"write", "sweep"} /\ pc' = pc /\ portLock' = portLock
      /\ UNCHANGED <<scenario, staged, toWait, ticket, cur, stuck>>
  BY DEF PortWishes
<1>3. /\ \A p \in Gated : want'[w][p] = IF p \in gates(pr) THEN Wish(p) ELSE want[w][p]
      /\ toCheck'[w] = toCheck[w] \cup gates(pr)
      /\ written'[w] = written[w] \ {pr}
  BY <1>0, <1>1 DEF CallPart
<1>4. \A p \in gates(pr) : p \in Gated /\ ProviderOf[p] = pr /\ pr \notin DOMAIN staged[w]
  BY <1>1 DEF EndpointsOf, CallInv, LockInv
<1>5. \A p \in Gated : Wish(p) # "none" /\ Wish(p)' = Wish(p)
  BY <1>2, WishSame DEF Wish
<1> HIDE DEF gates
<1>6. toWait[w] = {} /\ cur[w] = {} /\ stuck[w] = {} /\ toCheck[w] \subseteq Gated
  BY <1>0, <1>2 DEF CallInv, LockInv, CallPart
<1>7. LockInv(w)'
  BY <1>2, <1>3, <1>4, <1>5 DEF CallInv, LockInv
<1>8. Settled(w)' = {}
  BY <1>2, <1>7 DEF LockInv, Settled
<1>9. \A p \in Gated : want'[w][p] # "none" => want'[w][p] = Wish(p)'
  BY <1>3, <1>5 DEF CallInv
<1>10. \A p \in toCheck'[w] \cup toWait'[w] \cup cur'[w] : want'[w][p] # "none"
  BY <1>2, <1>3, <1>4, <1>5, <1>6 DEF CallInv
<1> QED
  BY <1>2, <1>6, <1>7, <1>8, <1>9, <1>10 DEF CallInv, WaitInv

(* The steps between the last write and the first wait. *)
LEMMA CheckInv ==
  ASSUME TypeOK, NEW w \in Writers, CallInv(w), \A p \in Gated : LoopInv(p), CallStep(w),
         SettlePorts(w) \/ CheckReport(w) \/ StartWaiting(w)
  PROVE  CallInv(w)'
<1>0. CallPart
  BY TypeParts
<1>1. /\ UNCHANGED <<scenario, portLock, staged, written, want, toWait, ticket, stuck>>
  BY DEF SettlePorts, CheckReport, StartWaiting
<1>2. /\ stopped' = stopped
      /\ \A p \in Gated : /\ Wish(p)' = Wish(p)
                          /\ Stable(p)' <=> Stable(p)
                          /\ done'[p] = done[p] /\ open'[p] = open[p]
  BY <1>1, CallFrame
<1>3. /\ \A p \in Gated : want'[w][p] # "none" => want'[w][p] = Wish(p)'
      /\ WaitInv(w)'
  BY <1>0, <1>1, <1>2 DEF CallInv, WaitInv, Reached, CallPart
<1>4. CASE SettlePorts(w) \/ StartWaiting(w)
  <2>1. /\ cur' = cur /\ toCheck' = toCheck
        /\ \/ pc[w] \in {"write", "sweep"} /\ pc'[w] = "check" /\ DOMAIN staged[w] = {} /\ written[w] = {}
           \/ pc[w] = "check" /\ pc'[w] = "wait" /\ toCheck[w] = {}
    BY <1>0, <1>4 DEF SettlePorts, StartWaiting, At, CallPart
  <2>2. LockInv(w)' /\ \A p \in toCheck'[w] \cup toWait'[w] \cup cur'[w] : want'[w][p] # "none"
    BY <1>1, <2>1 DEF CallInv, LockInv
  <2>3. \A p \in Settled(w)' : p \in Settled(w)
    BY <1>1, <2>1 DEF Settled, CallInv, LockInv
  <2> QED
    BY <1>2, <1>3, <2>2, <2>3 DEF CallInv, Settled
<1>5. CASE CheckReport(w)
  <2>1. PICK p \in toCheck[w] :
           /\ toCheck' = [toCheck EXCEPT ![w] = @ \ {p}]
           /\ \/ LastReportIs(p, want[w][p]) /\ pc' = pc /\ cur' = cur
              \/ pc' = [pc EXCEPT ![w] = "ask"] /\ cur' = [cur EXCEPT ![w] = {p}]
    BY <1>5 DEF CheckReport, At
  <2>2. /\ p \in Gated /\ pc[w] = "check" /\ toCheck'[w] = toCheck[w] \ {p}
        /\ \/ LastReportIs(p, want[w][p]) /\ pc'[w] = "check" /\ cur'[w] = {}
           \/ pc'[w] = "ask" /\ cur'[w] = {p}
    BY <1>0, <1>5, <2>1 DEF CheckReport, CallPart, CallInv, LockInv
  <2>3. LockInv(w)'
    BY <1>1, <2>2 DEF CallInv, LockInv
  <2>4. \A q \in toCheck'[w] \cup toWait'[w] \cup cur'[w] : want'[w][q] # "none"
    BY <1>1, <2>1, <2>2 DEF CallInv
  <2>5. ASSUME NEW q \in Settled(w)', q \notin stopped' PROVE Stable(q)'
    <3>1. q \in Gated /\ q \notin stopped
      BY <1>2, <2>5 DEF Settled
    <3>2. CASE q # p
      <4>1. q \in Settled(w)
        BY <1>1, <2>2, <2>5, <3>2 DEF Settled, CallInv, LockInv
      <4> QED
        BY <1>2, <3>1, <4>1 DEF CallInv
    <3>3. CASE q = p
      <4>1. LastReportIs(p, want[w][p])
        BY <2>2, <2>5, <3>3 DEF Settled
      <4>2. p \in reported /\ p \notin inPass /\ open[p] = Wish(p) /\ LoopInv(p)
        BY <2>1, <2>2, <4>1 DEF LastReportIs, CallInv
      <4>3. loopPc[p] \notin PassLabels
        BY <4>2 DEF LoopInv, GateInv
      <4> QED
        BY <1>2, <3>1, <3>3, <4>2, <4>3, ReportStable
    <3> QED
      BY <3>2, <3>3
  <2> QED
    BY <1>3, <2>3, <2>4, <2>5 DEF CallInv
<1> QED
  BY <1>4, <1>5

(* No pass that finished before an ask has seen the ticket it hands out. *)
LEMMA TicketAhead ==
  \A a, d \in Nat : d <= a => ~(d >= a + 1) /\ a + 1 > 0
BY SMTT(60)

(* An ask hands out a ticket that no finished pass has seen. *)
LEMMA AskInv ==
  ASSUME TypeOK, NEW w \in Writers, CallInv(w), \A p \in Gated : LoopInv(p), CallStep(w), AskPort(w) \/ WakeLoop(w)
  PROVE  CallInv(w)'
<1>0. CallPart /\ LoopPart
  BY TypeParts
<1>1. UNCHANGED <<scenario, portLock, staged, written, want, toCheck, stuck>>
  BY DEF AskPort, WakeLoop
<1>2. /\ stopped' = stopped
      /\ \A p \in Gated : /\ Wish(p)' = Wish(p)
                          /\ Stable(p)' <=> Stable(p)
                          /\ done'[p] = done[p] /\ open'[p] = open[p]
  BY <1>1, CallFrame
<1>3. \A p \in Gated : want'[w][p] # "none" => want'[w][p] = Wish(p)'
  BY <1>1, <1>2 DEF CallInv
<1>4. CASE AskPort(w)
  <2>1. PICK p \in cur[w] :
           /\ ticket' = [ticket EXCEPT ![w] = [@ EXCEPT ![p] = asked[p] + 1]]
           /\ toWait' = [toWait EXCEPT ![w] = @ \cup {p}]
           /\ pc' = [pc EXCEPT ![w] = IF loopPc[p] = "new" THEN "check" ELSE "wake"]
           /\ cur' = [cur EXCEPT ![w] = IF loopPc[p] = "new" THEN {} ELSE @]
    BY <1>4 DEF AskPort, At
  <2>2. /\ p \in Gated /\ pc[w] = "ask" /\ cur[w] = {p} /\ toWait'[w] = toWait[w] \cup {p}
        /\ \/ pc'[w] = "check" /\ cur'[w] = {}
           \/ pc'[w] = "wake" /\ cur'[w] = {p}
    <3>1. p \in Gated /\ pc[w] = "ask"
      BY <1>0, <1>4, <2>1 DEF AskPort, CallPart
    <3>2. cur[w] = {p}
      <4>1. \A q, r \in cur[w] : q = r
        BY DEF CallInv, LockInv
      <4> QED
        BY <2>1, <4>1
    <3>3. toWait'[w] = toWait[w] \cup {p}
      BY <1>0, <2>1 DEF CallPart
    <3>4. \/ pc'[w] = "check" /\ cur'[w] = {}
          \/ pc'[w] = "wake" /\ cur'[w] = {p}
      BY <1>0, <2>1, <3>2 DEF CallPart
    <3> QED
      BY <3>1, <3>2, <3>3, <3>4
  <2>3. LockInv(w)'
    BY <1>1, <2>2 DEF CallInv, LockInv
  <2>4. \A q \in toCheck'[w] \cup toWait'[w] \cup cur'[w] : want'[w][q] # "none"
    BY <1>1, <2>2 DEF CallInv
  <2>5. \A q \in Settled(w)' : q \in Settled(w)
    BY <1>1, <2>2 DEF Settled
  <2>6. ASSUME NEW q \in toWait'[w] \ stopped' PROVE ticket'[w][q] > 0 /\ (Reached(q, ticket[w][q], Wish(q))' => Stable(q)')
    <3>0. q \in Gated
      BY <1>0, <2>2, <2>6 DEF CallPart
    <3>1. CASE q = p
      <4>1. ticket'[w][p] = asked[p] + 1 /\ asked[p] \in Nat /\ done[p] \in Nat
        BY <1>0, <2>1, <2>2 DEF CallPart, LoopPart, GateTypeOK
      <4>2. done[p] <= asked[p]
        BY <2>2 DEF LoopInv, GateInv
      <4>3. done'[p] = done[p]
        BY <1>2, <2>2
      <4>4. ~(done'[p] >= ticket'[w][p]) /\ ticket'[w][p] > 0
        BY <4>1, <4>2, <4>3, TicketAhead
      <4> QED
        BY <3>1, <4>4 DEF Reached
    <3>2. CASE q # p
      <4>1. ticket'[w][q] = ticket[w][q] /\ q \in toWait[w] \ stopped
        BY <1>0, <1>2, <2>1, <2>2, <2>6, <3>2 DEF CallPart
      <4> QED
        BY <1>2, <3>0, <4>1 DEF CallInv, WaitInv, Reached
    <3> QED
      BY <3>1, <3>2
  <2>7. WaitInv(w)'
    BY <2>6 DEF WaitInv
  <2> QED
    BY <1>2, <1>3, <2>3, <2>4, <2>5, <2>7 DEF CallInv, Settled
<1>5. CASE WakeLoop(w)
  <2>1. /\ pc[w] = "wake" /\ pc'[w] = "check" /\ cur'[w] = {} /\ UNCHANGED <<toWait, ticket>>
    BY <1>0, <1>5 DEF WakeLoop, At, CallPart
  <2>2. LockInv(w)' /\ \A q \in toCheck'[w] \cup toWait'[w] \cup cur'[w] : want'[w][q] # "none"
    BY <1>1, <2>1 DEF CallInv, LockInv
  <2>3. \A q \in Settled(w)' : q \in Settled(w)
    BY <1>1, <2>1 DEF Settled, CallInv, LockInv
  <2>4. WaitInv(w)'
    BY <1>0, <1>2, <2>1 DEF CallInv, WaitInv, Reached, CallPart
  <2> QED
    BY <1>2, <1>3, <2>2, <2>3, <2>4 DEF CallInv, Settled
<1> QED
  BY <1>4, <1>5

(* A wait that ends well found the port where it stays. *)
LEMMA WaitingInv ==
  ASSUME TypeOK, NEW w \in Writers, CallInv(w), CallStep(w), WaitReached(w) \/ WaitTimeout(w) \/ Probe(w)
  PROVE  CallInv(w)'
<1>0. CallPart
  BY TypeParts
<1>1. UNCHANGED <<scenario, portLock, staged, written, want, toCheck, ticket>>
  BY DEF WaitReached, WaitTimeout, Probe
<1>2. /\ stopped' = stopped
      /\ \A p \in Gated : /\ Wish(p)' = Wish(p)
                          /\ Stable(p)' <=> Stable(p)
                          /\ done'[p] = done[p] /\ open'[p] = open[p]
  BY <1>1, CallFrame
<1>3. \A p \in Gated : want'[w][p] # "none" => want'[w][p] = Wish(p)'
  BY <1>1, <1>2 DEF CallInv
<1>w. toWait'[w] \subseteq toWait[w] => WaitInv(w)'
  BY <1>0, <1>1, <1>2 DEF CallInv, WaitInv, Reached, CallPart
<1>4. CASE WaitReached(w)
  <2>1. PICK p \in toWait[w] :
           /\ Reached(p, ticket[w][p], want[w][p])
           /\ toWait' = [toWait EXCEPT ![w] = @ \ {p}]
           /\ cur' = [cur EXCEPT ![w] = {p}]
    BY <1>4 DEF WaitReached
  <2>2. /\ p \in Gated /\ pc[w] = "wait" /\ pc'[w] = "probe" /\ toWait'[w] = toWait[w] \ {p} /\ cur'[w] = {p}
        /\ cur[w] = {} /\ stuck' = stuck
    BY <1>0, <1>4, <2>1 DEF WaitReached, At, CallPart, CallInv, LockInv
  <2>3. LockInv(w)' /\ \A q \in toCheck'[w] \cup toWait'[w] \cup cur'[w] : want'[w][q] # "none"
    BY <1>1, <2>1, <2>2 DEF CallInv, LockInv
  <2>4. ASSUME NEW q \in Settled(w)', q \notin stopped' PROVE Stable(q)'
    <3>1. q \in Gated /\ q \notin stopped
      BY <1>2, <2>4 DEF Settled
    <3>2. CASE q # p
      BY <1>1, <1>2, <2>2, <2>4, <3>1, <3>2 DEF Settled, CallInv
    <3>3. CASE q = p
      <4>1. Reached(p, ticket[w][p], Wish(p))
        BY <2>1, <2>2 DEF CallInv
      <4> QED
        BY <1>2, <2>1, <3>1, <3>3, <4>1 DEF CallInv, WaitInv
    <3> QED
      BY <3>2, <3>3
  <2> QED
    BY <1>3, <1>w, <2>2, <2>3, <2>4 DEF CallInv
<1>5. CASE WaitTimeout(w)
  <2>1. PICK p \in toWait[w] :
           /\ toWait' = [toWait EXCEPT ![w] = @ \ {p}]
           /\ stuck' = [stuck EXCEPT ![w] = @ \cup {p}]
    BY <1>5 DEF WaitTimeout
  <2>2. /\ pc[w] = "wait" /\ pc' = pc /\ toWait'[w] = toWait[w] \ {p} /\ stuck'[w] = stuck[w] \cup {p} /\ cur' = cur
    BY <1>0, <1>5, <2>1 DEF WaitTimeout, CallPart
  <2>3. LockInv(w)' /\ \A q \in toCheck'[w] \cup toWait'[w] \cup cur'[w] : want'[w][q] # "none"
    BY <1>1, <2>2 DEF CallInv, LockInv
  <2>4. \A q \in Settled(w)' : q \in Settled(w)
    BY <1>1, <2>2 DEF Settled
  <2> QED
    BY <1>2, <1>3, <1>w, <2>2, <2>3, <2>4 DEF CallInv, Settled
<1>6. CASE Probe(w)
  <2>1. /\ pc[w] = "probe" /\ pc'[w] = "wait" /\ toWait' = toWait /\ cur'[w] = {} /\ stuck[w] \subseteq stuck'[w]
    BY <1>0, <1>6 DEF Probe, At, CallPart
  <2>2. LockInv(w)' /\ \A q \in toCheck'[w] \cup toWait'[w] \cup cur'[w] : want'[w][q] # "none"
    BY <1>1, <2>1 DEF CallInv, LockInv
  <2>3. \A q \in Settled(w)' : q \in Settled(w)
    BY <1>1, <2>1 DEF Settled
  <2> QED
    BY <1>2, <1>3, <1>w, <2>1, <2>2, <2>3 DEF CallInv, Settled
<1> QED
  BY <1>4, <1>5, <1>6

(* A call that returned knows nothing. *)
LEMMA ReturnInv ==
  ASSUME TypeOK, NEW w \in Writers, CallInv(w), CallStep(w), AnswerOk(w) \/ AnswerStuck(w)
  PROVE  CallInv(w)'
<1>0. CallPart
  BY TypeParts
<1>1. /\ pc[w] = "wait" /\ pc'[w] = "idle" /\ portLock' = "nobody" /\ toWait'[w] = {} /\ stuck'[w] = {}
      /\ \A p \in Gated : want'[w][p] = "none"
      /\ UNCHANGED <<staged, written, toCheck, cur>>
  BY SMTT(60), <1>0 DEF AnswerOk, AnswerStuck, Return, At, CallPart
<1>2. toCheck'[w] = {} /\ cur'[w] = {} /\ DOMAIN staged'[w] = {} /\ written'[w] = {} /\ w # "nobody"
  BY <1>1, PortsAssumption DEF CallInv, LockInv
<1> QED
  BY <1>1, <1>2 DEF CallInv, LockInv, WaitInv, Settled

(* A step of a loop keeps what every call relies on. *)
LEMMA LoopCallInv ==
  ASSUME TypeOK, \A p \in Gated : LoopInv(p), NEW q \in Gated, LoopStep(q), NEW w \in Writers, CallInv(w)
  PROVE  CallInv(w)'
<1>0. CallPart
  BY TypeParts
<1>1. UNCHANGED <<scenario, portLock, pc, staged, written, want, toCheck, toWait, ticket, cur, stuck>>
  BY DEF LoopStep, callVars
<1>2. \A p \in Gated : Wish(p)' = Wish(p)
  BY <1>1, WishSame
<1>3. stopped \subseteq stopped'
  BY DEF LoopStep, Pass, Attach, Begin, ReadWish, ReadStopped, CloseFlag, Shut, ShutRaises, Bind,
         BindRaises, Serve, ServeRaises, End, Woken, Poll, Clear, StopTake, StopClose
<1>4. ASSUME NEW p \in toWait'[w] \ stopped' PROVE ticket'[w][p] > 0 /\ (Reached(p, ticket[w][p], Wish(p))' => Stable(p)')
  <2>1. p \in Gated /\ p \in toWait[w] \ stopped /\ ticket[w][p] \in Nat
    BY <1>0, <1>1, <1>3, <1>4 DEF CallPart
  <2>2. ticket[w][p] > 0 /\ (Reached(p, ticket[w][p], Wish(p)) => Stable(p))
    BY <2>1 DEF CallInv, WaitInv
  <2>3. ASSUME Reached(p, ticket[w][p], Wish(p))' PROVE Stable(p)'
    <3> DEFINE t == ticket[w][p]
    <3>1. Reached(p, t, Wish(p))'
      BY <2>3
    <3>2. t \in Nat /\ t' = t /\ (Reached(p, t, Wish(p)) => Stable(p))
      BY <1>1, <2>1, <2>2
    <3>3. done'[p] >= t /\ open'[p] = Wish(p)'
      BY <3>1, <3>2 DEF Reached
    <3> HIDE DEF t
    <3> QED
      BY <1>4, <2>1, <3>2, <3>3, LoopReached DEF Reached
  <2> QED
    BY <1>1, <2>2, <2>3
<1>5. WaitInv(w)'
  BY <1>4 DEF WaitInv
<1>6. ASSUME NEW p \in Settled(w)' \ stopped' PROVE Stable(p)'
  <2>1. p \in Settled(w) /\ p \in Gated /\ p \notin stopped
    BY <1>1, <1>3, <1>6 DEF Settled
  <2> QED
    BY <1>6, <2>1, LoopStable DEF CallInv
<1>7. LockInv(w)'
  BY <1>1 DEF CallInv, LockInv
<1> QED
  BY <1>1, <1>2, <1>5, <1>6, <1>7 DEF CallInv

(* A probe of GET /ready keeps what every call relies on. *)
LEMMA ReadyCallInv ==
  ASSUME TypeOK, NEW r \in Probers, ReadyInv(r), ReadyStep(r), NEW w \in Writers, CallInv(w)
  PROVE  CallInv(w)'
<1>1. UNCHANGED <<scenario, done, open, loopPc, server, listening, stopped,
                  pc, staged, written, want, toCheck, toWait, ticket, cur, stuck>>
  BY DEF ReadyStep, gateVars, loopVars, callVars
<1>2. portLock' = w <=> portLock = w
  <2>1. r # w /\ w # "nobody"
    BY PortsAssumption
  <2> QED
    BY <2>1 DEF ReadyStep, ReadyLock, ReadyNoLock, ReadyRead, ReadyProbe, ReadyAnswer
<1>3. LockInv(w)'
  BY <1>1, <1>2 DEF CallInv, LockInv
<1>4. \A p \in Gated : Wish(p)' = Wish(p) /\ (Stable(p)' <=> Stable(p))
  BY <1>1, WishSame, StableSame
<1>5. WaitInv(w)'
  BY <1>1, <1>4, TypeParts DEF CallInv, WaitInv, Reached, CallPart
<1>6. Settled(w)' = Settled(w)
  BY <1>1 DEF Settled
<1>7. Settled(w) \subseteq Gated
  BY DEF Settled
<1> QED
  BY <1>1, <1>3, <1>4, <1>5, <1>6, <1>7 DEF CallInv

(* Every step keeps what every call relies on. *)
LEMMA NextCallInv ==
  ASSUME TypeOK, ControlInv, Next, NEW v \in Writers PROVE CallInv(v)'
<1>1. ASSUME NEW p \in Gated, LoopStep(p) PROVE CallInv(v)'
  BY <1>1, LoopCallInv DEF ControlInv
<1>2. ASSUME NEW w \in Writers, CallStep(w) PROVE CallInv(v)'
  <2>1. CASE v = w
    BY <1>2, <2>1, StartInv, WriteInv, WishesInv, CheckInv, AskInv, WaitingInv, ReturnInv
    DEF ControlInv, CallStep, CallProgress
  <2>2. CASE v # w
    BY <1>2, <2>2, OtherCallInv DEF ControlInv, CallInv
  <2> QED
    BY <2>1, <2>2
<1>3. ASSUME NEW r \in Probers, ReadyStep(r) PROVE CallInv(v)'
  BY <1>3, ReadyCallInv DEF ControlInv
<1> QED
  BY <1>1, <1>2, <1>3 DEF Next

-----------------------------------------------------------------------------
(* The promises.                                                           *)

(* What a call that answers "ok" promises, the ports stand by. *)
LEMMA AnswerPromise ==
  ASSUME TypeOK, NEW w \in Writers, CallInv(w), AnswerOk(w), NEW p \in Gated, want[w][p] # "none"
  PROVE  want[w][p] = Wish(p) /\ (p \in stopped \/ Stable(p))
<1>1. toCheck[w] = {} /\ toWait[w] = {} /\ cur[w] = {} /\ stuck[w] = {}
  BY DEF AnswerOk, Return, CallInv, LockInv
<1>2. p \in Settled(w)
  BY <1>1 DEF Settled
<1> QED
  BY <1>2 DEF CallInv

(* Every step keeps the promises that are in force. *)
LEMMA NextPromise ==
  ASSUME TypeOK, ControlInv, Next, NEW p \in Gated, promised'[p] # "none"
  PROVE  promised'[p] = Wish(p)' /\ (p \in stopped' \/ Stable(p)')
<1>0. /\ promised[p] # "none" => promised[p] = Wish(p) /\ (p \in stopped \/ Stable(p))
      /\ LoopInv(p)
  BY DEF ControlInv, PromiseInv
<1>1. ASSUME NEW q \in Gated, LoopStep(q) PROVE promised'[p] = Wish(p)' /\ (p \in stopped' \/ Stable(p)')
  <2>1. promised' = promised /\ Wish(p)' = Wish(p)
    BY <1>1, WishSame DEF LoopStep
  <2>2. stopped \subseteq stopped'
    BY <1>1 DEF LoopStep, Pass, Attach, Begin, ReadWish, ReadStopped, CloseFlag, Shut, ShutRaises, Bind,
           BindRaises, Serve, ServeRaises, End, Woken, Poll, Clear, StopTake, StopClose
  <2> QED
    BY <1>0, <1>1, <2>1, <2>2, LoopStable
<1>2. ASSUME NEW w \in Writers, CallStep(w) PROVE promised'[p] = Wish(p)' /\ (p \in stopped' \/ Stable(p)')
  <2>1. UNCHANGED <<server, listening, loopPc, stopped>>
    BY <1>2, CallLocal
  <2>2. CASE WriteProvider(w)
    <3>1. PICK pr \in DOMAIN staged[w] :
             /\ scenario' = [scenario EXCEPT ![pr] = staged[w][pr]]
             /\ promised' = [x \in Gated |-> IF ProviderOf[x] = pr THEN "none" ELSE promised[x]]
      BY <2>2 DEF WriteProvider
    <3>2. ProviderOf[p] # pr /\ promised'[p] = promised[p] /\ ProviderOf[p] \in Providers
      BY <3>1, PortsAssumption
    <3>3. scenario'[ProviderOf[p]] = scenario[ProviderOf[p]]
      BY <3>1, <3>2, TypeParts DEF ScenarioPart
    <3> QED
      BY <1>0, <2>1, <3>2, <3>3, WishSame, StableSame
  <2>3. CASE AnswerOk(w)
    <3>1. scenario' = scenario /\ promised'[p] = IF want[w][p] = "none" THEN promised[p] ELSE want[w][p]
      BY <2>3 DEF AnswerOk, Return
    <3>2. Wish(p)' = Wish(p) /\ (Stable(p)' <=> Stable(p))
      BY <2>1, <3>1, WishSame, StableSame
    <3>3. CallInv(w)
      BY DEF ControlInv
    <3> QED
      BY <1>0, <2>1, <2>3, <3>1, <3>2, <3>3, AnswerPromise
  <2>4. CASE scenario' = scenario /\ promised' = promised
    BY <1>0, <2>1, <2>4, WishSame, StableSame
  <2> QED
    BY <1>2, <2>2, <2>3, <2>4
    DEF CallStep, CallProgress, PostScenario, Reset, Sweep, Stage, PortWishes, SettlePorts, CheckReport, AskPort,
        WakeLoop, StartWaiting, WaitReached, WaitTimeout, Probe, AnswerStuck, Return
<1>3. ASSUME NEW r \in Probers, ReadyStep(r) PROVE promised'[p] = Wish(p)' /\ (p \in stopped' \/ Stable(p)')
  <2>1. UNCHANGED <<scenario, server, listening, loopPc, stopped, promised>>
    BY <1>3 DEF ReadyStep, loopVars
  <2> QED
    BY <1>0, <2>1, WishSame, StableSame
<1> QED
  BY <1>1, <1>2, <1>3 DEF Next

(* A port that stands by its promise meets a connection as promised. *)
LEMMA StableListening ==
  ASSUME NEW p \in Gated \ stopped, LoopInv(p), Stable(p) PROVE listening[p] = Wish(p)
<1>1. ServerInv(p) /\ Wish(p) \in PortState
  BY DEF LoopInv, Wish, PortState
<1>2. CASE Wish(p) = "open"
  BY <1>1, <1>2 DEF ServerInv, Stable
<1>3. CASE Wish(p) = "closed"
  BY <1>3 DEF Stable
<1> QED
  BY <1>1, <1>2, <1>3 DEF PortState

-----------------------------------------------------------------------------
(* GET /ready.                                                             *)

(* Every step keeps what a probe that holds port_lock found. *)
LEMMA NextReadyInv ==
  ASSUME TypeOK, ControlInv, Next, NEW r \in Probers PROVE ReadyInv(r)'
<1>0. /\ ReadyInv(r) /\ ReadyPart
      /\ r # "nobody" /\ r \notin Writers
  BY TypeParts, PortsAssumption DEF ControlInv
<1>1. ASSUME NEW p \in Gated, LoopStep(p) PROVE ReadyInv(r)'
  <2>1. stopped \subseteq stopped' /\ UNCHANGED <<portLock, promised, readyPc, held, missing>>
    BY <1>1 DEF LoopStep, Pass, Attach, Begin, ReadWish, ReadStopped, CloseFlag, Shut, ShutRaises, Bind,
           BindRaises, Serve, ServeRaises, End, Woken, Poll, Clear, StopTake, StopClose, readyVars
  <2> QED
    BY <1>0, <2>1 DEF ReadyInv
<1>2. ASSUME NEW w \in Writers, CallStep(w) PROVE ReadyInv(r)'
  <2>1. portLock # r /\ portLock' # r
    BY <1>0, <1>2, CallLock DEF ControlInv, CallInv
  <2>2. UNCHANGED <<readyPc, held, missing>>
    BY <1>2 DEF CallStep, readyVars
  <2> QED
    BY <1>0, <2>1, <2>2 DEF ReadyInv
<1>3. ASSUME NEW s \in Probers, ReadyStep(s) PROVE ReadyInv(r)'
  <2>0. /\ UNCHANGED <<stopped, listening, promised>>
        /\ ReadyInv(s) /\ s # "nobody"
    BY <1>3, PortsAssumption DEF ReadyStep, loopVars, ControlInv
  <2>1. CASE s # r
    <3>1. /\ portLock' = r <=> portLock = r
          /\ r \in held' <=> r \in held
          /\ readyPc'[r] = readyPc[r] /\ missing'[r] = missing[r]
      BY <1>0, <1>3, <2>0, <2>1 DEF ReadyStep, ReadyLock, ReadyNoLock, ReadyRead, ReadyProbe, ReadyAnswer, ReadyPart
    <3> QED
      BY <1>0, <2>0, <3>1 DEF ReadyInv
  <2>2. CASE s = r
    <3> USE DEF ReadyPart, ReadyInv
    <3>1. CASE ReadyLock(r)
      BY <1>0, <2>0, <3>1 DEF ReadyLock
    <3>2. CASE ReadyNoLock(r) \/ ReadyRead(r)
      BY <1>0, <2>0, <3>2 DEF ReadyNoLock, ReadyRead
    <3>3. CASE ReadyProbe(r)
      <4>1. PICK p \in toProbe[r] : missing' = [missing EXCEPT ![r] = IF listening[p] = "open" THEN @ ELSE @ \cup {p}]
        BY <3>3 DEF ReadyProbe
      <4>2. UNCHANGED <<portLock, held, readyPc>> /\ readyPc[r] = "probe"
        BY <3>3 DEF ReadyProbe
      <4>3. ASSUME r \in held', NEW q \in (missing'[r] \cap Gated) \ stopped' PROVE promised'[q] # "open"
        <5>1. q \in missing[r] \/ listening[q] # "open"
          BY <1>0, <4>1, <4>3
        <5>2. CASE q \in missing[r]
          BY <1>0, <2>0, <4>2, <4>3, <5>2
        <5>3. CASE listening[q] # "open"
          <6>1. q \in Gated /\ q \notin stopped /\ LoopInv(q)
            BY <2>0, <4>3 DEF ControlInv
          <6>2. promised[q] = "open" => Wish(q) = "open" /\ Stable(q)
            BY <6>1 DEF ControlInv, PromiseInv
          <6> QED
            BY <2>0, <5>3, <6>1, <6>2, StableListening
        <5> QED
          BY <5>1, <5>2, <5>3
      <4> QED
        BY <1>0, <4>2, <4>3
    <3>4. CASE ReadyAnswer(r)
      BY <1>0, <2>0, <3>4 DEF ReadyAnswer
    <3> QED
      BY <1>3, <2>2, <3>1, <3>2, <3>3, <3>4 DEF ReadyStep
  <2> QED
    BY <2>1, <2>2
<1> QED
  BY <1>1, <1>2, <1>3 DEF Next

-----------------------------------------------------------------------------
(* The theorems.                                                           *)

(* The inductive invariant holds at the start. *)
LEMMA InitControl == Init => ControlInv
<1> SUFFICES ASSUME Init PROVE ControlInv
  OBVIOUS
<1>1. PromiseInv
  BY DEF Init, PromiseInv
<1>2. \A r \in Probers : ReadyInv(r)
  BY PortsAssumption DEF Init, ReadyInv
<1> QED
  BY <1>1, <1>2, InitLoopInv, InitCallInv DEF ControlInv

(* Every step keeps the inductive invariant. *)
LEMMA NextControl == TypeOK /\ ControlInv /\ [Next]_vars => ControlInv'
<1> SUFFICES ASSUME TypeOK, ControlInv, [Next]_vars PROVE ControlInv'
  OBVIOUS
<1>1. CASE Next
  <2>1. \A p \in Gated : LoopInv(p)'
    BY <1>1, NextLoopInv DEF ControlInv
  <2>2. \A w \in Writers : CallInv(w)'
    BY <1>1, NextCallInv
  <2>3. PromiseInv'
    BY <1>1, NextPromise DEF PromiseInv
  <2>4. \A r \in Probers : ReadyInv(r)'
    BY <1>1, NextReadyInv
  <2> QED
    BY <2>1, <2>2, <2>3, <2>4 DEF ControlInv
<1>2. CASE UNCHANGED vars
  <2> USE <1>2 DEF vars, gateVars, loopVars, callVars, readyVars
  <2>1. \A p \in Gated : LoopInv(p)'
    BY NextLoopInv DEF ControlInv
  <2>2. \A p \in Gated : Wish(p)' = Wish(p) /\ (Stable(p)' <=> Stable(p))
    BY WishSame, StableSame
  <2>3. ASSUME NEW w \in Writers PROVE CallInv(w)'
    <3>1. CallInv(w) /\ CallPart
      BY TypeParts DEF ControlInv
    <3>2. LockInv(w)' /\ Settled(w)' = Settled(w) /\ Settled(w) \subseteq Gated
      BY <3>1 DEF CallInv, LockInv, Settled
    <3>3. WaitInv(w)'
      BY <2>2, <3>1 DEF CallInv, WaitInv, Reached, CallPart
    <3> QED
      BY <2>2, <3>1, <3>2, <3>3 DEF CallInv
  <2>4. PromiseInv'
    BY <2>2 DEF ControlInv, PromiseInv
  <2>5. \A r \in Probers : ReadyInv(r)'
    BY DEF ControlInv, ReadyInv
  <2> QED
    BY <2>1, <2>3, <2>4, <2>5 DEF ControlInv
<1> QED
  BY <1>1, <1>2

(* The inductive invariant, for every value of the constants. *)
THEOREM ControlInvariant == Spec => [](TypeOK /\ ControlInv)
<1>1. Init => TypeOK /\ ControlInv
  BY InitTypes, InitControl
<1>2. TypeOK /\ ControlInv /\ [Next]_vars => TypeOK' /\ ControlInv'
  BY NextTypes, NextControl
<1> QED
  BY <1>1, <1>2, PTL DEF Spec

(* An "ok" of a control call is the truth about every port of the call until the provider is *)
(* written again (_settle_ports).                                                            *)
THEOREM PromisesKept == Spec => []PromiseKept
<1>1. TypeOK /\ ControlInv => PromiseKept
  <2> SUFFICES ASSUME ControlInv, NEW p \in Gated \ stopped, promised[p] # "none" PROVE listening[p] = promised[p]
    BY DEF PromiseKept
  <2>1. promised[p] = Wish(p) /\ Stable(p) /\ LoopInv(p)
    BY DEF ControlInv, PromiseInv
  <2> QED
    BY <2>1, StableListening
<1> QED
  BY <1>1, ControlInvariant, PTL

(* Between two passes the report of a gate is what the port is (_HttpPortLoop, _serve). *)
THEOREM ReportsMatch == Spec => []ReportMatchesPort
<1>1. TypeOK /\ ControlInv => ReportMatchesPort
  <2> SUFFICES ASSUME TypeOK, ControlInv, NEW p \in (reported \ inPass) \ stopped
               PROVE  open[p] = listening[p] /\ (open[p] = "open" => server[p] = "serving")
    BY DEF ReportMatchesPort
  <2>1. p \in Gated /\ open[p] \in PortState
    BY DEF TypeOK, GateTypeOK
  <2>2. GateInv(p) /\ ServerInv(p)
    BY <2>1 DEF ControlInv, LoopInv
  <2>3. loopPc[p] \notin PassLabels
    BY <2>2 DEF GateInv
  <2> QED
    BY <2>1, <2>2, <2>3 DEF ServerInv, PassLabels, LockedLabels, PortState
<1> QED
  BY <1>1, ControlInvariant, PTL

(* No second writer changes a scenario that a call under way wrote (port_lock). *)
THEOREM WishesOwned == Spec => []OwnWish
<1>1. TypeOK /\ ControlInv => OwnWish
  BY DEF ControlInv, CallInv, OwnWish
<1> QED
  BY <1>1, ControlInvariant, PTL

(* GET /ready with port_lock held names no port that the last control call called open. *)
THEOREM ReadyIsHonest == Spec => []ReadyHonest
<1>1. TypeOK /\ ControlInv => ReadyHonest
  BY DEF TypeOK, ControlInv, ReadyInv, ReadyHonest
<1> QED
  BY <1>1, ControlInvariant, PTL

(* A port loop that was stopped never opens its port again (_HttpPortLoop.stop). *)
THEOREM StopsAreFinal == Spec => []StopIsFinal
<1>1. TypeOK /\ ControlInv => StopIsFinal
  BY DEF TypeOK, ControlInv, LoopInv, StopInv, StopIsFinal
<1> QED
  BY <1>1, ControlInvariant, PTL

-----------------------------------------------------------------------------
(* The refinement.                                                         *)

(* The refinement mapping. *)
Wished == [p \in Gated |-> Wish(p)]
Port == [p \in Gated |-> listening[p]]

(* The initial states are initial states of the service. *)
LEMMA InitRefines == Init => Service!SInit
<1> SUFFICES ASSUME Init PROVE Service!SInit
  OBVIOUS
<1>1. ASSUME NEW p \in Gated PROVE Wish(p) = "open"
  BY PortsAssumption DEF Init, Default, Wish, WantsClosed
<1>2. LoopPart
  BY InitTypes, TypeParts
<1> QED
  BY <1>1, <1>2, PortsAssumption DEF Init, Service!SInit, Service!PortState, LoopPart, PortState

(* A step that changes nothing the service shows. *)
LEMMA Stutters ==
  ASSUME UNCHANGED <<scenario, listening, promised, stopped>> PROVE UNCHANGED Service!svars
<1>1. ASSUME NEW p \in Gated PROVE Wish(p)' = Wish(p)
  BY WishSame
<1>2. Wished' = Wished /\ Port' = Port
  BY <1>1 DEF Wished, Port
<1> QED
  BY <1>2 DEF Wished, Port, Service!svars

(* A loop moves a port for which nothing is promised, or stops. *)
LEMMA LoopRefines ==
  ASSUME TypeOK, PromiseKept, PromiseKept', NEW p \in Gated, LoopStep(p)
  PROVE  [Service!SNext]_(Service!svars)
<1>0. LoopPart
  BY TypeParts
<1>1. /\ UNCHANGED <<scenario, promised>>
      /\ Wished' = Wished
  <2>1. UNCHANGED <<scenario, promised>>
    BY DEF LoopStep
  <2>2. ASSUME NEW q \in Gated PROVE Wish(q)' = Wish(q)
    BY <2>1, WishSame
  <2> QED
    BY <2>1, <2>2 DEF Wished
<1>2. CASE StopTake(p)
  <2>1. stopped' = stopped \cup {p} /\ Port' = Port
    BY <1>2 DEF StopTake, Port
  <2>2. Service!Halt(p)
    BY <1>1, <2>1 DEF Service!Halt, Wished, Port
  <2> QED
    BY <2>2 DEF Service!SNext
<1>3. CASE StopClose(p)
  <2>1. p \in stopped /\ stopped' = stopped /\ Port' = [Port EXCEPT ![p] = "closed"]
    BY <1>0, <1>3, PortsAssumption DEF StopClose, Port, LoopPart
  <2>2. Service!Move(p)
    BY <1>1, <2>1 DEF Service!Move, Service!PortState, Wished, Port
  <2> QED
    BY <2>2 DEF Service!SNext
<1>4. CASE Pass(p) \/ Poll(p)
  <2>1. stopped' = stopped
    BY <1>4 DEF Pass, Attach, Begin, ReadWish, ReadStopped, CloseFlag, Shut, ShutRaises, Bind,
           BindRaises, Serve, ServeRaises, End, Woken, Poll, Clear
  <2>2. PICK s \in {"open", "closed"} : listening' = [listening EXCEPT ![p] = s]
    <3>1. CASE listening' = listening
      <4>1. listening[p] \in {"open", "closed"} /\ listening' = [listening EXCEPT ![p] = listening[p]]
        BY <1>0, <3>1, PortsAssumption DEF LoopPart, PortState
      <4> QED
        BY <4>1
    <3>2. CASE Shut(p) \/ ServeRaises(p)
      BY <3>2 DEF Shut, ServeRaises
    <3>3. CASE Bind(p)
      BY <3>3 DEF Bind
    <3>4. CASE ShutRaises(p)
      <4>1. listening[p] \in {"open", "closed"}
        BY <1>0, PortsAssumption DEF LoopPart, PortState
      <4> QED
        BY <3>4, <4>1 DEF ShutRaises
    <3> QED
      BY <1>4, <3>1, <3>2, <3>3, <3>4
      DEF Pass, Attach, Begin, ReadWish, ReadStopped, CloseFlag, BindRaises, Serve, End, Woken, Poll, Clear
  <2>3. Port' = [Port EXCEPT ![p] = s] /\ s \in Service!PortState
    BY <1>0, <2>2, PortsAssumption DEF Port, LoopPart, Service!PortState
  <2>4. CASE promised[p] = "none" \/ p \in stopped
    <3>1. Service!Move(p)
      BY <1>1, <2>1, <2>3, <2>4 DEF Service!Move, Wished, Port
    <3> QED
      BY <3>1 DEF Service!SNext
  <2>5. CASE promised[p] # "none" /\ p \notin stopped
    <3>1. listening'[p] = promised[p] /\ listening[p] = promised[p]
      BY <1>1, <2>1, <2>5 DEF PromiseKept
    <3>2. listening' = listening
      BY <1>0, <2>2, <3>1, PortsAssumption DEF LoopPart
    <3> QED
      BY <1>1, <2>1, <3>2, Stutters
  <2> QED
    BY <2>4, <2>5
<1> QED
  BY <1>2, <1>3, <1>4 DEF LoopStep

(* A control call writes, answers "ok", or shows the service nothing. *)
LEMMA CallRefines ==
  ASSUME TypeOK, ControlInv, NEW w \in Writers, CallStep(w)
  PROVE  [Service!SNext]_(Service!svars)
<1>0. listening' = listening /\ stopped' = stopped /\ Port' = Port
  BY CallLocal DEF Port
<1>1. CASE WriteProvider(w)
  <2>1. PICK pr \in DOMAIN staged[w] :
           /\ scenario' = [scenario EXCEPT ![pr] = staged[w][pr]]
           /\ promised' = [x \in Gated |-> IF ProviderOf[x] = pr THEN "none" ELSE promised[x]]
    BY <1>1 DEF WriteProvider
  <2> DEFINE S == {p \in Gated : ProviderOf[p] = pr}
  <2>2. \A p \in Gated \ S : Wish(p)' = Wish(p)
    <3> SUFFICES ASSUME NEW p \in Gated \ S PROVE Wish(p)' = Wish(p)
      OBVIOUS
    <3>1. scenario'[ProviderOf[p]] = scenario[ProviderOf[p]]
      BY <2>1, TypeParts, PortsAssumption DEF ScenarioPart
    <3> QED
      BY <3>1, WishSame
  <2>3. Wished' \in [Gated -> Service!PortState]
    BY DEF Wished, Wish, Service!PortState
  <2>4. \A p \in Gated \ S : Wished'[p] = Wished[p]
    BY <2>2 DEF Wished
  <2>5. promised' = [p \in Gated |-> IF p \in S THEN "none" ELSE promised[p]]
    BY <2>1
  <2>6. S \in SUBSET Gated
    OBVIOUS
  <2> HIDE DEF S
  <2>7. Service!Write(S)
    BY <1>0, <2>3, <2>4, <2>5 DEF Service!Write, Wished, Port
  <2> QED
    BY <2>6, <2>7 DEF Service!SNext
<1>2. CASE AnswerOk(w)
  <2> DEFINE S == {p \in Gated : want[w][p] # "none"}
  <2>1. /\ scenario' = scenario
        /\ promised' = [p \in Gated |-> IF want[w][p] = "none" THEN promised[p] ELSE want[w][p]]
    BY <1>2 DEF AnswerOk, Return
  <2>2. ASSUME NEW p \in Gated, want[w][p] # "none"
        PROVE  want[w][p] = Wish(p) /\ (p \in stopped \/ listening[p] = Wish(p))
    BY <1>2, <2>2, AnswerPromise, StableListening DEF ControlInv
  <2>3. promised' = [p \in Gated |-> IF p \in S THEN Wished[p] ELSE promised[p]]
    BY <2>1, <2>2 DEF Wished
  <2>4. \A p \in S \ stopped : Port[p] = Wished[p]
    BY <2>2 DEF Wished, Port
  <2>5. ASSUME NEW p \in Gated PROVE Wish(p)' = Wish(p)
    BY <2>1, WishSame
  <2>6. Wished' = Wished
    BY <2>5 DEF Wished
  <2>7. S \in SUBSET Gated
    OBVIOUS
  <2> HIDE DEF S
  <2>8. Service!Answer(S)
    BY <1>0, <2>3, <2>4, <2>6 DEF Service!Answer, Wished, Port
  <2> QED
    BY <2>7, <2>8 DEF Service!SNext
<1>3. CASE scenario' = scenario /\ promised' = promised
  BY <1>0, <1>3, Stutters
<1> QED
  BY <1>1, <1>2, <1>3
  DEF CallStep, CallProgress, PostScenario, Reset, Sweep, Stage, PortWishes, SettlePorts, CheckReport, AskPort,
      WakeLoop, StartWaiting, WaitReached, WaitTimeout, Probe, AnswerStuck, Return

(* Every step is a step of the service or changes nothing it shows. *)
LEMMA NextRefines ==
  TypeOK /\ ControlInv /\ PromiseKept /\ PromiseKept' /\ [Next]_vars => [Service!SNext]_(Service!svars)
<1> SUFFICES ASSUME TypeOK, ControlInv, PromiseKept, PromiseKept', [Next]_vars
             PROVE  [Service!SNext]_(Service!svars)
  OBVIOUS
<1>1. ASSUME NEW r \in Probers, ReadyStep(r) PROVE [Service!SNext]_(Service!svars)
  BY <1>1, Stutters DEF ReadyStep, loopVars
<1>2. CASE UNCHANGED vars
  BY <1>2, Stutters DEF vars, loopVars
<1> QED
  BY <1>1, <1>2, LoopRefines, CallRefines DEF Next

(* Gates, loops, lock and tickets implement the service that a caller of the control API  *)
(* relies on, for every value of the constants.                                           *)
THEOREM ServiceImplemented == Spec => ImplementsService
<1>1. Spec => [](TypeOK /\ ControlInv) /\ []PromiseKept
  BY ControlInvariant, PromisesKept, PTL
<1> QED
  BY <1>1, InitRefines, NextRefines, PTL DEF Spec, ImplementsService, Service!SSpec
=============================================================================
