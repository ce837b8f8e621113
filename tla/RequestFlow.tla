---------------------------- MODULE RequestFlow -----------------------------
(***************************************************************************)
(* One provider under concurrent requests and control writes: Listener.    *)
(* serve (listeners/base.py) with the fault policy (fault_policy.py), the  *)
(* fail_first_n window (domain/provider.py), the decision of a WebSocket   *)
(* upgrade (listeners/ws.py), the GraphQL reply to an unreadable body, and *)
(* the writes of POST /scenario, POST /reset and the TTL sweep.            *)
(*                                                                         *)
(* A request reads the scenario block once, takes its place in the window  *)
(* in a second step, and answers in a third: a control write may fall      *)
(* between any two.  A POST with fail_first_n restarts the window in one   *)
(* step and stores the block in the next.                                  *)
(*                                                                         *)
(* A filter that is not set is the full set.  dice is error_probability    *)
(* strictly between 0 and 1; shape stands for the corruption and the       *)
(* pause; a canned body and a content override keep only their label.      *)
(***************************************************************************)
EXTENDS Naturals, FiniteSets

CONSTANTS Requests,     \* requests and upgrade requests
          Endpoints,    \* the ports of the provider
          Methods,      \* the keys of per-method overrides
          Transports,   \* "http", "ws", "http2"
          TransportOf,  \* the transport of each endpoint
          Canned,       \* endpoints whose listener builds a body override
          Graphql,      \* endpoints of the GraphQL listener
          Wires,        \* what a request may be: "good", "direct", "malformed", "raises"
          Posts,        \* the updates POST /scenario may carry
          MaxWrites     \* bound: control writes

Modes == {"success", "error", "rate_limit", "down", "drop_connection", "hang", "port_closed"}

NoOverride == [k \in {} |-> k]

DefaultBlock ==
  [mode |-> "success", latency |-> 0, n |-> 0, then |-> "success", dice |-> FALSE,
   transports |-> Transports, ports |-> Endpoints, chosen |-> FALSE, shape |-> FALSE,
   unreadable |-> FALSE, over |-> [m \in Methods |-> NoOverride]]

ASSUME FlowAssumption ==
  /\ IsFiniteSet(Requests)
  /\ TransportOf \in [Endpoints -> Transports]
  /\ MaxWrites \in Nat
  /\ \A u \in Posts : DOMAIN u \subseteq DOMAIN DefaultBlock
  /\ \A u \in Posts : "n" \in DOMAIN u => u["n"] \in Nat

(* The labels a per-method override of a canned body or of content may bring. *)
OverridesLabelled(over) ==
  \A m \in Methods :
    /\ "canned" \in DOMAIN over[m] => over[m]["canned"] \in {"success", "error"}
    /\ "content" \in DOMAIN over[m] => over[m]["content"] \in {"custom", "error"}

ASSUME OverrideAssumption == \A u \in Posts : "over" \in DOMAIN u => OverridesLabelled(u["over"])

VARIABLES scenario,   \* the block of the provider
          failCount,  \* the counter of the fail_first_n window
          ctl,        \* the control write in progress: its kind and its update
          writes,     \* control writes started
          epoch,      \* reset_fail() calls so far
          window,     \* the epoch of the write that stored scenario.n
          pc,         \* pc[r]
          req,        \* req[r]: endpoint, method, kind and wire form of the request
          snap,       \* snap[r]: the block the request read, and its window
          fate,       \* fate[r]: targeted, effective mode and place in the window
          row,        \* row[r]: the history row
          result      \* result[r]: the ServeResult

control == <<scenario, failCount, ctl, writes, epoch, window>>
vars == <<scenario, failCount, ctl, writes, epoch, window, pc, req, snap, fate, row, result>>

Idle == [kind |-> "idle", update |-> NoOverride]
NoRequest == [ep |-> "none", method |-> "none", kind |-> "none", wire |-> "none"]
NoSnap == [block |-> DefaultBlock, window |-> 0]
NoFate == [targeted |-> FALSE, mode |-> "success", epoch |-> 0, slot |-> 0]
NoRow == [status |-> "none", latency |-> 0, parsed |-> FALSE]
NoResult == [action |-> "none", latency |-> 0, chosen |-> FALSE, shape |-> FALSE, body |-> "none"]

Init ==
  /\ scenario = DefaultBlock /\ failCount = 0
  /\ ctl = Idle /\ writes = 0 /\ epoch = 0 /\ window = 0
  /\ pc = [r \in Requests |-> "new"]
  /\ req = [r \in Requests |-> NoRequest]
  /\ snap = [r \in Requests |-> NoSnap]
  /\ fate = [r \in Requests |-> NoFate]
  /\ row = [r \in Requests |-> NoRow]
  /\ result = [r \in Requests |-> NoResult]

-----------------------------------------------------------------------------
(* The fault policy *)

(* targets: both filters must match. *)
Targets(b, e) == TransportOf[e] \in b.transports /\ e \in b.ports

(* ladder: the verdicts a mode may get.  port_closed has no branch. *)
Ladder(mode, dice) ==
  IF mode = "drop_connection" THEN {"drop"}
  ELSE IF mode \in {"down", "hang", "rate_limit", "error"} THEN {mode}
  ELSE IF dice THEN {"none", "error"} ELSE {"none"}

(* _STATUS_LABEL *)
StatusLabel(verdict) == IF verdict = "drop" THEN "drop_connection" ELSE verdict

-----------------------------------------------------------------------------
(* Requests *)

Move(r, from, to) == pc[r] = from /\ pc' = [pc EXCEPT ![r] = to]

(* Listener.arrive: the row is written before the request is read.  An upgrade *)
(* request writes no row here.                                                 *)
Arrive(r, q) ==
  /\ Move(r, "new", "arrived")
  /\ q.kind = "upgrade" => TransportOf[q.ep] = "ws"
  /\ req' = [req EXCEPT ![r] = q]
  /\ row' = IF q.kind = "upgrade" THEN row ELSE [row EXCEPT ![r].status = "in_flight"]
  /\ UNCHANGED <<control, snap, fate, result>>

(* The one snapshot of the block that serve and decide_upgrade take. *)
Snapshot(r) ==
  /\ Move(r, "arrived", "read")
  /\ snap' = [snap EXCEPT ![r] = [block |-> scenario, window |-> window]]
  /\ UNCHANGED <<control, req, fate, row, result>>

(* Provider.consume_fail *)
ConsumeFail == failCount' = failCount + 1

(* resolve_mode: a targeted request under an active window takes a place in *)
(* it; past the first n the mode is then_mode.                              *)
ResolveMode(r) ==
  LET b == snap[r].block
      targeted == Targets(b, req[r].ep)
  IN /\ Move(r, "read", "resolved")
     /\ IF b.n > 0 /\ targeted
        THEN /\ ConsumeFail
             /\ fate' = [fate EXCEPT ![r] =
                  [targeted |-> TRUE, epoch |-> epoch, slot |-> failCount + 1,
                   mode |-> IF failCount + 1 > b.n THEN b.then ELSE b.mode]]
        ELSE /\ UNCHANGED failCount
             /\ fate' = [fate EXCEPT ![r] =
                  [targeted |-> targeted, epoch |-> epoch, slot |-> 0,
                   mode |-> IF targeted THEN b.mode ELSE "success"]]
     /\ UNCHANGED <<scenario, ctl, writes, epoch, window, req, snap, row, result>>

(* finalize, and the reply with the chosen headers of a targeted block. *)
Answer(r, newRow, reply) ==
  /\ row' = [row EXCEPT ![r] = newRow]
  /\ result' = [result EXCEPT ![r] =
       [reply EXCEPT !.chosen = fate[r].targeted /\ snap[r].block.chosen]]
  /\ UNCHANGED <<control, req, snap, fate>>

IsDown(r) == fate[r].targeted /\ fate[r].mode = "down"

Serving(r) == Move(r, "resolved", "done") /\ req[r].kind = "serve"

(* Provider-wide down: answered before the parse, with no wait. *)
ServeDown(r) ==
  /\ Serving(r) /\ IsDown(r)
  /\ Answer(r, [status |-> "down", latency |-> 0, parsed |-> FALSE],
               [NoResult EXCEPT !.action = "no_body", !.body = "down"])

(* GraphQL: the reply to an unreadable body reads the block again. *)
UnreadableReply(e) ==
  IF e \in Graphql /\ scenario.unreadable /\ Targets(scenario, e) THEN "unreadable" ELSE "direct"

(* A DirectResponse of the parse: a batch, or an unreadable GraphQL body. *)
ServeDirect(r) ==
  /\ Serving(r) /\ ~IsDown(r) /\ req[r].wire = "direct"
  /\ Answer(r, [status |-> "error", latency |-> 0, parsed |-> FALSE],
               [NoResult EXCEPT !.action = "respond", !.body = UnreadableReply(req[r].ep)])

(* A ParseError of the parse. *)
ServeParseError(r) ==
  /\ Serving(r) /\ ~IsDown(r) /\ req[r].wire = "malformed"
  /\ Answer(r, [status |-> "parse_error", latency |-> 0, parsed |-> FALSE],
               [NoResult EXCEPT !.action = "respond", !.body = "parse_error"])

(* method_cfg: the override of this method, for a targeted endpoint. *)
MethodOverride(r) ==
  IF fate[r].targeted THEN snap[r].block.over[req[r].method] ELSE NoOverride

(* The override shadows the windowed mode, the latency and the dice. *)
Shadow(r, key, value) ==
  IF key \in DOMAIN MethodOverride(r) THEN MethodOverride(r)[key] ELSE value

EffectiveLatency(r) ==
  Shadow(r, "latency", IF fate[r].targeted THEN snap[r].block.latency ELSE 0)

HasCannedBody(r) == req[r].ep \in Canned /\ "canned" \in DOMAIN MethodOverride(r)

Verdicts(r) ==
  IF ~fate[r].targeted THEN {"none"}
  ELSE Ladder(Shadow(r, "mode", fate[r].mode), Shadow(r, "dice", snap[r].block.dice))

Parsed(r) == Serving(r) /\ ~IsDown(r) /\ req[r].wire \in {"good", "raises"}

(* The corruption and the pause of a reply with a body, on a targeted endpoint. *)
Written(r, body) ==
  [NoResult EXCEPT !.action = "respond", !.latency = EffectiveLatency(r), !.body = body,
                   !.shape = fate[r].targeted /\ snap[r].block.shape]

RowOf(r, status, latency) == [status |-> status, latency |-> latency, parsed |-> TRUE]

(* A canned body bypasses the ladder and the chain; its status is its label. *)
ServeCanned(r) ==
  /\ Parsed(r) /\ HasCannedBody(r)
  /\ Answer(r, RowOf(r, MethodOverride(r)["canned"], EffectiveLatency(r)), Written(r, "canned"))

(* Per-method down: the request was parsed, and it pays the latency. *)
ServeMethodDown(r) ==
  /\ Parsed(r) /\ ~HasCannedBody(r) /\ "down" \in Verdicts(r)
  /\ Answer(r, RowOf(r, "down", EffectiveLatency(r)),
               [NoResult EXCEPT !.action = "no_body", !.latency = EffectiveLatency(r), !.body = "down"])

(* Mutant of FaultReply: a hang waits for the latency like the other faults. *)
FaultReplyWaits(r, v) ==
  IF v = "hang" THEN [NoResult EXCEPT !.action = "hang", !.body = "fault", !.latency = EffectiveLatency(r)]
  ELSE IF v = "drop"
  THEN [NoResult EXCEPT !.action = "drop", !.latency = EffectiveLatency(r), !.body = "fault"]
  ELSE Written(r, "fault")

(* build_fault, with the wait of the reply: a hang has none. *)
FaultReply(r, v) ==
  IF v = "hang" THEN [NoResult EXCEPT !.action = "hang", !.body = "fault"]
  ELSE IF v = "drop"
  THEN [NoResult EXCEPT !.action = "drop", !.latency = EffectiveLatency(r), !.body = "fault"]
  ELSE Written(r, "fault")

ServeFault(r) ==
  /\ Parsed(r) /\ ~HasCannedBody(r)
  /\ \E v \in Verdicts(r) \ {"none", "down"} :
       Answer(r, RowOf(r, StatusLabel(v), IF v = "hang" THEN 0 ELSE EffectiveLatency(r)),
                 FaultReply(r, v))

(* The chain reads the responses of the whole block: no filter is asked. *)
Content(r) ==
  LET c == snap[r].block.over[req[r].method]
  IN IF "content" \in DOMAIN c THEN c["content"] ELSE "default"

ServeContent(r) ==
  /\ Parsed(r) /\ ~HasCannedBody(r) /\ "none" \in Verdicts(r) /\ req[r].wire = "good"
  /\ Answer(r, RowOf(r, IF Content(r) = "error" THEN "error" ELSE "success", EffectiveLatency(r)),
               Written(r, Content(r)))

(* build_content raises: no finally closes the row. *)
ContentRaises(r) ==
  /\ Move(r, "resolved", "dead") /\ req[r].kind = "serve"
  /\ ~IsDown(r) /\ ~HasCannedBody(r) /\ "none" \in Verdicts(r) /\ req[r].wire = "raises"
  /\ UNCHANGED <<control, req, snap, fate, row, result>>

(* decide_upgrade: 101 with no row, or a refusal with one complete row.  No *)
(* latency, no override.                                                    *)
AnswerUpgrade(r) ==
  /\ Move(r, "resolved", "done") /\ req[r].kind = "upgrade"
  /\ \E v \in IF fate[r].targeted THEN Ladder(fate[r].mode, snap[r].block.dice) ELSE {"none"} :
       Answer(r, IF v = "none" THEN NoRow
                 ELSE [status |-> StatusLabel(v), latency |-> 0, parsed |-> FALSE],
                 [NoResult EXCEPT
                    !.action = IF v \in {"hang", "drop"} THEN v ELSE "respond",
                    !.body = IF v = "none" THEN "switching" ELSE IF v = "down" THEN "down" ELSE "fault"])

-----------------------------------------------------------------------------
(* Control writes, one at a time under port_lock *)

Begin == ctl.kind = "idle" /\ writes < MaxWrites /\ writes' = writes + 1

UNCHANGEDRequests == UNCHANGED <<pc, req, snap, fate, row, result>>

(* IntrospectiveConfig.update: the keys given replace the stored ones. *)
Merge(b, u) == [k \in DOMAIN b |-> IF k \in DOMAIN u THEN u[k] ELSE b[k]]

(* Mutant of RestartWindow: the new window goes on with the old count. *)
RestartWindowNot(u) ==
  /\ Begin /\ "n" \in DOMAIN u
  /\ ctl' = [kind |-> "post", update |-> u]
  /\ epoch' = epoch + 1
  /\ UNCHANGED <<failCount, scenario, window>> /\ UNCHANGEDRequests

(* reset_fail() of a POST that carries fail_first_n. *)
RestartWindow(u) ==
  /\ Begin /\ "n" \in DOMAIN u
  /\ ctl' = [kind |-> "post", update |-> u]
  /\ failCount' = 0 /\ epoch' = epoch + 1
  /\ UNCHANGED <<scenario, window>> /\ UNCHANGEDRequests

(* scenario.update, after the restart of the window. *)
StoreBlock ==
  /\ ctl.kind = "post"
  /\ scenario' = Merge(scenario, ctl.update) /\ window' = epoch
  /\ ctl' = Idle
  /\ UNCHANGED <<failCount, writes, epoch>> /\ UNCHANGEDRequests

(* A POST with no fail_first_n leaves the counter alone. *)
StoreOnly(u) ==
  /\ Begin /\ "n" \notin DOMAIN u
  /\ scenario' = Merge(scenario, u)
  /\ UNCHANGED <<ctl, failCount, epoch, window>> /\ UNCHANGEDRequests

(* POST /reset: first the block, then the counter. *)
ResetBlock ==
  /\ Begin /\ scenario' = DefaultBlock
  /\ ctl' = [kind |-> "reset", update |-> NoOverride]
  /\ UNCHANGED <<failCount, epoch, window>> /\ UNCHANGEDRequests

ResetCount ==
  /\ ctl.kind = "reset" /\ ctl' = Idle
  /\ failCount' = 0 /\ epoch' = epoch + 1
  /\ UNCHANGED <<scenario, writes, window>> /\ UNCHANGEDRequests

(* The TTL sweep: a block in the mode success is left alone; the counter is too. *)
Sweep ==
  /\ Begin /\ scenario.mode # "success"
  /\ scenario' = DefaultBlock
  /\ UNCHANGED <<ctl, failCount, epoch, window>> /\ UNCHANGEDRequests

Queries == [ep : Endpoints, method : Methods, kind : {"serve"}, wire : Wires]
             \cup [ep : Endpoints, method : Methods, kind : {"upgrade"}, wire : {"good"}]

Step(r) ==
  \/ \E q \in Queries : Arrive(r, q)
  \/ Snapshot(r) \/ ResolveMode(r)
  \/ ServeDown(r) \/ ServeDirect(r) \/ ServeParseError(r) \/ ServeCanned(r)
  \/ ServeMethodDown(r) \/ ServeFault(r) \/ ServeContent(r) \/ ContentRaises(r)
  \/ AnswerUpgrade(r)

Write ==
  \/ \E u \in Posts : RestartWindow(u) \/ StoreOnly(u)
  \/ StoreBlock \/ ResetBlock \/ ResetCount \/ Sweep

Next == Write \/ \E r \in Requests : Step(r)

Spec == Init /\ [][Next]_vars

-----------------------------------------------------------------------------
(* Properties *)

Labels == {"none", "in_flight", "success", "error", "rate_limit", "down", "hang",
           "drop_connection", "parse_error"}

(* Every variable holds a value of its kind. *)
TypeOK ==
  /\ failCount \in Nat /\ epoch \in Nat /\ window \in Nat /\ writes \in 0..MaxWrites
  /\ ctl.kind \in {"idle", "post", "reset"}
  /\ pc \in [Requests -> {"new", "arrived", "read", "resolved", "done", "dead"}]
  /\ \A r \in Requests : fate[r].slot \in Nat /\ row[r].status \in Labels

(* The requests that took a place in the window since the last reset_fail. *)
Takers == {r \in Requests : fate[r].slot > 0 /\ fate[r].epoch = epoch}

(* The request read its block before the window it took a place in began. *)
Stale(r) == snap[r].window # fate[r].epoch

(* The request got the mode of the window and not then_mode. *)
Faulted(r) == fate[r].mode = snap[r].block.mode

MinOf(a, b) == IF a < b THEN a ELSE b

(* When every request that took a place in the window read the block that    *)
(* opened it, exactly the first fail_first_n of them get the fault mode.     *)
WindowExact ==
  (\A r \in Takers : ~Stale(r) /\ snap[r].block.mode # snap[r].block.then) =>
    \A q \in Takers :
      Cardinality({r \in Takers : Faulted(r)}) = MinOf(snap[q].block.n, failCount)

(* A block reaches no request on an endpoint outside its filters: no fault, no *)
(* latency, no chosen header, no corruption, and no place in the window.       *)
FaultsScoped ==
  \A r \in Requests :
    pc[r] = "done" /\ ~Targets(snap[r].block, req[r].ep) =>
      /\ result[r].body \notin {"fault", "down", "canned"}
      /\ result[r].latency = 0 /\ ~result[r].chosen /\ ~result[r].shape
      /\ fate[r].slot = 0

(* The row of a request says what the adapter does: the latency it waits, and *)
(* a hang, a drop or a down exactly when the reply is one.                    *)
RowTellsReply ==
  \A r \in Requests :
    pc[r] = "done" =>
      /\ row[r].latency = result[r].latency
      /\ (row[r].status = "hang") <=> (result[r].action = "hang")
      /\ (row[r].status = "drop_connection") <=> (result[r].action = "drop")
      /\ (row[r].status = "down") <=> (result[r].body = "down")

(* fault_policy.py: "the first N requests on a targeted endpoint get the fault *)
(* mode": of the requests that read the block of the window, the first N do.   *)
(* The code does not keep it: README, section 7.                               *)
FirstNFault ==
  LET own == {r \in Takers : ~Stale(r)}
  IN \A q \in own : Cardinality({r \in own : Faulted(r)}) >= MinOf(snap[q].block.n, Cardinality(own))

(* listeners/base.py: "The transports filter scopes per-method overrides the *)
(* same way it scopes everything else in the block."                         *)
(* The code does not keep it: README, section 7.                             *)
OverridesScoped ==
  \A r \in Requests :
    pc[r] = "done" /\ req[r].wire = "good" /\ ~Targets(snap[r].block, req[r].ep) =>
      result[r].body \in {"default", "switching"}

(* call_log.py, finalize: "Call from a finally block so a dying handler can't *)
(* leak an in_flight row."                                                    *)
(* The code does not keep it: README, section 7.                              *)
NoLeakedRow == \A r \in Requests : pc[r] \in {"done", "dead"} => row[r].status # "in_flight"

(* listeners/base.py: serve() takes one snapshot of the scenario in its fixed *)
(* sequence, so one block makes the whole answer.                             *)
(* The code does not keep it: README, section 7.                              *)
OneBlock ==
  \A r \in Requests :
    pc[r] = "done" /\ result[r].body = "unreadable" => snap[r].block.unreadable
=============================================================================
