------------------------------ MODULE GrpcCall ------------------------------
(***************************************************************************)
(* One gRPC endpoint: the calls that its event loop performs (_perform in  *)
(* server.py) with the hooks of the gRPC listener                          *)
(* (provider_simulator/listeners/grpc.py).                                 *)
(*                                                                         *)
(* A call is cut only where the coroutine awaits: in its wait and where it *)
(* sends its header metadata.  A caller can go away there, which cancels   *)
(* the coroutine; the library does the rest and is outside.  What a        *)
(* scenario stages is one record per call, the snapshot that Listener.serve*)
(* took; RequestFlow has the scenario's own changes.                       *)
(***************************************************************************)
EXTENDS Naturals

CONSTANTS Calls,   \* the calls
          StagedCalls   \* what a scenario may hold when a call is served, see serve

ASSUME GrpcAssumption ==
  \A s \in StagedCalls :
    /\ s.mode \in {"up", "down", "method_down", "hang", "drop", "rate_limit", "error"}
    /\ s.latency \in Nat

VARIABLES call     \* call[c]: where the coroutine stands, its plan, and its history row

grpcVars == <<call>>

(* Status codes by their number (external: grpc.StatusCode). *)
StatusNames == {"OK", "CANCELLED", "UNKNOWN", "NOT_FOUND", "RESOURCE_EXHAUSTED", "INTERNAL", "UNAVAILABLE"}
ByValue(n) == CASE n = 0 -> "OK" [] n = 5 -> "NOT_FOUND" [] n = 13 -> "INTERNAL" [] OTHER -> "none"

GrpcStatus(code) == [kind |-> "status", code |-> code, fits |-> TRUE]
GrpcReply(fits)  == [kind |-> "reply", code |-> "OK", fits |-> fits]

(* The name wins, then the number (and _status_of, of whichever a per-method error gives). *)
_status_name(error_message, error_code) ==
  CASE error_message \in StatusNames -> error_message
    [] error_message \notin StatusNames /\ ByValue(error_code) # "none" -> ByValue(error_code)
    [] OTHER -> "UNKNOWN"

(* AllBalances names its address as the request id; an empty one is none. *)
_request_id(method, address) == IF method = "AllBalances" /\ address # "empty" THEN address ELSE "none"

GrpcPlan(action, body, latency) == [action |-> action, body |-> body, latency |-> latency]

GrpcFault(s) ==
  CASE s.mode = "hang"       -> GrpcPlan("hang", GrpcStatus("CANCELLED"), 0)
    [] s.mode = "drop"       -> GrpcPlan("drop", GrpcStatus("UNAVAILABLE"), s.latency)
    [] s.mode = "rate_limit" -> GrpcPlan("respond", GrpcStatus("RESOURCE_EXHAUSTED"), s.latency)
    [] s.mode = "error"      -> GrpcPlan("respond", GrpcStatus(_status_name(s.error_message, s.error_code)), s.latency)
    [] s.mode = "method_down" -> GrpcPlan("respond", GrpcStatus("UNAVAILABLE"), s.latency)

(* The builders of the messages raise for a result that does not fit, but for AllBalances;
   a result that is no object is not merged. *)
Fits(method, content) == method = "AllBalances" \/ content # "misfit"

(* The chain's data as a reply: a per-method error is a status. *)
build_success(method, s) ==
  GrpcPlan("respond",
       IF s.content = "error" THEN GrpcStatus(_status_name(s.error_message, s.error_code))
                              ELSE GrpcReply(Fits(method, s.content)), s.latency)

GrpcLabel(s) == IF s.content = "error" THEN "error" ELSE "success"

(* A corruption acts on a reply message only, and all but missing_field make it a status. *)
corrupt(plan, label, s) ==
  CASE plan.body.kind = "reply" /\ s.corruption = "wrong_type" ->
         [plan |-> [plan EXCEPT !.body = GrpcStatus("INTERNAL")], label |-> "error"]
    [] plan.body.kind = "reply" /\ s.corruption \in {"invalid_proto", "empty_response", "truncated", "null_body"} ->
         [plan |-> [plan EXCEPT !.body = GrpcStatus("UNKNOWN")], label |-> "error"]
    [] OTHER -> [plan |-> plan, label |-> label]

RowLatency(s, plan) == plan.latency

(* Listener.serve for this endpoint: the plan and the row's label and latency. A provider
   that is down waits for nothing. *)
serve(method, s) ==
  LET answer == CASE s.mode = "down" -> GrpcPlan("respond", GrpcStatus("UNAVAILABLE"), 0)
                  [] s.mode = "up"   -> build_success(method, s)
                  [] OTHER           -> GrpcFault(s)
      label == CASE s.mode = "up" -> GrpcLabel(s) [] s.mode = "method_down" -> "down" [] OTHER -> s.mode
      out == IF s.mode \in {"down", "method_down"} THEN [plan |-> answer, label |-> label] ELSE corrupt(answer, label, s)
  IN  [plan |-> out.plan, label |-> out.label, latency |-> RowLatency(s, answer)]

-----------------------------------------------------------------------------

(* none: not made. held: performing. answered, aborted: its status went to the library.    *)
(* gone: its caller went away in an await. failed: its message could not be built.          *)
NotMade == [pc |-> "none"]
GrpcRow(method, address, out) ==
  [label |-> out.label, latency |-> out.latency, request_id |-> _request_id(method, address), grpc_status |-> "null"]

GrpcInit == call = [c \in Calls |-> NotMade]

Made(c) == call[c].pc # "none"

(* Header metadata goes out before a half-open drop and when the scenario chose headers. *)
SendsMetadata(s, plan) ==
  s.reply_headers \/ (plan.action = "drop" /\ s.drop_at \in {"after_headers", "mid_body"})

(* Where a plan goes first: a message that cannot be built ends the call before its wait. *)
FirstAwait(s, plan) ==
  CASE ~plan.body.fits                                          -> "failed"
    [] plan.body.fits /\ plan.action = "hang"                   -> "wait"
    [] plan.body.fits /\ plan.action # "hang" /\ plan.latency > 0 -> "wait"
    [] OTHER -> IF SendsMetadata(s, plan) THEN "metadata" ELSE "send"

(* Mutant of Ended: the status is written before the wait. *)
EndedEarly(pc, row, plan, s, waited) ==
  [pc |-> IF pc # "send" THEN pc ELSE IF plan.body.kind = "reply" THEN "answered" ELSE "aborted",
   row |-> IF pc = "failed" THEN row ELSE [row EXCEPT !.grpc_status = plan.body.code],
   plan |-> plan, staged |-> s, waited |-> waited]

(* status_sent and the reply or the abort follow each other with no await. *)
Ended(pc, row, plan, s, waited) ==
  [pc |-> IF pc # "send" THEN pc ELSE IF plan.body.kind = "reply" THEN "answered" ELSE "aborted",
   row |-> IF pc # "send" THEN row ELSE [row EXCEPT !.grpc_status = plan.body.code],
   plan |-> plan, staged |-> s, waited |-> waited]

(* The arrival and Listener.serve, to the first await. *)
PerformCall(c, method, address, s) ==
  /\ ~Made(c)
  /\ LET out == serve(method, s)
     IN  call' = [call EXCEPT ![c] = Ended(FirstAwait(s, out.plan), GrpcRow(method, address, out), out.plan, s, 0)]

(* A hang waits 30 seconds, which no latency of StagedCalls is. *)
HANG_S == 30

WakeCall(c) ==
  /\ call[c].pc = "wait"
  /\ LET k == call[c]
         next == IF SendsMetadata(k.staged, k.plan) THEN "metadata" ELSE "send"
         slept == IF k.plan.action = "hang" THEN HANG_S ELSE k.plan.latency
     IN  call' = [call EXCEPT ![c] = Ended(next, k.row, k.plan, k.staged, slept)]

SendMetadata(c) ==
  /\ call[c].pc = "metadata"
  /\ LET k == call[c]
     IN  call' = [call EXCEPT ![c] = Ended("send", k.row, k.plan, k.staged, k.waited)]

GoAway(c) ==
  /\ call[c].pc \in {"wait", "metadata"}
  /\ call' = [call EXCEPT ![c].pc = "gone"]

GrpcNext ==
  \E c \in Calls :
    \/ \E method \in {"GetLatestBlock", "GetNodeInfo", "AllBalances"}, address \in {"empty", "lava1"}, s \in StagedCalls :
         PerformCall(c, method, address, s)
    \/ WakeCall(c)
    \/ SendMetadata(c)
    \/ GoAway(c)

GrpcSpec == GrpcInit /\ [][GrpcNext]_grpcVars
(* The event loop runs what is ready: a sleep ends and a send goes through. *)
GrpcFairSpec == GrpcSpec /\ \A c \in Calls : WF_grpcVars(WakeCall(c)) /\ WF_grpcVars(SendMetadata(c))

-----------------------------------------------------------------------------

(* docs/using_the_simulator.md: the grpc_status of a row is null exactly while the call is *)
(* held, when its caller went away and when its message could not be built.                *)
NullInThreeCases ==
  \A c \in Calls : Made(c) =>
    (call[c].row.grpc_status = "null" <=> call[c].pc \in {"wait", "metadata", "gone", "failed"})

(* The row of a call says success exactly when its caller got a message, but where the     *)
(* message could not be built or the caller left: a status, staged or made by a            *)
(* corruption, is never a success.                                                         *)
StatusTellsReply ==
  \A c \in Calls : Made(c) =>
    /\ call[c].pc = "answered" => call[c].row.label = "success"
    /\ call[c].pc = "aborted" => call[c].row.label # "success"

(* The latency of a row is the time the call really waited; the row of a hang says 0.      *)
LatencyTold ==
  \A c \in Calls : Made(c) /\ call[c].pc \in {"answered", "aborted"} =>
    call[c].row.latency = IF call[c].plan.action = "hang" THEN 0 ELSE call[c].waited

(* The row of a call is exact: its grpc_status is null in those three cases and no other,  *)
(* it says success exactly when its caller got a message, and its latency is the time the  *)
(* call really waited, 0 for a hang.                                                       *)
GrpcRowExact == NullInThreeCases /\ StatusTellsReply /\ LatencyTold

(* Every call ends, a hang included: no coroutine is left behind.                          *)
EveryCallEnds == \A c \in Calls : Made(c) ~> call[c].pc \notin {"wait", "metadata"}

(* grpc_status is OK only for a reply.                                                     *)
(* The code does not keep it: README, section 7.                                           *)
OkForAReply ==
  \A c \in Calls : Made(c) /\ call[c].row.grpc_status = "OK" => call[c].pc = "answered"
=============================================================================
