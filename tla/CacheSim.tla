------------------------------ MODULE CacheSim ------------------------------
(***************************************************************************)
(* One simulated secondary cache (provider_simulator/cache_sim.py) with    *)
(* its gRPC listener (listeners/cache_grpc.py) and its control routes      *)
(* (control_api.py): what is staged, the bounded call log with the counter *)
(* beside it, and the self-test that reads both around a probe call.       *)
(*                                                                         *)
(* A lookup is decided and recorded in one hold of the lock and answered   *)
(* after its wait.  A self-test reads the counter, sends the probe, reads  *)
(* the counter and then the log: four steps, between which other calls     *)
(* record, clear and reset.  A staging body keeps its mode, the keys of    *)
(* its entry and whether every field of the entry has its type; a recorded *)
(* call keeps its method.                                                  *)
(***************************************************************************)
EXTENDS Naturals, Sequences, FiniteSets

CONSTANTS Lookups,     \* GetRelay calls of routers
          Selftests,   \* POST /cache/<name>/selftest-write calls
          Stagings,    \* bodies of POST /cache/<name>/entry
          Wires,       \* shapes of a lookup: "good", "junk", "bad_block", "bad_seen"
          HistoryMax,  \* the length of the call log
          HasPort,     \* the cache-sim has a gRPC listener
          MaxOps       \* bound: control calls

ASSUME CacheAssumption ==
  /\ HistoryMax \in Nat \ {0}
  /\ MaxOps \in Nat
  /\ HasPort \in BOOLEAN
  /\ \A b \in Stagings : b.latency \in Nat /\ b.head \subseteq Nat

Modes == {"hit", "miss", "hang", "error", "malformed"}

NoEntry == [payload |-> "none", nodeError |-> FALSE]

(* What a lookup reads in one hold of the lock, besides the log. *)
Fresh == [mode |-> "miss", entry |-> NoEntry, latency |-> 0, status |-> "UNAVAILABLE", seen |-> 0]

VARIABLES staged,  \* the mode, the entry, the latency, the error status, the head
          calls,   \* the call log: the methods of the recorded calls, oldest first
          total,   \* records_total
          ops,     \* control calls so far
          reply,   \* the HTTP status of the last staging, 0 when it gets none
          lookup,  \* lookup[l]: its step and the plan it was given
          test,    \* test[t]: its step, what it read, and its answer
          logged,  \* lookups that the log recorded
          probed,  \* self-tests whose probe the log recorded
          last     \* the kind of the last control call

vars == <<staged, calls, total, ops, reply, lookup, test, logged, probed, last>>

NoPlan == [pc |-> "new", action |-> "none", body |-> "none", wait |-> 0, head |-> 0]
NoTest == [pc |-> "new", before |-> 0, after |-> 0, answer |-> 0]

Init ==
  /\ staged = Fresh /\ calls = <<>> /\ total = 0
  /\ ops = 0 /\ reply = 200 /\ last = "none"
  /\ lookup = [l \in Lookups |-> NoPlan]
  /\ test = [t \in Selftests |-> NoTest]
  /\ logged = {} /\ probed = {}

(* deque(maxlen=HISTORY_MAX).append *)
Record(log, method) ==
  IF Len(log) = HistoryMax THEN Append(Tail(log), method) ELSE Append(log, method)

(* A recorded call counts in the log and in the counter beside it. *)
RecordCall(method) == total' = total + 1 /\ calls' = Record(calls, method)

Holds(log, method) == \E i \in 1..Len(log) : log[i] = method

-----------------------------------------------------------------------------
(* Lookups *)

(* miss_reply: no reply, and the head that the cache itself knows. *)
MissReply(s) ==
  [pc |-> "planned", action |-> "respond", body |-> "miss", wait |-> s.latency, head |-> s.seen]

(* to_cache_relay_reply: the entry, with the head stored in it (none here). *)
HitReply(s) == [MissReply(s) EXCEPT !.body = s.entry.payload, !.head = 0]

(* A hang waits at least HANG_SECONDS, written 2 here. *)
Longer(a, b) == IF a > b THEN a ELSE b

(* The decision of plan, from what it read under the lock. *)
Decide(s) ==
  CASE s.mode = "hang" -> [MissReply(s) EXCEPT !.wait = Longer(2, s.latency)]
    [] s.mode = "error" -> [MissReply(s) EXCEPT !.action = "abort", !.body = s.status]
    [] s.mode = "malformed" -> [MissReply(s) EXCEPT !.action = "raw", !.body = "malformed"]
    [] s.mode = "hit" /\ s.entry # NoEntry -> HitReply(s)
    [] OTHER -> MissReply(s)

(* plan: a body that is no JSON object is recorded like any other. *)
Plan(l) ==
  /\ lookup[l].pc = "new"
  /\ RecordCall("GetRelay")
  /\ logged' = logged \cup {l}
  /\ lookup' = [lookup EXCEPT ![l] = Decide(staged)]
  /\ UNCHANGED <<staged, ops, reply, test, probed, last>>

(* plan raises on the requested block, before the lock. *)
PlanRaisesEarly(l) ==
  /\ lookup[l].pc = "new"
  /\ lookup' = [lookup EXCEPT ![l].pc = "raised"]
  /\ UNCHANGED <<staged, calls, total, ops, reply, test, logged, probed, last>>

(* plan raises while it builds the record: the counter is already advanced. *)
PlanRaisesLate(l) ==
  /\ lookup[l].pc = "new"
  /\ total' = total + 1
  /\ lookup' = [lookup EXCEPT ![l].pc = "raised"]
  /\ UNCHANGED <<staged, calls, ops, reply, test, logged, probed, last>>

Lookup(l) ==
  \/ Wires \cap {"good", "junk"} # {} /\ Plan(l)
  \/ "bad_block" \in Wires /\ PlanRaisesEarly(l)
  \/ "bad_seen" \in Wires /\ PlanRaisesLate(l)

(* get_relay after its wait: a reply, an abort or raw bytes, as planned. *)
GetRelay(l) ==
  /\ lookup[l].pc = "planned"
  /\ lookup' = [lookup EXCEPT ![l].pc = "answered"]
  /\ UNCHANGED <<staged, calls, total, ops, reply, test, logged, probed, last>>

-----------------------------------------------------------------------------
(* Control calls *)

Op(kind) == ops < MaxOps /\ ops' = ops + 1 /\ last' = kind

(* CacheEntry.from_dict: one payload, and no key that is not known. *)
FromDictAccepts(keys) ==
  /\ ~({"result", "error"} \subseteq keys)
  /\ ~("data" \in keys /\ keys \cap {"result", "error"} # {})
  /\ "unknown" \notin keys

FromDict(keys) ==
  [payload |-> IF "result" \in keys THEN "result" ELSE IF "error" \in keys THEN "error"
               ELSE IF "data" \in keys THEN "data" ELSE "empty",
   nodeError |-> "error" \in keys /\ "is_node_error" \notin keys]

NoHit(b) == b.mode = "hit" /\ b.keys = {}

UnknownMode(b) == b.mode \notin Modes

(* _check_status: OK and a misspelt name are no status to abort with. *)
StatusRefused(b) == b.status \in {"OK", "misspelt"}

(* The refusals of cache_stage and stage, each a 400. *)
StageRefused(b) ==
  UnknownMode(b) \/ NoHit(b) \/ b.junkHead \/ ~FromDictAccepts(b.keys) \/ StatusRefused(b)

(* CacheEntry.validate raises a TypeError, which cache_stage does not catch. *)
StageRaises(b) == b.keys # {} /\ ~b.typed

(* _cache_head: a head that is not given leaves the stored one. *)
StagedHead(b) == IF b.head = {} THEN staged.seen ELSE CHOOSE h \in b.head : TRUE

(* stage under the lock: an optional field that is not given stays. *)
Staged(b) ==
  [mode |-> b.mode,
   entry |-> IF b.keys = {} THEN staged.entry ELSE FromDict(b.keys),
   latency |-> b.latency,
   status |-> IF b.status = "" THEN staged.status ELSE b.status,
   seen |-> StagedHead(b)]

CacheStage(b) ==
  /\ Op("stage")
  /\ reply' = IF StageRefused(b) THEN 400 ELSE IF StageRaises(b) THEN 0 ELSE 200
  /\ staged' = IF StageRefused(b) \/ StageRaises(b) THEN staged ELSE Staged(b)
  /\ UNCHANGED <<calls, total, lookup, test, logged, probed>>

(* reset keeps the error status: it is not among the fields it sets. *)
ResetStaged == [Fresh EXCEPT !.status = staged.status]

(* CacheSim.reset, by POST /cache/<name>/reset or POST /reset_all. *)
CacheReset ==
  /\ Op("reset")
  /\ staged' = ResetStaged
  /\ calls' = <<>> /\ total' = 0
  /\ UNCHANGED <<reply, lookup, test, logged, probed>>

(* POST /reset keeps the history: the cache is staged to miss. *)
ScenarioReset ==
  /\ Op("scenario")
  /\ staged' = [staged EXCEPT !.mode = "miss", !.latency = 0]
  /\ UNCHANGED <<calls, total, reply, lookup, test, logged, probed>>

(* clear_calls keeps the counter. *)
ClearCalls ==
  /\ Op("clear")
  /\ calls' = <<>>
  /\ UNCHANGED <<staged, total, reply, lookup, test, logged, probed>>

-----------------------------------------------------------------------------
(* cache_selftest_write *)

TestStep(t, from, rec) ==
  /\ test[t].pc = from
  /\ test' = [test EXCEPT ![t] = rec]
  /\ UNCHANGED <<staged, ops, reply, lookup, logged, last>>

(* records_total() before the probe; 409 with no listener. *)
TestBefore(t) ==
  /\ TestStep(t, "new", IF HasPort THEN [test[t] EXCEPT !.pc = "probe", !.before = total]
                        ELSE [test[t] EXCEPT !.pc = "done", !.answer = 409])
  /\ UNCHANGED <<calls, total, probed>>

(* refuse_and_record: the method is recorded, then refused as UNIMPLEMENTED. *)
Refuse(t) ==
  /\ RecordCall("SetRelay")
  /\ probed' = probed \cup {t}

(* send_non_read reaches the handler. *)
Probe(t) ==
  /\ TestStep(t, "probe", [test[t] EXCEPT !.pc = "after"])
  /\ Refuse(t)

(* Mutant of ProbeLost: any failure of the call is read as the refusal. *)
ProbeLostAccepted(t) ==
  /\ TestStep(t, "probe", [test[t] EXCEPT !.pc = "after"])
  /\ UNCHANGED <<calls, total, probed>>

(* send_non_read fails any other way: 502. *)
ProbeLost(t) ==
  /\ TestStep(t, "probe", [test[t] EXCEPT !.pc = "done", !.answer = 502])
  /\ UNCHANGED <<calls, total, probed>>

(* records_total() after the probe. *)
TestAfter(t) ==
  /\ TestStep(t, "after", [test[t] EXCEPT !.pc = "read", !.after = total])
  /\ UNCHANGED <<calls, total, probed>>

(* The test of the answer: the counter grew and the log holds a probe. *)
Seen(t) == test[t].after > test[t].before /\ Holds(calls, "SetRelay")

TestAnswer(t) ==
  /\ TestStep(t, "read", [test[t] EXCEPT !.pc = "done", !.answer = IF Seen(t) THEN 200 ELSE 500])
  /\ UNCHANGED <<calls, total, probed>>

Next ==
  \/ \E l \in Lookups : Lookup(l) \/ GetRelay(l)
  \/ \E b \in Stagings : CacheStage(b)
  \/ CacheReset \/ ScenarioReset \/ ClearCalls
  \/ \E t \in Selftests : TestBefore(t) \/ Probe(t) \/ ProbeLost(t) \/ TestAfter(t) \/ TestAnswer(t)

Spec == Init /\ [][Next]_vars

-----------------------------------------------------------------------------
(* Properties *)

(* Every variable holds a value of its kind. *)
TypeOK ==
  /\ staged.mode \in Modes /\ staged.latency \in Nat /\ staged.seen \in Nat
  /\ calls \in Seq({"GetRelay", "SetRelay"}) /\ total \in Nat /\ ops \in 0..MaxOps
  /\ logged \subseteq Lookups /\ probed \subseteq Selftests
  /\ \A t \in Selftests : test[t].before \in Nat /\ test[t].after \in Nat

(* A cache that answers hits has an entry to answer with, whatever order of *)
(* staging and resetting led there: no lookup gets a hit with no entry.     *)
HitHasEntry == staged.mode = "hit" => staged.entry # NoEntry

(* The log never holds more calls than were recorded since the last reset, *)
(* nor more than HISTORY_MAX, and every probe it holds was really sent.    *)
LogCounted ==
  /\ Len(calls) <= total /\ Len(calls) <= HistoryMax
  /\ Holds(calls, "SetRelay") => probed # {}

(* A self-test answers 200 only when the record saw its own probe, also while *)
(* other self-tests and lookups record.                                       *)
SelftestSound == \A t \in Selftests : test[t].answer = 200 => t \in probed

(* After a reset and before the next staging a lookup misses and waits for no  *)
(* latency, whatever was staged; a full reset forgets the head as well.        *)
ResetMisses ==
  last \in {"reset", "scenario"} =>
    /\ Decide(staged).body = "miss" /\ Decide(staged).wait = 0
    /\ last = "reset" => Decide(staged).head = 0

(* control_api.py, on the self-test: it must not report "a call that did *)
(* arrive as missing".                                                   *)
(* The code does not keep it: README, section 7.                         *)
SelftestTruthful == \A t \in Selftests : test[t].answer = 500 => t \notin probed

(* cache_sim.py, reset: "a cache that has just come up ... that is the state *)
(* a reset cache should describe."                                           *)
(* The code does not keep it: README, section 7.                             *)
ResetIsFresh == last = "reset" => staged = Fresh

(* cache_sim.py, plan: "a lookup that reached us is a lookup, however it was *)
(* shaped": every lookup that was handled is recorded.                       *)
(* The code does not keep it: README, section 7.                             *)
LookupRecorded == \A l \in Lookups : lookup[l].pc # "new" => l \in logged

(* cache_sim.py, validate: "Refuse a field whose type the router cannot read": *)
(* a staging body is answered, with 200 or with 400.                           *)
(* The code does not keep it: README, section 7.                               *)
StagingAnswered == reply \in {200, 400}
=============================================================================
