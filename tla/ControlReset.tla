---------------------------- MODULE ControlReset ----------------------------
(***************************************************************************)
(* POST /reset, /history/clear and /reset/all (ControlApi._perform_reset,  *)
(* control_api.py) over everything they clear, beside the calls that set   *)
(* it: control writes, router requests, and the calls of the RESP control  *)
(* listener (resp_control.py), which share no lock with them.              *)
(*                                                                         *)
(* What a reset clears is a set of items, one per object with a lock of    *)
(* its own.  The state of an item is the calls whose effect it holds; an   *)
(* empty one has its default value.  A reset clears item after item.  The  *)
(* inside of a port, a cache-sim, a log or a proxy is in other modules.    *)
(***************************************************************************)
EXTENDS Naturals

CONSTANTS Pools,      \* the pools of the registry
          Chains,     \* CHAINS
          ChainOf,    \* the chain each pool serves
          Callers,    \* calls that set something, each made once
          Resetters   \* calls of a reset, each made once

ASSUME ResetAssumption ==
  /\ ChainOf \in [Pools -> Chains]
  /\ "everything" \notin Pools /\ "nobody" \notin Callers \cup Resetters

VARIABLES
  holds,        \* holds[i]: the calls whose effect item i holds
  port_lock,    \* who holds ControlApi.port_lock
  transitions,  \* who holds the lock of the gate moves of the RESP proxy
  call,         \* a call that sets something: where it is, its operation, its item
  reset         \* a reset: where it is, its kind and pool, what it has still to clear,
                \*   and the effects that had settled when it was called

resetVars == <<holds, port_lock, transitions, call, reset>>

(* One provider stands for the providers of its pool. *)
OfProvider == {"scenario", "quirks", "fail", "executed", "log"}
Of(name, S) == {name} \X S
Items ==
  (OfProvider \X Pools) \cup Of("head", Chains) \cup Of("cache", {"staged", "calls"}) \cup Of("resp", {"gate", "latency"})

Kinds == {"scenario", "history", "all"}
Scopes == Pools \cup {"everything"}
Scenario(kind) == kind # "history"
History(kind) == kind # "scenario"

(* _scope: the pools and the chains of a reset. *)
PoolsOf(pool) == IF pool = "everything" THEN Pools ELSE {pool}
ChainsOf(pool) == IF pool = "everything" THEN Chains ELSE {ChainOf[pool]}

-----------------------------------------------------------------------------
(* The calls that set something.                                           *)

Operations ==
  [op : {"post"}, item : Of("scenario", Pools)]
    \cup [op : {"request"}, item : Of("log", Pools)]
    \cup [op : {"write"}, item : Of("head", Chains) \cup Of("cache", {"staged", "calls"})]
    \cup [op : {"cut"}, item : {<<"resp", "gate">>}]
    \cup [op : {"latency", "refused"}, item : {<<"resp", "latency">>}]

(* A log, the executed transactions and the calls of a cache grow; the rest is replaced. *)
Put(i, c) ==
  holds' = [holds EXCEPT ![i] = IF i[1] \in {"log", "executed"} \/ i = <<"cache", "calls">>
                                  THEN @ \cup {c} ELSE {c}]

Goto(c, label) == call' = [call EXCEPT ![c].at = label]
Return(c) == call' = [call EXCEPT ![c] = [at |-> "returned", op |-> "none", item |-> <<>>]]

Call(c) ==
  /\ call[c].at = "new"
  /\ \E o \in Operations : call' = [call EXCEPT ![c] = [at |-> "called", op |-> o.op, item |-> o.item]]
  /\ UNCHANGED <<holds, port_lock, transitions, reset>>

(* apply_scenario: port_lock is held from the checks until the ports settled. A block may
   name fields of the scenario and of the quirks; the window it restarts is in RequestFlow. *)
Post(c) ==
  /\ call[c].op = "post" /\ call[c].at = "called" /\ port_lock = "nobody"
  /\ port_lock' = c /\ Goto(c, "settle")
  /\ \E names \in (SUBSET {"scenario", "quirks"}) \ {{}} :
       holds' = [i \in Items |-> IF i \in {<<n, call[c].item[2]>> : n \in names} THEN {c} ELSE holds[i]]
  /\ UNCHANGED <<transitions, reset>>

PostSettled(c) ==
  /\ call[c].op = "post" /\ call[c].at = "settle"
  /\ port_lock' = "nobody" /\ Return(c)
  /\ UNCHANGED <<holds, transitions, reset>>

(* A router request: its row at the arrival, then the transaction it executes or
   the window it counts down, then its reply. *)
RequestArrives(c) ==
  /\ call[c].op = "request" /\ call[c].at = "called"
  /\ Put(call[c].item, c) /\ Goto(c, "arrived")
  /\ UNCHANGED <<port_lock, transitions, reset>>

Execute(c) ==
  /\ call[c].op = "request" /\ call[c].at = "arrived"
  /\ \E name \in {"executed", "fail"} : Put(<<name, call[c].item[2]>>, c)
  /\ Return(c)
  /\ UNCHANGED <<port_lock, transitions, reset>>

(* POST /advance, the staging of a cache-sim and a lookup at one: no common lock. *)
WriteAtOnce(c) ==
  /\ call[c].op = "write" /\ call[c].at = "called"
  /\ Put(call[c].item, c) /\ Return(c)
  /\ UNCHANGED <<port_lock, transitions, reset>>

(* RespControlApi.cut_off: the gate moves, then the call waits for the deliveries. *)
CutOff(c) ==
  /\ call[c].op = "cut" /\ call[c].at = "called" /\ transitions = "nobody"
  /\ transitions' = c /\ Put(call[c].item, c) /\ Goto(c, "drain")
  /\ UNCHANGED <<port_lock, reset>>

(* Mutant of CutOffDrained: the cut-off returns with the lock of the gate moves. *)
CutOffKeepsLock(c) ==
  /\ call[c].op = "cut" /\ call[c].at = "drain"
  /\ Return(c)
  /\ UNCHANGED <<holds, port_lock, transitions, reset>>

CutOffDrained(c) ==
  /\ call[c].op = "cut" /\ call[c].at = "drain"
  /\ transitions' = "nobody" /\ Return(c)
  /\ UNCHANGED <<holds, port_lock, reset>>

(* RespControlApi.set_latency with a whole number that is not negative. *)
SetLatency(c) ==
  /\ call[c].op = "latency" /\ call[c].at = "called"
  /\ Put(call[c].item, c) /\ Return(c)
  /\ UNCHANGED <<port_lock, transitions, reset>>

(* No kind or an unknown one; no ms, one that is no number, or a negative one: 400. *)
RespRefuses(c) ==
  /\ call[c].op = "refused" /\ call[c].at = "called"
  /\ Return(c)
  /\ UNCHANGED <<holds, port_lock, transitions, reset>>

Progress(c) ==
  \/ Post(c) \/ PostSettled(c) \/ RequestArrives(c) \/ Execute(c) \/ WriteAtOnce(c)
  \/ CutOff(c) \/ CutOffDrained(c) \/ SetLatency(c) \/ RespRefuses(c)

-----------------------------------------------------------------------------
(* The resets.                                                             *)

(* Mutant of ClearsOf: the memory of executed transactions is forgotten to be emptied. *)
ClearsOfNotExecuted(kind, p) ==
  {i \in {<<"scenario", p>>, <<"quirks", p>>, <<"fail", p>>} : Scenario(kind)}
    \cup {i \in {<<"log", p>>} : History(kind)}

(* What a reset clears of one provider. *)
ClearsOf(kind, p) ==
  {i \in {<<"scenario", p>>, <<"quirks", p>>, <<"fail", p>>, <<"executed", p>>} : Scenario(kind)}
    \cup {i \in {<<"log", p>>} : History(kind)}

(* reset, stage(miss) or clear_calls of each cache-sim, of a whole reset only. *)
ClearsOfCaches(kind) ==
  {i \in {<<"cache", "staged">>} : Scenario(kind)} \cup {i \in {<<"cache", "calls">>} : History(kind)}

(* Heads, providers, cache-sims, the gate of a whole scenario reset, and every time the latency. *)
Clears(kind, pool) ==
  (IF Scenario(kind) THEN Of("head", ChainsOf(pool)) ELSE {})
    \cup (UNION {ClearsOf(kind, p) : p \in PoolsOf(pool)})
    \cup (IF pool = "everything" THEN ClearsOfCaches(kind) ELSE {})
    \cup {i \in {<<"resp", "gate">>} : Scenario(kind) /\ pool = "everything"}
    \cup {<<"resp", "latency">>}

(* The order of _perform_reset. The order of the chains and of the providers is left open. *)
Place(i) ==
  CASE i[1] = "head" -> 1
    [] i[1] = "scenario" -> 2
    [] i[1] = "quirks" -> 3
    [] i[1] = "fail" -> 4
    [] i[1] = "executed" -> 5
    [] i[1] = "log" -> 6
    [] i = <<"cache", "staged">> -> 7
    [] i = <<"cache", "calls">> -> 8
    [] i = <<"resp", "gate">> -> 9
    [] OTHER -> 10
OtherProvider(i, j) == {i[1], j[1]} \subseteq OfProvider /\ i[2] # j[2]

(* A provider is cleared to its end before the next one is begun. *)
HalfCleared(r, p) == ClearsOf(reset[r].kind, p) \cap reset[r].todo \notin {{}, ClearsOf(reset[r].kind, p)}
Turn(r, i) ==
  /\ \A j \in reset[r].todo : Place(j) < Place(i) => OtherProvider(i, j)
  /\ i[1] \in OfProvider => \A p \in Pools \ {i[2]} : ~HalfCleared(r, p)

(* What a reset is said to reach: the comments of _perform_reset.          *)
Reach(kind, pool) ==
  (((IF Scenario(kind) THEN OfProvider \ {"log"} ELSE {}) \cup (IF History(kind) THEN {"log"} ELSE {})) \X PoolsOf(pool))
    \cup (IF Scenario(kind) THEN Of("head", ChainsOf(pool)) ELSE {})
    \cup {i \in Of("cache", {"staged", "calls"}) \cup {<<"resp", "gate">>} :
            pool = "everything" /\ (i = <<"cache", "calls">> => History(kind))
                                /\ (i # <<"cache", "calls">> => Scenario(kind))}
    \cup {<<"resp", "latency">>}

(* What the reset must clear: the effects, in its reach, of the calls that returned. *)
Settled(kind, pool) ==
  {e \in Reach(kind, pool) \X Callers : e[2] \in holds[e[1]] /\ call[e[2]].at = "returned"}

ResetCalled(r) ==
  /\ reset[r].at = "new"
  /\ \E kind \in Kinds, pool \in Scopes :
       reset' = [reset EXCEPT ![r] = [at |-> IF Scenario(kind) THEN "lock" ELSE "clear", kind |-> kind,
                                      pool |-> pool, todo |-> Clears(kind, pool), before |-> Settled(kind, pool)]]
  /\ UNCHANGED <<holds, port_lock, transitions, call>>

ResetLock(r) ==
  /\ reset[r].at = "lock" /\ port_lock = "nobody"
  /\ port_lock' = r /\ reset' = [reset EXCEPT ![r].at = "clear"]
  /\ UNCHANGED <<holds, transitions, call>>

(* The next item goes back to its default; the gate waits for a gate move that runs. *)
ResetClear(r) ==
  /\ reset[r].at = "clear"
  /\ \E i \in reset[r].todo :
       /\ Turn(r, i)
       /\ i = <<"resp", "gate">> => transitions = "nobody"
       /\ holds' = [holds EXCEPT ![i] = {}]
       /\ reset' = [reset EXCEPT ![r].todo = @ \ {i}]
  /\ UNCHANGED <<port_lock, transitions, call>>

(* The ports settled or did not; the answer is 200 or 500. *)
ResetReturns(r) ==
  /\ reset[r].at = "clear" /\ reset[r].todo = {}
  /\ reset' = [reset EXCEPT ![r].at = "answer"]
  /\ port_lock' = IF Scenario(reset[r].kind) THEN "nobody" ELSE port_lock
  /\ UNCHANGED <<holds, transitions, call>>

(* The caller has its answer; nothing of the call is looked at any more. *)
ResetAnswered(r) ==
  /\ reset[r].at = "answer"
  /\ reset' = [reset EXCEPT ![r] = [at |-> "done", kind |-> "all", pool |-> "everything",
                                    todo |-> {}, before |-> {}]]
  /\ UNCHANGED <<holds, port_lock, transitions, call>>

ResetProgress(r) == ResetLock(r) \/ ResetClear(r) \/ ResetReturns(r) \/ ResetAnswered(r)

ResetInit ==
  /\ holds = [i \in Items |-> {}]
  /\ port_lock = "nobody" /\ transitions = "nobody"
  /\ call = [c \in Callers |-> [at |-> "new", op |-> "none", item |-> <<>>]]
  /\ reset = [r \in Resetters |-> [at |-> "new", kind |-> "all", pool |-> "everything",
                                   todo |-> {}, before |-> {}]]

ResetNext ==
  \/ \E c \in Callers : Call(c) \/ Progress(c)
  \/ \E r \in Resetters : ResetCalled(r) \/ ResetProgress(r)

(* Every thread is scheduled, and the wait for the ports and for the deliveries of a
   cut-off is bounded. Nobody has to make a call. *)
ResetFairness ==
  /\ \A c \in Callers : WF_resetVars(Progress(c))
  /\ \A r \in Resetters : WF_resetVars(ResetProgress(r))
ResetSpec == ResetInit /\ [][ResetNext]_resetVars
ResetFairSpec == ResetSpec /\ ResetFairness

-----------------------------------------------------------------------------
(* A reset that answers, with 200 or with 500, has cleared everything in its reach *)
(* that a call had set which returned before the reset was called: no leftover of  *)
(* an earlier test survives, whatever runs beside the reset.                       *)
NoLeftover ==
  \A r \in Resetters : reset[r].at = "answer" =>
    \A e \in reset[r].before : e[2] \notin holds[e[1]]

(* A reset touches nothing outside its reach: a pool-scoped one leaves the providers *)
(* of the other pools, the cache-sims and the gate of the RESP proxy alone, and a    *)
(* history clear leaves every scenario, head and gate alone.                         *)
StaysInReachStep ==
  \A i \in Items : holds'[i] = {} /\ holds[i] # {} =>
    \E r \in Resetters : /\ reset[r].at = "clear" /\ reset'[r].todo # reset[r].todo
                         /\ i \in Reach(reset[r].kind, reset[r].pool)

(* A reset that answers has cleared everything in its reach that a call had *)
(* set which returned before the reset was called.  It touches nothing      *)
(* outside its reach: a pool-scoped one leaves the other pools, the         *)
(* cache-sims and the gate of the RESP proxy alone, and a history clear     *)
(* leaves every scenario, head and gate alone.                              *)
ResetsExact == [][NoLeftover' /\ StaysInReachStep]_resetVars

(* Every reset and every call returns. A reset holds port_lock while it waits for a *)
(* cut-off of the RESP proxy that drains.                                           *)
EveryoneReturns ==
  /\ \A r \in Resetters : reset[r].at = "lock" ~> reset[r].at = "done"
  /\ \A c \in Callers : call[c].at = "called" ~> call[c].at = "returned"
=============================================================================
