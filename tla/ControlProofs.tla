---------------------------- MODULE ControlProofs ----------------------------
(***************************************************************************)
(* The resets of the control API, the start and stop of the simulator,     *)
(* what a cache-sim promises, and the heads of the chains, for any number  *)
(* of control calls, listeners, lookups, self-tests, providers and calls   *)
(* of POST /advance, any staging bodies, lags and rates, and any length of *)
(* a log.                                                                  *)
(***************************************************************************)
EXTENDS ControlReset, SimulatorLife, CacheSim, ChainHeads, TLAPS

USE ZenonT(60)

-----------------------------------------------------------------------------
(* The resets *)

(* The type of the state of the resets. *)
ResetTypes ==
  /\ holds \in [Items -> SUBSET Callers]
  /\ DOMAIN call = Callers /\ \A c \in Callers : DOMAIN call[c] = {"at", "op", "item"}
  /\ reset \in [Resetters -> [at : {"new", "lock", "clear", "answer", "done"}, kind : Kinds, pool : Scopes,
                              todo : SUBSET Items, before : SUBSET (Items \X Callers)]]

(* What a reset owes: all that it found settled when it was called is *)
(* gone or is still to be cleared.                                    *)
Owed(r) == reset[r].at \in {"lock", "clear", "answer"} =>
  \A e \in reset[r].before : call[e[2]].at = "returned" /\ (e[2] \in holds[e[1]] => e[1] \in reset[r].todo)

(* It has nothing to clear outside its reach, and nothing when it *)
(* answers.                                                       *)
InReach(r) ==
  /\ reset[r].todo \subseteq Reach(reset[r].kind, reset[r].pool)
  /\ reset[r].at \in {"new", "answer", "done"} => reset[r].todo = {}

(* The inductive invariant of the resets. *)
ResetInv == ResetTypes /\ \A r \in Resetters : Owed(r) /\ InReach(r)

(* The names of the items of a provider that a kind of reset clears. *)
Names(kind) == (IF Scenario(kind) THEN OfProvider \ {"log"} ELSE {}) \cup (IF History(kind) THEN {"log"} ELSE {})

(* The reach of a reset is made of items. *)
LEMMA ReachIsItems ==
  ASSUME NEW kind \in Kinds, NEW pool \in Scopes
  PROVE  Reach(kind, pool) \subseteq Items
<1>1. PoolsOf(pool) \subseteq Pools /\ ChainsOf(pool) \subseteq Chains
  BY ResetAssumption DEF PoolsOf, ChainsOf, Scopes
<1> QED
  BY SMTT(60), <1>1 DEF Reach, Items, Of, OfProvider

(* What _perform_reset clears, written by its loops, is its reach. *)
LEMMA ClearsIsReach ==
  ASSUME NEW kind \in Kinds, NEW pool \in Scopes
  PROVE  Clears(kind, pool) = Reach(kind, pool)
<1>1. UNION {ClearsOf(kind, p) : p \in PoolsOf(pool)} = Names(kind) \X PoolsOf(pool)
  <2>1. ASSUME NEW p PROVE ClearsOf(kind, p) = Names(kind) \X {p}
    BY SMTT(60) DEF ClearsOf, Names, OfProvider
  <2> QED
    BY SMTT(60), <2>1
<1> DEFINE heads == IF Scenario(kind) THEN Of("head", ChainsOf(pool)) ELSE {}
           shared == {i \in Of("cache", {"staged", "calls"}) \cup {<<"resp", "gate">>} :
                        pool = "everything" /\ (i = <<"cache", "calls">> => History(kind))
                                            /\ (i # <<"cache", "calls">> => Scenario(kind))}
           caches == IF pool = "everything" THEN ClearsOfCaches(kind) ELSE {}
           gate == {i \in {<<"resp", "gate">>} : Scenario(kind) /\ pool = "everything"}
<1>2. shared = caches \cup gate
  BY SMTT(60) DEF ClearsOfCaches, Of
<1>3. Reach(kind, pool) = (Names(kind) \X PoolsOf(pool)) \cup heads \cup shared \cup {<<"resp", "latency">>}
  BY DEF Reach, Names
<1>4. Clears(kind, pool) =
        heads \cup (UNION {ClearsOf(kind, p) : p \in PoolsOf(pool)}) \cup caches \cup gate \cup {<<"resp", "latency">>}
  BY DEF Clears
<1> HIDE DEF heads, shared, caches, gate
<1>5. Clears(kind, pool) = heads \cup (Names(kind) \X PoolsOf(pool)) \cup caches \cup gate \cup {<<"resp", "latency">>}
  BY <1>1, <1>4
<1> QED
  BY <1>2, <1>3, <1>5

(* No reset has been called. *)
LEMMA ResetStarts == ResetInit => ResetInv
  BY SMTT(60), ResetAssumption DEF ResetInit, ResetInv, ResetTypes, Owed, InReach, Kinds, Scopes

(* A call that has not returned adds itself to what an item holds, or *)
(* replaces it: it gives back nothing that a reset cleared.           *)
LEMMA CallerStep ==
  ASSUME ResetInv, NEW c \in Callers, call[c].at # "returned", UNCHANGED reset,
         holds' \in [Items -> SUBSET Callers],
         \A i \in Items : holds'[i] \subseteq holds[i] \cup {c} /\ (holds'[i] = holds[i] \/ c \in holds'[i]),
         DOMAIN call' = Callers,
         \A d \in Callers : DOMAIN call'[d] = {"at", "op", "item"} /\ (d # c => call'[d] = call[d])
  PROVE  ResetInv' /\ StaysInReachStep
<1>1. ResetTypes'
  BY DEF ResetInv, ResetTypes
<1>2. ASSUME NEW r \in Resetters PROVE Owed(r)' /\ InReach(r)'
  <2>1. InReach(r)'
    BY SMTT(60) DEF ResetInv, InReach, Reach, Of, PoolsOf, ChainsOf
  <2>2. Owed(r)'
    BY SMTT(60), <1>1 DEF ResetInv, ResetTypes, Owed
  <2> QED
    BY <2>1, <2>2
<1> QED
  BY <1>1, <1>2 DEF ResetInv, StaysInReachStep

(* A reset clears what it owes, in its reach. *)
LEMMA ResetterStep ==
  ASSUME ResetInv, NEW r \in Resetters, ResetCalled(r) \/ ResetProgress(r)
  PROVE  ResetInv' /\ StaysInReachStep
<1> USE DEF ResetInv, ResetTypes
<1>r. \A kind, pool : Reach(kind, pool)' = Reach(kind, pool)
  BY DEF Reach, Of, PoolsOf, ChainsOf
<1>1. CASE ResetCalled(r)
  <2>1. PICK kind \in Kinds, pool \in Scopes :
       reset' = [reset EXCEPT ![r] = [at |-> IF Scenario(kind) THEN "lock" ELSE "clear", kind |-> kind,
                                      pool |-> pool, todo |-> Clears(kind, pool), before |-> Settled(kind, pool)]]
    BY <1>1 DEF ResetCalled
  <2>2. /\ Clears(kind, pool) = Reach(kind, pool) /\ Reach(kind, pool) \subseteq Items
    BY ClearsIsReach, ReachIsItems
  <2>3. Settled(kind, pool) \subseteq Items \X Callers
    BY <2>2 DEF Settled
  <2>4. \A e \in Settled(kind, pool) : call[e[2]].at = "returned" /\ e[1] \in Reach(kind, pool)
    BY DEF Settled
  <2>c. UNCHANGED <<holds, call>>
    BY <1>1 DEF ResetCalled
  <2>5. ResetTypes'
    BY SMTT(60), <2>1, <2>2, <2>3, <2>c
  <2>6. ASSUME NEW q \in Resetters PROVE Owed(q)' /\ InReach(q)'
    BY SMTT(60), <1>r, <2>1, <2>2, <2>4, <2>c DEF Owed, InReach
  <2> QED
    BY <2>5, <2>6, <2>c DEF StaysInReachStep
<1>2. CASE ResetLock(r)
  BY SMTT(60), <1>2, <1>r DEF ResetLock, Owed, InReach, StaysInReachStep
<1>3. CASE ResetClear(r)
  <2>1. PICK i \in reset[r].todo : /\ holds' = [holds EXCEPT ![i] = {}]
                                   /\ reset' = [reset EXCEPT ![r].todo = @ \ {i}]
    BY <1>3 DEF ResetClear
  <2>2. reset[r].at = "clear" /\ UNCHANGED call /\ i \in Items /\ i \in Reach(reset[r].kind, reset[r].pool)
    BY <1>3 DEF ResetClear, InReach
  <2>3. ResetTypes'
    BY SMTT(60), <2>1, <2>2
  <2>4. ASSUME NEW q \in Resetters PROVE Owed(q)' /\ InReach(q)'
    BY SMTT(60), <1>r, <2>1, <2>2, <2>4 DEF Owed, InReach
  <2>5. StaysInReachStep
    BY <2>1, <2>2 DEF StaysInReachStep
  <2> QED
    BY <2>3, <2>4, <2>5
<1>4. CASE ResetReturns(r)
  BY SMTT(60), <1>4, <1>r DEF ResetReturns, Owed, InReach, StaysInReachStep
<1>5. CASE ResetAnswered(r)
  BY SMTT(60), <1>5, <1>r DEF ResetAnswered, Owed, InReach, StaysInReachStep, Kinds, Scopes
<1> QED
  BY <1>1, <1>2, <1>3, <1>4, <1>5 DEF ResetProgress

(* Every step of a call is one of CallerStep. *)
LEMMA CallersStep ==
  ASSUME ResetInv, NEW c \in Callers, Call(c) \/ Progress(c)
  PROVE  ResetInv' /\ StaysInReachStep
<1> DEFINE Adds ==
             /\ holds' \in [Items -> SUBSET Callers]
             /\ \A i \in Items : holds'[i] \subseteq holds[i] \cup {c} /\ (holds'[i] = holds[i] \/ c \in holds'[i])
<1>0. holds \in [Items -> SUBSET Callers] /\ c \in DOMAIN call /\ DOMAIN call[c] = {"at", "op", "item"}
  BY DEF ResetInv, ResetTypes
<1>1. ASSUME NEW i, Put(i, c) PROVE Adds
  BY <1>0, <1>1 DEF Put
<1>2. UNCHANGED holds => Adds
  BY <1>0
<1>3. Adds /\ UNCHANGED reset
  <2>1. CASE Post(c)
    BY SMTT(60), <1>0, <2>1 DEF Post
  <2>2. ASSUME NEW name \in {"executed", "fail"}, Put(<<name, call[c].item[2]>>, c) PROVE Adds
    BY <1>1, <2>2
  <2> HIDE DEF Adds
  <2> QED
    BY <1>1, <1>2, <2>1, <2>2 DEF Call, Progress, Post, PostSettled, RequestArrives, Execute, WriteAtOnce,
       CutOff, CutOffDrained, SetLatency, RespRefuses
<1>4. call[c].at # "returned"
  BY DEF Call, Progress, Post, PostSettled, RequestArrives, Execute, WriteAtOnce, CutOff, CutOffDrained,
     SetLatency, RespRefuses
<1>5. \E x : DOMAIN x = {"at", "op", "item"} /\ call' = [call EXCEPT ![c] = x]
  <2>1. ASSUME NEW at, NEW op, NEW item, call' = [call EXCEPT ![c] = [at |-> at, op |-> op, item |-> item]]
        PROVE  \E x : DOMAIN x = {"at", "op", "item"} /\ call' = [call EXCEPT ![c] = x]
    <3>1. DOMAIN [at |-> at, op |-> op, item |-> item] = {"at", "op", "item"}
      OBVIOUS
    <3> QED
      BY <2>1, <3>1
  <2>2. ASSUME NEW label, Goto(c, label)
        PROVE  \E x : DOMAIN x = {"at", "op", "item"} /\ call' = [call EXCEPT ![c] = x]
    <3>1. call' = [call EXCEPT ![c] = [call[c] EXCEPT !.at = label]]
      BY <2>2 DEF Goto
    <3>2. DOMAIN [call[c] EXCEPT !.at = label] = {"at", "op", "item"}
      BY <1>0
    <3> QED
      BY <3>1, <3>2
  <2>3. Return(c) => \E x : DOMAIN x = {"at", "op", "item"} /\ call' = [call EXCEPT ![c] = x]
    BY <2>1 DEF Return
  <2>4. Call(c) => \E x : DOMAIN x = {"at", "op", "item"} /\ call' = [call EXCEPT ![c] = x]
    BY <2>1 DEF Call
  <2> QED
    BY <2>2, <2>3, <2>4 DEF Progress, Post, PostSettled, RequestArrives, Execute, WriteAtOnce, CutOff,
       CutOffDrained, SetLatency, RespRefuses
<1>6. PICK x : DOMAIN x = {"at", "op", "item"} /\ call' = [call EXCEPT ![c] = x]
  BY <1>5
<1>7. /\ DOMAIN call' = Callers
      /\ \A d \in Callers : DOMAIN call'[d] = {"at", "op", "item"} /\ (d # c => call'[d] = call[d])
  BY <1>6 DEF ResetInv, ResetTypes
<1> QED
  BY <1>3, <1>4, <1>7, CallerStep

(* Every step keeps the invariant and stays in reach. *)
LEMMA ResetKept == ResetInv /\ [ResetNext]_resetVars => ResetInv' /\ (StaysInReachStep \/ UNCHANGED resetVars)
<1> SUFFICES ASSUME ResetInv, [ResetNext]_resetVars PROVE ResetInv' /\ (StaysInReachStep \/ UNCHANGED resetVars)
  OBVIOUS
<1>1. CASE UNCHANGED resetVars
  BY SMTT(60), <1>1 DEF resetVars, ResetInv, ResetTypes, Owed, InReach, Reach, Of, PoolsOf, ChainsOf
<1> QED
  BY <1>1, CallersStep, ResetterStep DEF ResetNext

(* POST /reset answers only when everything in its reach that a call had *)
(* set, which returned before the reset was called, is cleared, and it   *)
(* touches nothing outside its reach (control_api.py, _perform_reset):   *)
(* for any pools, chains, calls and resets.                              *)
THEOREM ResetsCorrect == ResetSpec => ResetsExact
<1>1. ResetInv => NoLeftover
  BY DEF ResetInv, ResetTypes, Owed, InReach, NoLeftover
<1>2. ResetInv' => NoLeftover'
  BY <1>1, PTL
<1>3. ResetInv /\ [ResetNext]_resetVars => ResetInv'
  BY ResetKept
<1>4. ResetInv /\ [ResetNext]_resetVars => [NoLeftover' /\ StaysInReachStep]_resetVars
  BY <1>2, <1>3, ResetKept
<1> QED
  BY <1>3, <1>4, ResetStarts, PTL DEF ResetSpec, ResetsExact

-----------------------------------------------------------------------------
(* The start and stop of the simulator *)

(* The type of the state of a simulator. *)
LifeTypes ==
  /\ pc \in {"binding", "failed", "starting", "up", "stopping", "stopped"}
  /\ taken \subseteq MayBeTaken /\ writes \in Nat
  /\ loops \subseteq HttpPorts /\ servers \subseteq {Control, RespControl} \cup Resp
  /\ stopped \subseteq loops /\ running \subseteq threads
  /\ serving \subseteq servers \cap running
  /\ waiter \in [at : {"idle", "called", "wait", "ready", "timeout"}, pending : SUBSET Awaited, round : SUBSET Awaited]

(* A start() that has not bound every port has made no thread; one that *)
(* has made them gave a gate exactly to the ports of the registry they  *)
(* move.                                                                *)
StartInv ==
  /\ pc \in {"binding", "failed"} => threads = {} /\ gates = loops
  /\ pc \in {"starting", "up"} => gates = threads \cap Registry

(* An ended server does not serve, an open http port has a loop that was *)
(* not stopped, and stop() returns when it stopped them all.             *)
StopInv ==
  /\ serving \cap ended = {}
  /\ listening \cap HttpPorts \subseteq loops \ stopped
  /\ pc = "stopped" => loops \subseteq stopped /\ servers \subseteq ended

(* While no control write was made no port is closed on purpose, and a  *)
(* port that wait_ready() took off its list accepts, here or elsewhere. *)
ReadyInv ==
  /\ writes = 0 => closes = {}
  /\ waiter.at # "idle" => pc \in {"up", "stopping", "stopped"}
  /\ waiter.at # "idle" /\ writes = 0 /\ pc = "up" => Awaited \ waiter.pending \subseteq listening \cup MayBeTaken
  /\ waiter.at = "ready" => waiter.pending = {}

(* The inductive invariant of the simulator. *)
LifeInv == LifeTypes /\ StartInv /\ StopInv /\ ReadyInv

(* The simulator is not started. *)
LEMMA LifeStarts == LifeInit => LifeInv
  BY SMTT(60), LifeAssumption DEF LifeInit, LifeInv, LifeTypes, StartInv, StopInv, ReadyInv

(* A port that start() has still to bind has no loop and no server. *)
LEMMA ToBindFacts ==
  ASSUME NEW p \in ToBind
  PROVE  p \in HttpPorts \cup {Control, RespControl} \cup Resp /\ p \notin loops \cup servers
<1> DEFINE stages == <<HttpPorts, {Control}, Resp, extra_ready_ports>>
<1>1. PICK i \in 1..4 : p \in Unbound(stages[i])
  BY DEF ToBind
<1>2. stages[i] \subseteq HttpPorts \cup {Control, RespControl} \cup Resp
  <2>1. stages[1] = HttpPorts /\ stages[2] = {Control} /\ stages[3] = Resp /\ stages[4] = extra_ready_ports
    OBVIOUS
  <2>2. extra_ready_ports \subseteq Resp \cup {RespControl}
    BY DEF extra_ready_ports
  <2> HIDE DEF stages
  <2> QED
    BY SMTT(60), <2>1, <2>2
<1> HIDE DEF stages
<1> QED
  BY <1>1, <1>2 DEF Unbound

(* Every step keeps the invariant. *)
LEMMA LifeKept == LifeInv /\ [LifeNext]_lifeVars => LifeInv'
<1> SUFFICES ASSUME LifeInv, [LifeNext]_lifeVars PROVE LifeInv'
  OBVIOUS
<1> USE LifeAssumption DEF startVars, Registry
<1>1. CASE Bind
  <2>1. PICK p \in ToBind : 
    /\ pc = "binding" /\ p \notin taken
    /\ listening' = listening \cup {p}
    /\ IF p \in HttpPorts
         THEN gates' = gates \cup {p} /\ loops' = loops \cup {p} /\ UNCHANGED servers
         ELSE servers' = servers \cup {p} /\ UNCHANGED <<gates, loops>>
    BY <1>1 DEF Bind
  <2>2. p \in HttpPorts \cup {Control, RespControl} \cup Resp /\ p \notin loops \cup servers
    BY ToBindFacts
  <2>3. LifeTypes'
    BY SMTT(60), <1>1, <2>1, <2>2 DEF Bind, LifeInv, LifeTypes, Awaited, extra_ready_ports
  <2>4. StartInv' /\ StopInv'
    BY SMTT(60), <1>1, <2>1, <2>2 DEF Bind, LifeInv, LifeTypes, StartInv, StopInv
  <2>5. ReadyInv'
    BY <1>1, <2>1 DEF Bind, LifeInv, ReadyInv
  <2> QED
    BY <2>3, <2>4, <2>5 DEF LifeInv
<1>2. CASE BindFails
  BY <1>2 DEF BindFails, LifeInv, LifeTypes, StartInv, StopInv, ReadyInv
<1>3. CASE MakeThreads
  BY <1>3 DEF MakeThreads, LifeInv, LifeTypes, StartInv, StopInv, ReadyInv
<1>4. CASE StartThread
  BY <1>4 DEF StartThread, LifeInv, LifeTypes, StartInv, StopInv, ReadyInv
<1>5. ASSUME NEW s \in servers, Serve(s) \/ ServeEnds(s) PROVE LifeInv'
  BY SMTT(60), <1>5 DEF Serve, ServeEnds, LifeInv, LifeTypes, StartInv, StopInv, ReadyInv
<1>6. ASSUME NEW p \in loops, Pass(p) PROVE LifeInv'
  BY <1>6 DEF Pass, LifeInv, LifeTypes, StartInv, StopInv, ReadyInv
<1>7. ASSUME NEW p \in GrpcPorts, GrpcPass(p) PROVE LifeInv'
  BY SMTT(60), <1>7 DEF GrpcPass, LifeInv, LifeTypes, StartInv, StopInv, ReadyInv
<1>8. ASSUME NEW c \in Cache, CacheServe(c) PROVE LifeInv'
  BY SMTT(60), <1>8 DEF CacheServe, LifeInv, LifeTypes, StartInv, StopInv, ReadyInv
<1>9. CASE Write
  BY SMTT(60), <1>9 DEF Write, LifeInv, LifeTypes, StartInv, StopInv, ReadyInv
<1>10. CASE Release
  BY <1>10 DEF Release, LifeInv, LifeTypes, StartInv, StopInv, ReadyInv
<1>11. CASE Stop
  BY <1>11 DEF Stop, LifeInv, LifeTypes, StartInv, StopInv, ReadyInv
<1>12. CASE Stopping
  BY <1>12 DEF Stopping, StopLoop, StopReturns, LifeInv, LifeTypes, StartInv, StopInv, ReadyInv
<1>13. CASE WaitCall
  BY <1>13 DEF WaitCall, LifeInv, LifeTypes, StartInv, StopInv, ReadyInv
<1>14. CASE WaitRound
  BY <1>14 DEF WaitRound, LifeInv, LifeTypes, StartInv, StopInv, ReadyInv
<1>15. ASSUME NEW p \in Awaited, WaitProbe(p) PROVE LifeInv'
  BY <1>15 DEF WaitProbe, LifeInv, LifeTypes, StartInv, StopInv, ReadyInv
<1>16. CASE WaitTimeout
  BY <1>16 DEF WaitTimeout, LifeInv, LifeTypes, StartInv, StopInv, ReadyInv
<1>17. CASE UNCHANGED lifeVars
  BY <1>17 DEF lifeVars, LifeInv, LifeTypes, StartInv, StopInv, ReadyInv, Awaited
<1> QED
  BY <1>1, <1>2, <1>3, <1>4, <1>5, <1>6, <1>7, <1>8, <1>9, <1>10, <1>11, <1>12, <1>13, <1>14, <1>15, <1>16, <1>17
     DEF LifeNext, Starting, ThreadStep, Waiting

(* start() fails whole, a port has a gate only when a thread can move it, *)
(* nothing serves or accepts once stop() has returned, and wait_ready()   *)
(* told the truth (server.py, start, stop and wait_ready): for any ports, *)
(* and any ports that another process holds.                              *)
THEOREM LifeCorrect == LifeSpec => []LifeExact
<1>1. LifeInv => LifeExact
  BY DEF LifeInv, LifeTypes, StartInv, StopInv, ReadyInv, LifeExact, AllOrNothing, StoppedIsSilent, ReadyTold
<1> QED
  BY <1>1, LifeStarts, LifeKept, PTL DEF LifeSpec

-----------------------------------------------------------------------------
(* The cache-sim *)

Methods == {"GetRelay", "SetRelay"}

Shapes ==
  /\ DOMAIN staged = DOMAIN Fresh
  /\ DOMAIN test = Selftests /\ \A t \in Selftests : DOMAIN test[t] = DOMAIN NoTest

(* A self-test past its probe has been recorded: so it has when it answers 200. *)
ProbeRecorded ==
  \A t \in Selftests : test[t].pc \in {"after", "read"} \/ test[t].answer = 200 => t \in probed

(* After a reset the staged fields are those of a miss, until the next staging. *)
ResetStays ==
  last \in {"reset", "scenario"} =>
    staged.mode = "miss" /\ staged.latency = 0 /\ (last = "reset" => staged.seen = 0)

CacheInv == TypeOK /\ Shapes /\ HitHasEntry /\ LogCounted /\ ProbeRecorded /\ ResetStays

(* What is left of a full log when its oldest call falls out. *)
LEMMA TailFacts ==
  ASSUME NEW S, NEW q \in Seq(S), q # <<>>
  PROVE  /\ Tail(q) \in Seq(S) /\ Len(Tail(q)) = Len(q) - 1
         /\ \A i \in 1..Len(Tail(q)) : i + 1 \in 1..Len(q) /\ Tail(q)[i] = q[i + 1]
BY SMTT(60)

(* The log after a call was recorded. *)
LEMMA RecordFacts ==
  ASSUME NEW log \in Seq(Methods), Len(log) <= HistoryMax, NEW m \in Methods
  PROVE  /\ Record(log, m) \in Seq(Methods)
         /\ Len(Record(log, m)) <= HistoryMax /\ Len(Record(log, m)) <= Len(log) + 1
         /\ \A x \in Methods : Holds(Record(log, m), x) => x = m \/ Holds(log, x)
<1> USE CacheAssumption
<1>1. CASE Len(log) = HistoryMax
  <2>1. log # <<>>
    BY <1>1
  <2>2. /\ Tail(log) \in Seq(Methods) /\ Len(Tail(log)) = Len(log) - 1
        /\ \A i \in 1..Len(Tail(log)) : i + 1 \in 1..Len(log) /\ Tail(log)[i] = log[i + 1]
    BY <2>1, TailFacts
  <2>3. Record(log, m) = Append(Tail(log), m)
    BY <1>1 DEF Record
  <2>4. \A i \in 1..Len(Append(Tail(log), m)) :
          Append(Tail(log), m)[i] = m \/ \E j \in 1..Len(log) : Append(Tail(log), m)[i] = log[j]
    <3>1. ASSUME NEW q \in Seq(Methods), NEW i \in 1..Len(Append(q, m))
          PROVE  Append(q, m)[i] = m \/ (i \in 1..Len(q) /\ Append(q, m)[i] = q[i])
      BY SMTT(60)
    <3> QED
      BY <2>2, <3>1
  <2> QED
    BY SMTT(60), <1>1, <2>2, <2>3, <2>4 DEF Holds
<1>2. CASE Len(log) # HistoryMax
  <2>1. Record(log, m) = Append(log, m)
    BY <1>2 DEF Record
  <2> QED
    BY SMTT(60), <1>2, <2>1 DEF Holds
<1> QED
  BY <1>1, <1>2

(* A new cache-sim misses and has an empty log. *)
LEMMA InitCacheInv == Init => CacheInv
<1> SUFFICES ASSUME Init PROVE CacheInv
  OBVIOUS
<1> USE CacheAssumption DEF Init
<1>1. TypeOK
  BY SMTT(60) DEF TypeOK, Fresh, Modes, NoTest
<1>2. Shapes /\ HitHasEntry /\ ProbeRecorded /\ ResetStays
  BY SMTT(60) DEF Shapes, HitHasEntry, ProbeRecorded, ResetStays, Fresh, NoTest
<1>3. LogCounted
  BY SMTT(60) DEF LogCounted, Holds
<1> QED
  BY <1>1, <1>2, <1>3 DEF CacheInv

(* A lookup: it leaves the staged fields and the self-tests alone. *)
LEMMA LookupStep ==
  ASSUME CacheInv, NEW l \in Lookups, Lookup(l) \/ GetRelay(l)
  PROVE  CacheInv'
<1> USE CacheAssumption DEF CacheInv
<1>0. UNCHANGED <<staged, ops, test, probed, last>>
  BY DEF Lookup, GetRelay, Plan, PlanRaisesEarly, PlanRaisesLate
<1>1. \/ total' = total + 1 /\ calls' = Record(calls, "GetRelay")
      \/ total' \in {total, total + 1} /\ calls' = calls
  BY DEF Lookup, GetRelay, Plan, PlanRaisesEarly, PlanRaisesLate, RecordCall
<1>2. logged' \subseteq Lookups
  BY DEF Lookup, GetRelay, Plan, PlanRaisesEarly, PlanRaisesLate, TypeOK
<1>3. /\ calls' \in Seq(Methods) /\ total' \in Nat
      /\ Len(calls') <= total' /\ Len(calls') <= HistoryMax
      /\ Holds(calls', "SetRelay") => Holds(calls, "SetRelay")
  <2>1. calls \in Seq(Methods) /\ total \in Nat /\ Len(calls) <= total /\ Len(calls) <= HistoryMax
    BY DEF TypeOK, LogCounted, Methods
  <2>2. CASE total' = total + 1 /\ calls' = Record(calls, "GetRelay")
    BY SMTT(60), <2>1, <2>2, RecordFacts DEF Methods
  <2>3. CASE total' \in {total, total + 1} /\ calls' = calls
    BY SMTT(60), <2>1, <2>3
  <2> QED
    BY <1>1, <2>2, <2>3
<1>4. TypeOK'
  BY <1>0, <1>2, <1>3 DEF TypeOK, Methods
<1>5. LogCounted'
  BY <1>0, <1>3 DEF LogCounted
<1>6. Shapes' /\ HitHasEntry' /\ ProbeRecorded' /\ ResetStays'
  BY <1>0 DEF Shapes, HitHasEntry, ProbeRecorded, ResetStays
<1> QED
  BY <1>4, <1>5, <1>6

(* A staging: refused, or one that leaves an entry when it asks for hits. *)
LEMMA StageStep ==
  ASSUME CacheInv, NEW b \in Stagings, CacheStage(b)
  PROVE  CacheInv'
<1> USE CacheAssumption DEF CacheInv
<1>0. UNCHANGED <<calls, total, lookup, test, logged, probed>> /\ ops < MaxOps /\ ops' = ops + 1 /\ last' = "stage"
  BY DEF CacheStage, Op
<1>1. UNCHANGED staged \/ (~StageRefused(b) /\ staged' = Staged(b))
  BY DEF CacheStage
<1>2. /\ staged'.mode \in Modes /\ staged'.latency \in Nat /\ staged'.seen \in Nat
      /\ DOMAIN staged' = DOMAIN Fresh
  <2>1. CASE UNCHANGED staged
    BY <2>1 DEF TypeOK, Shapes
  <2>2. CASE ~StageRefused(b) /\ staged' = Staged(b)
    <3>1. StagedHead(b) \in Nat /\ b.mode \in Modes
      BY <2>2 DEF StagedHead, StageRefused, UnknownMode, TypeOK
    <3> QED
      BY <2>2, <3>1 DEF Staged, Fresh
  <2> QED
    BY <1>1, <2>1, <2>2
<1>3. HitHasEntry'
  <2>1. CASE UNCHANGED staged
    BY <2>1 DEF HitHasEntry
  <2>2. CASE ~StageRefused(b) /\ staged' = Staged(b)
    <3>1. b.mode = "hit" => b.keys # {}
      BY <2>2 DEF StageRefused, NoHit
    <3>2. FromDict(b.keys) # NoEntry
      <4>1. FromDict(b.keys).payload # "none" /\ NoEntry.payload = "none"
        BY DEF FromDict, NoEntry
      <4> QED
        BY <4>1
    <3> QED
      BY <2>2, <3>1, <3>2 DEF HitHasEntry, Staged
  <2> QED
    BY <1>1, <2>1, <2>2
<1>4. TypeOK'
  BY SMTT(60), <1>0, <1>2 DEF TypeOK
<1>5. Shapes' /\ LogCounted' /\ ProbeRecorded' /\ ResetStays'
  BY <1>0, <1>2 DEF Shapes, LogCounted, ProbeRecorded, ResetStays
<1> QED
  BY <1>3, <1>4, <1>5

(* The resets and the clear: a reset cache misses, and the log is emptied with *)
(* its counter or without it.                                                  *)
LEMMA ResetStep ==
  ASSUME CacheInv, CacheReset \/ ScenarioReset \/ ClearCalls
  PROVE  CacheInv'
<1> USE CacheAssumption DEF CacheInv
<1>0. UNCHANGED <<test, logged, probed>> /\ ops < MaxOps /\ ops' = ops + 1
  BY DEF CacheReset, ScenarioReset, ClearCalls, Op
<1>1. /\ calls' \in Seq(Methods) /\ total' \in Nat
      /\ Len(calls') <= total' /\ Len(calls') <= HistoryMax
      /\ Holds(calls', "SetRelay") => Holds(calls, "SetRelay")
  <2>1. calls \in Seq(Methods) /\ total \in Nat /\ Len(calls) <= total /\ Len(calls) <= HistoryMax
    BY DEF TypeOK, LogCounted, Methods
  <2>2. <<>> \in Seq(Methods) /\ Len(<<>>) = 0
    BY SMTT(60)
  <2>e. ~Holds(<<>>, "SetRelay")
    BY SMTT(60), <2>2 DEF Holds
  <2>3. (calls' = calls /\ total' = total) \/ (calls' = <<>> /\ total' \in {0, total})
    BY DEF CacheReset, ScenarioReset, ClearCalls
  <2>4. CASE calls' = calls /\ total' = total
    BY <2>1, <2>4
  <2>5. CASE calls' = <<>> /\ total' \in {0, total}
    BY SMTT(60), <2>1, <2>2, <2>e, <2>5
  <2> QED
    BY <2>3, <2>4, <2>5
<1>2. /\ staged'.mode \in Modes /\ staged'.latency \in Nat /\ staged'.seen \in Nat
      /\ DOMAIN staged' = DOMAIN Fresh
      /\ HitHasEntry' /\ ResetStays'
  <2>1. CASE CacheReset
    BY <2>1 DEF CacheReset, ResetStaged, Fresh, Modes, HitHasEntry, ResetStays, Op
  <2>2. CASE ScenarioReset
    BY <2>2 DEF ScenarioReset, Shapes, TypeOK, Fresh, Modes, HitHasEntry, ResetStays, Op
  <2>3. CASE ClearCalls
    BY <2>3 DEF ClearCalls, Shapes, TypeOK, HitHasEntry, ResetStays, Op
  <2> QED
    BY <2>1, <2>2, <2>3
<1>3. TypeOK'
  BY SMTT(60), <1>0, <1>1, <1>2 DEF TypeOK, Methods
<1>4. Shapes' /\ LogCounted' /\ ProbeRecorded'
  BY <1>0, <1>1, <1>2 DEF Shapes, LogCounted, ProbeRecorded
<1> QED
  BY <1>2, <1>3, <1>4

(* A step of a self-test that records nothing. *)
LEMMA QuietTestStep ==
  ASSUME CacheInv, NEW t \in Selftests, NEW from, NEW rec, TestStep(t, from, rec),
         DOMAIN rec = DOMAIN NoTest, rec.before \in Nat, rec.after \in Nat,
         rec.pc \in {"after", "read"} \/ rec.answer = 200 => t \in probed,
         UNCHANGED <<calls, total, probed>>
  PROVE  CacheInv'
<1> USE DEF CacheInv
<1>0. test' = [test EXCEPT ![t] = rec] /\ UNCHANGED <<staged, ops, logged, last>>
  BY DEF TestStep
<1>1. test'[t] = rec /\ DOMAIN test' = Selftests /\ \A q \in Selftests : q # t => test'[q] = test[q]
  BY <1>0 DEF Shapes
<1>2. TypeOK'
  BY <1>0, <1>1 DEF TypeOK
<1>3. Shapes' /\ ProbeRecorded'
  BY SMTT(60), <1>0, <1>1 DEF Shapes, ProbeRecorded
<1>4. HitHasEntry' /\ LogCounted' /\ ResetStays'
  BY <1>0 DEF HitHasEntry, LogCounted, ResetStays
<1> QED
  BY <1>2, <1>3, <1>4

(* The probe that reaches the handler is recorded before it is refused. *)
LEMMA ProbeStep ==
  ASSUME CacheInv, NEW t \in Selftests, Probe(t)
  PROVE  CacheInv'
<1> USE DEF CacheInv
<1>0. /\ test' = [test EXCEPT ![t] = [test[t] EXCEPT !.pc = "after"]]
      /\ total' = total + 1 /\ calls' = Record(calls, "SetRelay") /\ probed' = probed \cup {t}
      /\ UNCHANGED <<staged, ops, logged, last>>
  BY DEF Probe, TestStep, Refuse, RecordCall
<1>1. calls \in Seq(Methods) /\ total \in Nat /\ Len(calls) <= total /\ Len(calls) <= HistoryMax
  BY DEF TypeOK, LogCounted, Methods
<1>2. calls' \in Seq(Methods) /\ Len(calls') <= total' /\ Len(calls') <= HistoryMax /\ total' \in Nat
  BY SMTT(60), <1>0, <1>1, RecordFacts DEF Methods
<1>3. /\ DOMAIN test' = Selftests /\ DOMAIN test'[t] = DOMAIN NoTest
      /\ test'[t].before = test[t].before /\ test'[t].after = test[t].after
      /\ \A q \in Selftests : q # t => test'[q] = test[q]
  BY <1>0 DEF Shapes, NoTest
<1>4. TypeOK'
  <2>1. \A q \in Selftests : test'[q].before \in Nat /\ test'[q].after \in Nat
    BY <1>3 DEF TypeOK
  <2> QED
    BY <1>0, <1>2, <2>1 DEF TypeOK, Methods
<1>5. Shapes' /\ ProbeRecorded'
  BY <1>0, <1>3 DEF Shapes, ProbeRecorded
<1>6. HitHasEntry' /\ LogCounted' /\ ResetStays'
  BY <1>0, <1>2 DEF HitHasEntry, LogCounted, ResetStays
<1> QED
  BY <1>4, <1>5, <1>6

(* The steps of a self-test: past the probe it reads what others may change, *)
(* but its own probe stays recorded.                                         *)
LEMMA SelftestStep ==
  ASSUME CacheInv, NEW t \in Selftests,
         TestBefore(t) \/ Probe(t) \/ ProbeLost(t) \/ TestAfter(t) \/ TestAnswer(t)
  PROVE  CacheInv'
<1> USE DEF CacheInv
<1>0. /\ DOMAIN test[t] = DOMAIN NoTest /\ test[t].before \in Nat /\ test[t].after \in Nat /\ total \in Nat
      /\ test[t].pc \in {"after", "read"} \/ test[t].answer = 200 => t \in probed
  BY DEF TypeOK, Shapes, ProbeRecorded
<1>1. CASE TestBefore(t)
  <2>1. CASE HasPort
    <3> DEFINE rec == [test[t] EXCEPT !.pc = "probe", !.before = total]
    <3>1. TestStep(t, "new", rec) /\ UNCHANGED <<calls, total, probed>>
      BY <1>1, <2>1 DEF TestBefore
    <3>2. /\ DOMAIN rec = DOMAIN NoTest /\ rec.before \in Nat /\ rec.after \in Nat
          /\ rec.pc = "probe" /\ rec.answer = test[t].answer
      BY <1>0 DEF NoTest
    <3> HIDE DEF rec
    <3> QED
      BY <1>0, <3>1, <3>2, QuietTestStep
  <2>2. CASE ~HasPort
    <3> DEFINE rec == [test[t] EXCEPT !.pc = "done", !.answer = 409]
    <3>1. TestStep(t, "new", rec) /\ UNCHANGED <<calls, total, probed>>
      BY <1>1, <2>2 DEF TestBefore
    <3>2. /\ DOMAIN rec = DOMAIN NoTest /\ rec.before \in Nat /\ rec.after \in Nat
          /\ rec.pc = "done" /\ rec.answer = 409
      BY SMTT(60), <1>0 DEF NoTest
    <3> HIDE DEF rec
    <3> QED
      BY SMTT(60), <1>0, <3>1, <3>2, QuietTestStep
  <2> QED
    BY <2>1, <2>2
<1>2. CASE Probe(t)
  BY <1>2, ProbeStep
<1>3. CASE ProbeLost(t)
  <2> DEFINE rec == [test[t] EXCEPT !.pc = "done", !.answer = 502]
  <2>1. TestStep(t, "probe", rec) /\ UNCHANGED <<calls, total, probed>>
    BY <1>3 DEF ProbeLost
  <2>2. /\ DOMAIN rec = DOMAIN NoTest /\ rec.before \in Nat /\ rec.after \in Nat
        /\ rec.pc = "done" /\ rec.answer = 502
    BY SMTT(60), <1>0 DEF NoTest
  <2> HIDE DEF rec
  <2> QED
    BY SMTT(60), <1>0, <2>1, <2>2, QuietTestStep
<1>4. CASE TestAfter(t)
  <2> DEFINE rec == [test[t] EXCEPT !.pc = "read", !.after = total]
  <2>1. TestStep(t, "after", rec) /\ UNCHANGED <<calls, total, probed>> /\ test[t].pc = "after"
    BY <1>4 DEF TestAfter, TestStep
  <2>2. DOMAIN rec = DOMAIN NoTest /\ rec.before \in Nat /\ rec.after \in Nat
    BY <1>0 DEF NoTest
  <2> HIDE DEF rec
  <2> QED
    BY <1>0, <2>1, <2>2, QuietTestStep
<1>5. CASE TestAnswer(t)
  <2> DEFINE rec == [test[t] EXCEPT !.pc = "done", !.answer = IF Seen(t) THEN 200 ELSE 500]
  <2>1. TestStep(t, "read", rec) /\ UNCHANGED <<calls, total, probed>> /\ test[t].pc = "read"
    BY <1>5 DEF TestAnswer, TestStep
  <2>2. DOMAIN rec = DOMAIN NoTest /\ rec.before \in Nat /\ rec.after \in Nat
    BY <1>0 DEF NoTest
  <2> HIDE DEF rec
  <2> QED
    BY <1>0, <2>1, <2>2, QuietTestStep
<1> QED
  BY <1>1, <1>2, <1>3, <1>4, <1>5

(* Every step keeps the invariant. *)
LEMMA NextCacheInv == CacheInv /\ [Next]_vars => CacheInv'
<1> SUFFICES ASSUME CacheInv, [Next]_vars PROVE CacheInv'
  OBVIOUS
<1>1. CASE UNCHANGED vars
  <2> USE <1>1 DEF vars, CacheInv
  <2>1. TypeOK' /\ Shapes' /\ HitHasEntry'
    BY DEF TypeOK, Shapes, HitHasEntry
  <2>2. LogCounted' /\ ProbeRecorded' /\ ResetStays'
    BY DEF LogCounted, ProbeRecorded, ResetStays
  <2> QED
    BY <2>1, <2>2
<1>2. CASE Next
  BY <1>2, LookupStep, StageStep, ResetStep, SelftestStep DEF Next
<1> QED
  BY <1>1, <1>2

(* The invariant holds in every state. *)
LEMMA CacheInvHolds == Spec => []CacheInv
BY InitCacheInv, NextCacheInv, PTL DEF Spec

(* A cache that answers hits has an entry to answer with (stage, reset and  *)
(* the scenario reset in cache_sim.py and control_api.py).                  *)
THEOREM HitHasEntryHolds == Spec => []HitHasEntry
<1>1. CacheInv => HitHasEntry
  BY DEF CacheInv
<1> QED
  BY <1>1, CacheInvHolds, PTL

(* The log holds no more calls than were recorded since the last reset, nor *)
(* more than HISTORY_MAX, and every probe it holds was sent (plan and       *)
(* refuse_and_record in cache_sim.py).                                      *)
THEOREM LogCountedHolds == Spec => []LogCounted
<1>1. CacheInv => LogCounted
  BY DEF CacheInv
<1> QED
  BY <1>1, CacheInvHolds, PTL

(* A self-test answers 200 only when the record saw its own probe           *)
(* (cache_selftest_write in control_api.py), whoever else records meanwhile. *)
THEOREM SelftestSoundHolds == Spec => []SelftestSound
<1>1. CacheInv => SelftestSound
  BY DEF CacheInv, ProbeRecorded, SelftestSound
<1> QED
  BY <1>1, CacheInvHolds, PTL

(* After a reset and before the next staging a lookup misses at once (plan *)
(* and reset in cache_sim.py).                                             *)
THEOREM ResetMissesHolds == Spec => []ResetMisses
<1>1. CacheInv => ResetMisses
  <2> SUFFICES ASSUME CacheInv, last \in {"reset", "scenario"}
               PROVE  /\ Decide(staged).body = "miss" /\ Decide(staged).wait = 0
                      /\ last = "reset" => Decide(staged).head = 0
    BY DEF ResetMisses
  <2>1. staged.mode = "miss" /\ staged.latency = 0 /\ (last = "reset" => staged.seen = 0)
    BY DEF CacheInv, ResetStays
  <2>2. Decide(staged) = MissReply(staged)
    BY <2>1 DEF Decide
  <2> QED
    BY SMTT(60), <2>1, <2>2 DEF MissReply
<1> QED
  BY <1>1, CacheInvHolds, PTL

-----------------------------------------------------------------------------
(* The heads of the chains *)

(* A call of POST /advance. *)
Advance ==
  [pc : {"new", "rate", "bump", "read", "done"}, has : SUBSET {"blocks", "per_second", "head", "ln"},
   blocks : Int, per_second : Int, name : HeadNames, status : {0, 200, 400}]

(* The inductive invariant of the heads: the types, a head is at least as far above its base *)
(* as bumps added, and a call that was accepted adds no negative number of blocks.          *)
HeadInv ==
  /\ chain \in HeadChains /\ clock \in 0..MaxClock
  /\ head \in [HeadNames -> [extra : Nat, rate : Rates \cup {0}, anchor : 0..clock]]
  /\ lag \in [Providers -> Lags \cup {0}]
  /\ advance \in [Advances -> Advance]
  /\ moved \in [HeadNames -> Int]
  /\ \A a \in Advances : advance[a].blocks >= 0 /\ advance[a].per_second \in Rates \cup {0}
  /\ \A h \in HeadNames : head[h].extra >= moved[h]

-----------------------------------------------------------------------------
(* What a head advances by is a number, and does not fall as time passes. *)
LEMMA Halves ==
  ASSUME NEW n \in Nat, NEW r \in Int, r > 0
  PROVE  /\ (n * r) \div 2 \in Nat
         /\ ((n + 1) * r) \div 2 >= (n * r) \div 2
<1>1. n * r \in Nat
  BY SMTT(60)
<1>2. (n + 1) * r = n * r + r
  BY SMTT(60)
<1>3. \A a, b \in Nat : a \div 2 \in Nat /\ (a <= b => a \div 2 <= b \div 2)
  BY SMTT(60)
<1> HIDE <1>3
<1>4. n * r + r \in Nat /\ n * r <= n * r + r
  BY SMTT(60), <1>1
<1> QED BY SMTT(60), <1>1, <1>2, <1>3, <1>4

(* A head. *)
HeadRecord == [extra : Nat, rate : Int, anchor : Nat]

(* Elapsed is a number, and 0 at the anchor. *)
LEMMA ElapsedType ==
  ASSUME NEW x \in HeadRecord, clock \in Nat, x.anchor <= clock
  PROVE  Elapsed(x) \in Nat /\ (x.anchor = clock => Elapsed(x) = 0)
<1>1. CASE x.rate > 0
  <2>1. clock - x.anchor \in Nat /\ x.rate \in Int
    BY SMTT(60) DEF HeadRecord
  <2>2. ((clock - x.anchor) * x.rate) \div 2 \in Nat
    BY SMTT(60), <1>1, <2>1, Halves
  <2>3. x.anchor = clock => ((clock - x.anchor) * x.rate) \div 2 = 0
    BY SMTT(60), <2>1
  <2> QED BY <1>1, <2>2, <2>3 DEF Elapsed
<1>2. CASE ~(x.rate > 0)
  BY SMTT(60), <1>2 DEF Elapsed
<1> QED BY <1>1, <1>2

(* A head of the state is a record. *)
LEMMA HeadIsRecord ==
  ASSUME HeadInv, NEW h \in HeadNames
  PROVE  /\ head[h] \in HeadRecord /\ clock \in Nat /\ head[h].anchor <= clock
         /\ head[h].rate \in Rates \cup {0} /\ head[h].anchor \in 0..clock
<1>1. head[h] \in [extra : Nat, rate : Rates \cup {0}, anchor : 0..clock] /\ clock \in 0..MaxClock
  BY DEF HeadInv
<1>2. head[h].rate \in Rates \cup {0} /\ head[h].anchor \in 0..clock /\ head[h].extra \in Nat
  BY <1>1
<1>3. clock \in Nat /\ head[h].anchor \in Nat /\ head[h].anchor <= clock /\ head[h].rate \in Int
  <2>1. clock \in 0..MaxClock
    BY <1>1
  <2>2. \A m \in Nat : \A c \in 0..m : \A n \in 0..c : c \in Nat /\ n \in Nat /\ n <= c
    BY SMTT(60)
  <2>3. \A q : q \in Rates \cup {0} => q \in Int
    BY SMTT(60), HeadAssumption
  <2> QED BY <1>2, <2>1, <2>2, <2>3, HeadAssumption
<1>4. head[h] = [extra |-> head[h].extra, rate |-> head[h].rate, anchor |-> head[h].anchor]
  BY <1>1
<1> QED BY <1>2, <1>3, <1>4 DEF HeadRecord

(* The heads that a call names. *)
LEMMA ChosenFacts ==
  ASSUME HeadInv, NEW a \in Advances
  PROVE  /\ ChosenHead(advance[a]) \subseteq HeadNames
         /\ \A h \in ChosenHead(advance[a]) :
              Cardinality(iter_heads) > 1 => "head" \in advance[a].has /\ advance[a].name = h
<1>1. advance[a].name \in HeadNames
  BY DEF HeadInv, Advance
<1>2. iter_heads \subseteq HeadNames
  BY DEF iter_heads, HeadNames
<1>3. ~(Cardinality(iter_heads) = 1 /\ Cardinality(iter_heads) > 1)
  BY SMTT(60)
<1> QED BY <1>1, <1>2, <1>3 DEF ChosenHead

(* The invariant holds at the start. *)
LEMMA HeadInvInit == HeadsInit => HeadInv
<1> SUFFICES ASSUME HeadsInit PROVE HeadInv
  OBVIOUS
<1>1. New \in [extra : Nat, rate : Rates \cup {0}, anchor : 0..0] /\ New.extra >= 0
  BY SMTT(60) DEF New
<1>n. 0 \in Int /\ 0 >= 0 /\ "default" \in HeadNames /\ {} \in SUBSET {"blocks", "per_second", "head", "ln"}
  BY SMTT(60) DEF HeadNames
<1>2. NoCall \in Advance /\ NoCall.blocks >= 0 /\ NoCall.per_second = 0
  BY SMTT(60), <1>n DEF NoCall, Asks, Advance
<1>3. clock \in 0..MaxClock /\ 0 \in Int
  BY SMTT(60), HeadAssumption DEF HeadsInit
<1> QED BY <1>1, <1>2, <1>3 DEF HeadsInit, HeadInv

(* A step that leaves a call with no negative number of blocks keeps the invariant. *)
LEMMA CallKeeps ==
  ASSUME HeadInv, NEW a \in Advances, NEW k \in Advance, k.blocks >= 0, k.per_second \in Rates \cup {0},
         advance' = [advance EXCEPT ![a] = k], UNCHANGED <<chain, head, clock, lag, moved>>
  PROVE  HeadInv'
BY DEF HeadInv

(* A call that begins is refused, or names no negative number. *)
LEMMA BeginKeeps ==
  ASSUME HeadInv, NEW a \in Advances, Begin(a) PROVE HeadInv'
<1>1. PICK has \in SUBSET {"blocks", "per_second", "head", "ln"}, n \in Blocks, r \in Rates, h \in HeadNames :
        LET c == Asks("rate", has, IF "blocks" \in has THEN n ELSE 0, IF "per_second" \in has THEN r ELSE 0,
                      IF "head" \in has THEN h ELSE "default", 0)
        IN  IF Refused(c) THEN Answers(a, 400) ELSE Sets(a, c)
  BY DEF Begin
<1> DEFINE blocks == IF "blocks" \in has THEN n ELSE 0
           rate == IF "per_second" \in has THEN r ELSE 0
           name == IF "head" \in has THEN h ELSE "default"
           c == Asks("rate", has, blocks, rate, name, 0)
<1>2. blocks \in Int /\ rate \in Int /\ rate \in Rates \cup {0} /\ 0 \in Int /\ 0 >= 0
  BY SMTT(60), HeadAssumption
<1>3. name \in HeadNames /\ "default" \in HeadNames /\ {} \in SUBSET {"blocks", "per_second", "head", "ln"}
  BY DEF HeadNames
<1>4. IF Refused(c) THEN Answers(a, 400) ELSE Sets(a, c)
  BY <1>1
<1>5. blocks >= 0 \/ blocks < 0
  BY SMTT(60), <1>2
<1>8. has \in SUBSET {"blocks", "per_second", "head", "ln"}
  OBVIOUS
<1> HIDE DEF blocks, rate, name
<1>6. CASE Refused(c)
  <2> DEFINE k == Asks("done", {}, 0, 0, "default", 400)
  <2>1. k \in Advance /\ k.blocks = 0 /\ k.per_second = 0
    BY SMTT(60), <1>3 DEF Asks, Advance
  <2>2. advance' = [advance EXCEPT ![a] = k]
    BY <1>4, <1>6 DEF Answers, Sets
  <2> HIDE DEF k
  <2> QED BY <1>2, <2>1, <2>2, CallKeeps DEF Begin
<1>7. CASE ~Refused(c)
  <2>1. c \in Advance /\ c.blocks = blocks /\ c.per_second = rate
    BY SMTT(60), <1>2, <1>3, <1>8 DEF Asks, Advance
  <2>2. blocks >= 0
    BY <1>5, <1>7, <2>1 DEF Refused
  <2> QED BY <1>2, <1>4, <1>7, <2>1, <2>2, CallKeeps DEF Sets, Begin
<1> QED BY <1>6, <1>7

(* A step that moves heads and one call keeps the invariant, when it leaves a head above its bumps. *)
LEMMA MoveKeeps ==
  ASSUME HeadInv, NEW a \in Advances, NEW k \in Advance, k.blocks >= 0, k.per_second \in Rates \cup {0},
         advance' = [advance EXCEPT ![a] = k], UNCHANGED <<chain, clock, lag>>,
         head' \in [HeadNames -> [extra : Nat, rate : Rates \cup {0}, anchor : 0..clock]],
         moved' \in [HeadNames -> Int], \A h \in HeadNames : head'[h].extra >= moved'[h]
  PROVE  HeadInv'
BY DEF HeadInv

(* A call that goes on keeps its arguments. *)
LEMMA PcType ==
  ASSUME NEW c \in Advance, NEW at \in {"bump", "read"}
  PROVE  LET k == [c EXCEPT !.pc = at] IN k \in Advance /\ k.blocks = c.blocks /\ k.per_second = c.per_second
BY SMTT(60) DEF Advance

(* A call that has its answer. *)
LEMMA DoneType ==
  ASSUME NEW s \in {0, 200, 400}
  PROVE  LET k == Asks("done", {}, 0, 0, "default", s)
         IN  k \in Advance /\ k.blocks >= 0 /\ k.per_second \in Rates \cup {0}
<1>1. "default" \in HeadNames
  BY DEF HeadNames
<1> QED BY SMTT(60), <1>1 DEF Asks, Advance

(* A head whose rate is set keeps its height, and does not fall below its extra. *)
LEMMA SetRateHead ==
  ASSUME HeadInv, NEW h \in HeadNames, NEW r \in Rates \cup {0}
  PROVE  /\ set_rate(head[h], r) \in [extra : Nat, rate : Rates \cup {0}, anchor : 0..clock]
         /\ set_rate(head[h], r).extra = head[h].extra + Elapsed(head[h])
         /\ set_rate(head[h], r).extra >= head[h].extra
         /\ set_rate(head[h], r).anchor = clock
<1>1. head[h] \in HeadRecord /\ clock \in Nat /\ head[h].anchor <= clock
  BY HeadIsRecord
<1>2. Elapsed(head[h]) \in Nat /\ head[h].extra \in Nat
  BY <1>1, ElapsedType DEF HeadRecord
<1>3. clock \in 0..clock
  BY SMTT(60), <1>1
<1>4. Fold(head[h]) = head[h].extra + Elapsed(head[h])
  BY DEF Fold
<1>5. Fold(head[h]) \in Nat /\ Fold(head[h]) >= head[h].extra
  BY SMTT(60), <1>2, <1>4
<1> QED BY <1>3, <1>4, <1>5 DEF set_rate

(* set_rate keeps the invariant: the advance of the old rate is folded into the extra. *)
LEMMA SetRateKeeps ==
  ASSUME HeadInv, NEW a \in Advances, SetRate(a) PROVE HeadInv'
<1> DEFINE k == [advance[a] EXCEPT !.pc = "bump"]
<1>1. advance[a] \in Advance /\ advance[a].blocks >= 0 /\ advance[a].per_second \in Rates \cup {0}
  BY DEF HeadInv
<1>2. k \in Advance /\ k.blocks >= 0 /\ k.per_second \in Rates \cup {0}
  BY <1>1, PcType
<1> HIDE DEF k
<1>3. CASE "per_second" \notin advance[a].has
  BY <1>2, <1>3, CallKeeps DEF SetRate, Sets, k
<1>4. CASE "per_second" \in advance[a].has
  <2>1. PICK h \in ChosenHead(advance[a]) :
          IF Readable(h)
          THEN head' = [head EXCEPT ![h] = set_rate(@, advance[a].per_second)] /\ Sets(a, k)
          ELSE Answers(a, 0) /\ UNCHANGED head
    BY <1>4 DEF SetRate, k
  <2>2. h \in HeadNames
    BY ChosenFacts
  <2>3. CASE Readable(h)
    <3> DEFINE x == set_rate(head[h], advance[a].per_second)
    <3>1. /\ x \in [extra : Nat, rate : Rates \cup {0}, anchor : 0..clock]
          /\ x.extra >= head[h].extra /\ x.extra \in Nat
      BY <1>1, <2>2, SetRateHead
    <3>2. head[h].extra \in Nat /\ moved[h] \in Int /\ head[h].extra >= moved[h]
      BY <2>2 DEF HeadInv
    <3>3. x.extra >= moved[h]
      BY SMTT(60), <3>1, <3>2
    <3>4. head' = [head EXCEPT ![h] = x]
      BY <2>1, <2>3
    <3> HIDE DEF x
    <3>5. head' \in [HeadNames -> [extra : Nat, rate : Rates \cup {0}, anchor : 0..clock]]
      BY <3>1, <3>4 DEF HeadInv
    <3>6. \A g \in HeadNames : head'[g].extra >= moved[g]
      BY <3>3, <3>4 DEF HeadInv
    <3>7. moved' = moved /\ moved \in [HeadNames -> Int] /\ UNCHANGED <<chain, clock, lag>>
      BY DEF SetRate, HeadInv
    <3> QED BY <1>2, <2>1, <2>3, <3>5, <3>6, <3>7, MoveKeeps DEF Sets
  <2>4. CASE ~Readable(h)
    BY <2>1, <2>4, DoneType, CallKeeps DEF SetRate, Answers, Sets
  <2> QED BY <2>3, <2>4
<1> QED BY <1>3, <1>4

(* A bump adds to the extra, and leaves the rest of the head alone. *)
LEMMA BumpHead ==
  ASSUME HeadInv, NEW h \in HeadNames, NEW n \in Nat
  PROVE  /\ bump(head[h], n) \in [extra : Nat, rate : Rates \cup {0}, anchor : 0..clock]
         /\ bump(head[h], n).extra = head[h].extra + n
         /\ bump(head[h], n).rate = head[h].rate /\ bump(head[h], n).anchor = head[h].anchor
<1>1. head[h] \in [extra : Nat, rate : Rates \cup {0}, anchor : 0..clock]
  BY DEF HeadInv
<1>2. head[h].extra + n \in Nat
  BY SMTT(60), <1>1
<1> QED BY <1>1, <1>2 DEF bump

(* bump keeps the invariant: what it adds to a head it adds to what was asked for. *)
LEMMA BumpKeeps ==
  ASSUME HeadInv, NEW a \in Advances, Bump(a) PROVE HeadInv'
<1> DEFINE k == [advance[a] EXCEPT !.pc = "read"]
           n == advance[a].blocks
<1>1. advance[a] \in Advance /\ advance[a].blocks >= 0 /\ advance[a].per_second \in Rates \cup {0}
  BY DEF HeadInv
<1>2. k \in Advance /\ k.blocks >= 0 /\ k.per_second \in Rates \cup {0}
  BY <1>1, PcType
<1>3. n \in Nat
  <2>1. n \in Int
    BY <1>1 DEF Advance
  <2> QED BY SMTT(60), <1>1, <2>1
<1>4. /\ head' = [h \in HeadNames |-> IF h \in ChosenHead(advance[a]) THEN bump(head[h], n) ELSE head[h]]
      /\ moved' = [h \in HeadNames |-> IF h \in ChosenHead(advance[a]) THEN moved[h] + n ELSE moved[h]]
      /\ advance' = [advance EXCEPT ![a] = k] /\ UNCHANGED <<chain, clock, lag>>
  BY DEF Bump, Sets
<1> HIDE DEF k, n
<1>5. head' \in [HeadNames -> [extra : Nat, rate : Rates \cup {0}, anchor : 0..clock]]
  BY <1>3, <1>4, BumpHead DEF HeadInv
<1>6. ASSUME NEW h \in HeadNames PROVE moved'[h] \in Int /\ head'[h].extra >= moved'[h]
  <2>1. head[h].extra \in Nat /\ moved[h] \in Int /\ head[h].extra >= moved[h]
    BY DEF HeadInv
  <2>2. moved[h] + n \in Int /\ head[h].extra + n >= moved[h] + n
    BY SMTT(60), <1>3, <2>1
  <2> QED BY <1>3, <1>4, <2>1, <2>2, BumpHead
<1>7. moved' \in [HeadNames -> Int]
  BY <1>4, <1>6
<1> QED BY <1>2, <1>4, <1>5, <1>6, <1>7, MoveKeeps

(* The answer of POST /advance changes no head. *)
LEMMA ReadKeeps ==
  ASSUME HeadInv, NEW a \in Advances, Read(a) PROVE HeadInv'
BY DoneType, CallKeeps DEF Read, Answers, Sets

(* The head part of a reset keeps the invariant. *)
LEMMA ResetHeadsKeeps ==
  ASSUME HeadInv, ResetHeads PROVE HeadInv'
<1>1. ASSUME NEW h \in HeadNames
      PROVE  /\ head'[h] \in [extra : Nat, rate : Rates \cup {0}, anchor : 0..clock]
             /\ head'[h].extra >= moved'[h]
  <2>1. head[h].anchor \in 0..clock
    BY DEF HeadInv
  <2>2. 0 \in Nat /\ 0 >= 0
    BY SMTT(60)
  <2>3. head'[h] = [extra |-> 0, rate |-> 0, anchor |-> head[h].anchor] /\ moved'[h] = 0
    BY DEF ResetHeads, reset_head
  <2>5. head'[h] \in [extra : Nat, rate : Rates \cup {0}, anchor : 0..clock]
    BY SMTT(60), <2>1, <2>3
  <2>6. head'[h].extra = 0
    BY SMTT(60), <2>3
  <2> QED BY <2>2, <2>3, <2>5, <2>6
<1>2. 0 \in Int
  BY SMTT(60)
<1>3. moved' \in [HeadNames -> Int]
  BY <1>2 DEF ResetHeads
<1>4. head' \in [HeadNames -> [extra : Nat, rate : Rates \cup {0}, anchor : 0..clock]]
  BY <1>1 DEF ResetHeads
<1> QED BY <1>1, <1>3, <1>4 DEF ResetHeads, HeadInv

(* Time keeps the invariant: an anchor stays in the past. *)
LEMMA TickKeeps ==
  ASSUME HeadInv, Tick PROVE HeadInv'
<1>1. clock' \in 0..MaxClock /\ \A n \in 0..clock : n \in 0..clock'
  <2>1. clock \in 0..MaxClock
    BY DEF HeadInv
  <2>2. \A m \in Nat : \A c \in 0..m : c < m => c + 1 \in 0..m /\ \A n \in 0..c : n \in 0..(c + 1)
    BY SMTT(60)
  <2>3. clock < MaxClock /\ clock' = clock + 1 /\ MaxClock \in Nat
    BY HeadAssumption DEF Tick
  <2> QED BY <2>1, <2>2, <2>3
<1>2. ASSUME NEW h \in HeadNames PROVE head[h] \in [extra : Nat, rate : Rates \cup {0}, anchor : 0..clock']
  BY <1>1 DEF HeadInv
<1>3. head' \in [HeadNames -> [extra : Nat, rate : Rates \cup {0}, anchor : 0..clock']]
  BY <1>2 DEF Tick, HeadInv
<1> QED BY <1>1, <1>3 DEF Tick, HeadInv

(* Every step keeps the invariant. *)
LEMMA HeadInvNext == HeadInv /\ [HeadsNext]_headVars => HeadInv'
<1> SUFFICES ASSUME HeadInv, [HeadsNext]_headVars PROVE HeadInv'
  OBVIOUS
<1>1. CASE \E a \in Advances : AdvanceStep(a)
  BY <1>1, BeginKeeps, SetRateKeeps, BumpKeeps, ReadKeeps DEF AdvanceStep
<1>2. CASE ResetHeads
  BY <1>2, ResetHeadsKeeps
<1>3. CASE Tick
  BY <1>3, TickKeeps
<1>4. ASSUME NEW p \in Providers, SetLag(p) PROVE HeadInv'
  BY <1>4 DEF SetLag, HeadInv
<1>5. ASSUME NEW p \in Providers, Reply(p) PROVE HeadInv'
  BY <1>5 DEF Reply, HeadInv
<1>6. CASE UNCHANGED headVars
  BY <1>6 DEF headVars, HeadInv
<1> QED BY <1>1, <1>2, <1>3, <1>4, <1>5, <1>6 DEF HeadsNext

(* The state of the heads has its type, a head is at least as far above its base as bumps added, *)
(* and a call that was accepted adds no negative number of blocks (AdvancingHead, advance).      *)
THEOREM HeadsCorrect == HeadsSpec => []HeadInv
BY HeadInvInit, HeadInvNext, PTL DEF HeadsSpec

(* No bump of POST /advance is lost to a change of the rate (AdvancingHead.set_rate, bump). *)
THEOREM BumpsSurvive == HeadsSpec => []BumpsKept
<1>1. HeadInv => BumpsKept
  BY DEF HeadInv, BumpsKept, HeadsTypeOK, Advance
<1> QED BY <1>1, HeadsCorrect, PTL

-----------------------------------------------------------------------------
(* A head that keeps its rate and its anchor, and loses no extra, does not move backward. *)
LEMMA ForwardByExtra ==
  ASSUME HeadInv, HeadInv', NEW h \in HeadNames, clock' = clock,
         head'[h].rate = head[h].rate, head'[h].anchor = head[h].anchor, head'[h].extra >= head[h].extra
  PROVE  current(h)' >= current(h)
<1>1. head[h] \in HeadRecord /\ clock \in Nat /\ head[h].anchor <= clock
  BY HeadIsRecord
<1>2. Elapsed(head[h]) \in Nat /\ head[h].extra \in Nat
  BY <1>1, ElapsedType DEF HeadRecord
<1>3. Elapsed(head[h])' = Elapsed(head[h])
  BY DEF Elapsed
<1>4. head'[h].extra \in Nat
  BY DEF HeadInv
<1>5. /\ current(h)' = Base + head'[h].extra + Elapsed(head[h])'
      /\ current(h) = Base + head[h].extra + Elapsed(head[h])
  BY DEF current
<1>6. \A b, x, y, e \in Nat : y >= x => b + y + e >= b + x + e
  BY SMTT(60)
<1> QED BY <1>2, <1>3, <1>4, <1>5, <1>6, HeadAssumption

(* A head whose rate is set keeps its height. *)
LEMMA ForwardByRate ==
  ASSUME HeadInv, HeadInv', NEW h \in HeadNames, clock' = clock, NEW r \in Rates \cup {0},
         head'[h] = set_rate(head[h], r)
  PROVE  current(h)' >= current(h)
<1>1. head[h] \in HeadRecord /\ clock \in Nat /\ head[h].anchor <= clock
  BY HeadIsRecord
<1>2. Elapsed(head[h]) \in Nat /\ head[h].extra \in Nat
  BY <1>1, ElapsedType DEF HeadRecord
<1>3. head'[h].extra = head[h].extra + Elapsed(head[h]) /\ head'[h].anchor = clock
  BY SetRateHead
<1>4. head'[h].rate \in Int
  BY SMTT(60), HeadAssumption DEF set_rate
<1>5. Elapsed(head[h])' = 0
  <2>1. Elapsed(head[h])' = IF head'[h].rate > 0 THEN ((clock - clock) * head'[h].rate) \div 2 ELSE 0
    BY <1>3 DEF Elapsed
  <2>2. \A c, q \in Int : ((c - c) * q) \div 2 = 0
    BY SMTT(60)
  <2>3. clock \in Int
    BY SMTT(60), <1>1
  <2> QED BY <1>4, <2>1, <2>2, <2>3
<1>6. /\ current(h)' = Base + head'[h].extra + Elapsed(head[h])'
      /\ current(h) = Base + head[h].extra + Elapsed(head[h])
  BY DEF current
<1>7. \A b, x, e \in Nat : b + (x + e) + 0 >= b + x + e
  BY SMTT(60)
<1> QED BY <1>2, <1>3, <1>5, <1>6, <1>7, HeadAssumption

(* A head does not move backward while time passes. *)
LEMMA ForwardByTime ==
  ASSUME HeadInv, NEW h \in HeadNames, clock' = clock + 1, head' = head
  PROVE  current(h)' >= current(h)
<1>1. head[h] \in HeadRecord /\ clock \in Nat /\ head[h].anchor <= clock
  BY HeadIsRecord
<1>2. Elapsed(head[h]) \in Nat /\ head[h].extra \in Nat
  BY <1>1, ElapsedType DEF HeadRecord
<1> DEFINE n == clock - head[h].anchor
           r == head[h].rate
<1>3. n \in Nat /\ r \in Int /\ (clock + 1) - head[h].anchor = n + 1
  BY SMTT(60), <1>1 DEF HeadRecord
<1>4. Elapsed(head[h]) = IF r > 0 THEN (n * r) \div 2 ELSE 0
  BY DEF Elapsed
<1>4a. Elapsed(head[h])' = IF r > 0 THEN ((n + 1) * r) \div 2 ELSE 0
  <2>1. Elapsed(head[h])' = IF head'[h].rate > 0 THEN ((clock' - head'[h].anchor) * head'[h].rate) \div 2 ELSE 0
    BY DEF Elapsed
  <2>2. head'[h].anchor = head[h].anchor /\ head'[h].rate = r
    OBVIOUS
  <2>3. clock' - head'[h].anchor = n + 1
    <3>1. clock' - head'[h].anchor = (clock + 1) - head[h].anchor
      BY <2>2
    <3> HIDE DEF n
    <3> QED BY <1>3, <3>1
  <2> HIDE DEF n, r
  <2> QED BY <2>1, <2>2, <2>3
<1> HIDE DEF n, r
<1>5. r > 0 => (n * r) \div 2 \in Nat /\ ((n + 1) * r) \div 2 >= (n * r) \div 2 /\ ((n + 1) * r) \div 2 \in Nat
  <2>1. n + 1 \in Nat
    BY SMTT(60), <1>3
  <2> QED BY <1>3, <2>1, Halves
<1>6. 0 \in Nat /\ 0 >= 0
  BY SMTT(60)
<1>7. Elapsed(head[h])' \in Nat /\ Elapsed(head[h])' >= Elapsed(head[h])
  BY <1>4, <1>4a, <1>5, <1>6
<1>8. /\ current(h)' = Base + head[h].extra + Elapsed(head[h])'
      /\ current(h) = Base + head[h].extra + Elapsed(head[h])
  BY DEF current
<1>9. \A b, x, e, f \in Nat : f >= e => b + x + f >= b + x + e
  BY SMTT(60)
<1> QED BY <1>2, <1>7, <1>8, <1>9, HeadAssumption

(* Nothing moves. *)
LEMMA StillStep ==
  ASSUME HeadInv, HeadInv', head' = head, clock' = clock
  PROVE  NeverBackwardStep /\ NoHeadGuessedStep
<1>1. ASSUME NEW h \in HeadNames PROVE current(h)' >= current(h)
  <2>1. head[h].extra \in Nat
    BY DEF HeadInv
  <2>2. head'[h].extra >= head[h].extra
    BY SMTT(60), <2>1
  <2> QED BY <2>2, ForwardByExtra
<1>2. iter_heads \subseteq HeadNames
  BY DEF iter_heads, HeadNames
<1> QED BY <1>1, <1>2 DEF NeverBackwardStep, NoHeadGuessedStep

(* set_rate moves no head backward, and only the head that the call names. *)
LEMMA SetRateForward ==
  ASSUME HeadInv, HeadInv', NEW a \in Advances, SetRate(a)
  PROVE  NeverBackwardStep /\ NoHeadGuessedStep
<1>1. CASE head' = head
  BY <1>1, StillStep DEF SetRate
<1>2. CASE head' # head
  <2>1. PICK h \in ChosenHead(advance[a]) : head' = [head EXCEPT ![h] = set_rate(head[h], advance[a].per_second)]
    BY <1>2 DEF SetRate
  <2>2. h \in HeadNames /\ (Cardinality(iter_heads) > 1 => "head" \in advance[a].has /\ advance[a].name = h)
    BY ChosenFacts
  <2>3. advance[a].per_second \in Rates \cup {0} /\ advance[a].pc = "rate" /\ clock' = clock
    BY DEF HeadInv, SetRate
  <2>4. head'[h] = set_rate(head[h], advance[a].per_second) /\ \A g \in HeadNames \ {h} : head'[g] = head[g]
    BY <2>1, <2>2 DEF HeadInv
  <2>5. ASSUME NEW g \in HeadNames PROVE current(g)' >= current(g)
    <3>1. CASE g = h
      BY <2>2, <2>3, <2>4, <3>1, ForwardByRate
    <3>2. CASE g # h
      <4>1. head'[g] = head[g] /\ head[g].extra \in Nat
        BY <2>4, <3>2 DEF HeadInv
      <4>2. head'[g].extra >= head[g].extra
        BY SMTT(60), <4>1
      <4> QED BY <2>3, <4>1, <4>2, ForwardByExtra
    <3> QED BY <3>1, <3>2
  <2>6. iter_heads \subseteq HeadNames
    BY DEF iter_heads, HeadNames
  <2>7. NeverBackwardStep
    BY <2>5, <2>6 DEF NeverBackwardStep
  <2>8. NoHeadGuessedStep
    BY <2>2, <2>3, <2>4, <2>6 DEF NoHeadGuessedStep
  <2> QED BY <2>7, <2>8
<1> QED BY <1>1, <1>2

(* bump moves no head backward, and only the head that the call names. *)
LEMMA BumpForward ==
  ASSUME HeadInv, HeadInv', NEW a \in Advances, Bump(a)
  PROVE  NeverBackwardStep /\ NoHeadGuessedStep
<1> DEFINE n == advance[a].blocks
<1>1. n \in Nat
  <2>1. n \in Int /\ n >= 0
    BY DEF HeadInv, Advance
  <2> QED BY SMTT(60), <2>1
<1>2. /\ head' = [h \in HeadNames |-> IF h \in ChosenHead(advance[a]) THEN bump(head[h], n) ELSE head[h]]
      /\ clock' = clock /\ advance[a].pc = "bump"
  BY DEF Bump
<1> HIDE DEF n
<1>3. iter_heads \subseteq HeadNames
  BY DEF iter_heads, HeadNames
<1>4. ASSUME NEW h \in HeadNames PROVE current(h)' >= current(h)
  <2>1. head[h].extra \in Nat /\ head[h].extra + n >= head[h].extra /\ head[h].extra >= head[h].extra
    <3>1. head[h].extra \in Nat
      BY DEF HeadInv
    <3> QED BY SMTT(60), <1>1, <3>1
  <2>2. /\ head'[h].rate = head[h].rate /\ head'[h].anchor = head[h].anchor
        /\ head'[h].extra >= head[h].extra
    BY <1>1, <1>2, <2>1, BumpHead
  <2> QED BY <1>2, <2>2, ForwardByExtra
<1>5. NeverBackwardStep
  BY <1>3, <1>4 DEF NeverBackwardStep
<1>6. NoHeadGuessedStep
  BY <1>2, <1>3, ChosenFacts DEF NoHeadGuessedStep
<1> QED BY <1>5, <1>6

(* A head moves backward only by a reset, and only the head that a call names moves. *)
LEMMA HeadsForwardStep ==
  ASSUME HeadInv, HeadInv', [HeadsNext]_headVars
  PROVE  [NeverBackwardStep /\ NoHeadGuessedStep]_headVars
<1>1. ASSUME NEW a \in Advances, AdvanceStep(a) PROVE NeverBackwardStep /\ NoHeadGuessedStep
  <2>1. CASE Begin(a)
    BY <2>1, StillStep DEF Begin
  <2>2. CASE Read(a)
    BY <2>2, StillStep DEF Read
  <2> QED BY <1>1, <2>1, <2>2, SetRateForward, BumpForward DEF AdvanceStep
<1>2. CASE ResetHeads
  <2>1. \A h \in HeadNames : head'[h] = reset_head(head[h])
    BY <1>2 DEF ResetHeads
  <2>2. iter_heads \subseteq HeadNames
    BY DEF iter_heads, HeadNames
  <2> QED BY <2>1, <2>2 DEF NeverBackwardStep, NoHeadGuessedStep
<1>3. CASE Tick
  <2>1. iter_heads \subseteq HeadNames
    BY DEF iter_heads, HeadNames
  <2>2. clock' = clock + 1 /\ head' = head
    BY <1>3 DEF Tick
  <2>3. \A h \in HeadNames : current(h)' >= current(h)
    BY <2>2, ForwardByTime
  <2> QED BY <2>1, <2>2, <2>3 DEF NeverBackwardStep, NoHeadGuessedStep
<1>4. ASSUME NEW p \in Providers, SetLag(p) \/ Reply(p) PROVE NeverBackwardStep /\ NoHeadGuessedStep
  BY <1>4, StillStep DEF SetLag, Reply
<1> QED BY <1>1, <1>2, <1>3, <1>4 DEF HeadsNext

(* However the calls of POST /advance interleave, a head moves backward only by a reset, and *)
(* of several heads only the one that a call names moves (AdvancingHead, control_api.advance). *)
THEOREM HeadsGoForward == HeadsSpec => HeadsMoveForward
BY HeadsCorrect, HeadsForwardStep, PTL DEF HeadsSpec, HeadsMoveForward

-----------------------------------------------------------------------------
(* The replies *)

(* The height that the replies about the tip show. *)
TipAt(h, l) ==
  CASE chain = "sui"  -> IF AtLeast0(h - l) > MaxCheckpoint THEN MaxCheckpoint ELSE AtLeast0(h - l)
    [] chain = "lava" -> AtLeast0(h - l)
    [] OTHER          -> h - l

(* The hash of the block that a request names. *)
HashOf(a) == IF chain \in {"btc", "sui"} THEN a.n ELSE 0

(* What a reply shows: the tip and its hash, or the hash of the block that it names, *)
(* and nothing above the head or the index.                                         *)
Good(m, a, h, l, g, s) ==
  /\ a = None /\ m \in TipMethods =>
       /\ s.heights \subseteq {TipAt(h, l)}
       /\ m \in {"getbestblockhash", "getblockchaininfo", "getblockhash", "getblock"} => s.hash \subseteq {TipAt(h, l)}
  /\ a.tag = "number" => s.hash \subseteq {HashOf(a)}
  /\ a.tag = "number" /\ s.heights # {} /\ ((m = "eth_getBlockByNumber" /\ l # 0) \/ m = "checkpoint") => a.n <= AtLeast0(h - l)
  /\ m = "eth_getLogs" /\ g # "off" /\ (a.n > IndexedUpTo \/ (a.tag = "latest" /\ h - l > IndexedUpTo))
       => \A n \in s.heights : n <= IndexedUpTo

ReplyInv == \A r \in replies : Good(r.method, r.arg, r.head, r.lag, r.logs, r.shows)

(* The invariant says what the property says. *)
LEMMA ReplyInvAgrees == ReplyInv => HeightsAgree
<1> SUFFICES ASSUME ReplyInv PROVE HeightsAgree
  OBVIOUS
<1>1. SameTip
  <2> SUFFICES ASSUME NEW r \in replies, NEW s \in replies, AboutTip(r), AboutTip(s), r.head = s.head, r.lag = s.lag,
                      NEW m \in About(r) \cup About(s), NEW n \in About(r) \cup About(s)
               PROVE  m = n
    BY DEF SameTip
  <2>1. About(r) \subseteq {TipAt(r.head, r.lag)} /\ About(s) \subseteq {TipAt(r.head, r.lag)}
    BY DEF ReplyInv, Good, About, AboutTip
  <2> QED BY <2>1
<1>2. SameHash
  BY DEF SameHash, ReplyInv, Good
<1>3. NoneAboveTip
  BY DEF NoneAboveTip, ReplyInv, Good
<1>4. LogsWithinIndex
  BY DEF LogsWithinIndex, ReplyInv, Good
<1> QED BY <1>1, <1>2, <1>3, <1>4 DEF HeightsAgree

(* The parameters of the requests are apart. *)
LEMMA Args ==
  ASSUME NEW a \in {None, Junk} \cup Numbers \cup Tags
  PROVE  /\ a = None => a.tag = "none" /\ a.n = 0
         /\ a = Junk => a.tag = "junk" /\ a.n = 0
         /\ a \in Numbers => a.tag = "number" /\ a.n \in Int
         /\ a \in Tags => a.tag \in {"latest", "earliest", "pending", "safe", "finalized"} /\ a.n = 0
         /\ a.n \in Int /\ (a.tag # "number" => a.n = 0)
<1>0. 0 \in Int
  BY SMTT(60)
<1>1. None.tag = "none" /\ None.n = 0 /\ Junk.tag = "junk" /\ Junk.n = 0
  BY DEF None, Junk, Arg
<1>2. ASSUME a \in Numbers PROVE a.tag = "number" /\ a.n \in Int
  <2>1. PICK n \in Heights : a = Arg("number", n)
    BY <1>2 DEF Numbers
  <2>2. a.tag = "number" /\ a.n = n
    BY <2>1 DEF Arg
  <2> QED BY <2>2, HeadAssumption
<1>3. ASSUME a \in Tags PROVE a.tag \in {"latest", "earliest", "pending", "safe", "finalized"} /\ a.n = 0
  <2>1. PICK t \in {"latest", "earliest", "pending", "safe", "finalized"} : a = Arg(t, 0)
    BY <1>3 DEF Tags
  <2>2. a.tag = t /\ a.n = 0
    BY <2>1 DEF Arg
  <2> QED BY <2>2
<1> QED BY <1>0, <1>1, <1>2, <1>3

(* A reply that shows nothing. *)
LEMMA GoodNothing ==
  ASSUME NEW m, NEW a, NEW h, NEW l, NEW g PROVE Good(m, a, h, l, g, Nothing)
<1>1. Nothing.heights = {} /\ Nothing.hash = {}
  BY DEF Nothing, Shows
<1> QED BY <1>1 DEF Good

(* A reply about the tip. *)
LEMMA GoodTip ==
  ASSUME NEW m, m # "eth_getLogs", NEW h, NEW l, NEW g, NEW heights, NEW hash, heights \subseteq {TipAt(h, l)},
         m \in {"getbestblockhash", "getblockchaininfo", "getblockhash", "getblock"} => hash \subseteq {TipAt(h, l)}
  PROVE  Good(m, None, h, l, g, Shows(heights, hash))
<1>1. Shows(heights, hash).heights = heights /\ Shows(heights, hash).hash = hash
  BY DEF Shows
<1>2. None.tag = "none"
  BY DEF None, Arg
<1> QED BY <1>1, <1>2 DEF Good

(* A reply about a block that the request names. *)
LEMMA GoodNumber ==
  ASSUME NEW m, m # "eth_getLogs", NEW a \in Numbers, NEW h, NEW l, NEW g, NEW heights, NEW hash, hash \subseteq {HashOf(a)},
         heights # {} /\ ((m = "eth_getBlockByNumber" /\ l # 0) \/ m = "checkpoint") => a.n <= AtLeast0(h - l)
  PROVE  Good(m, a, h, l, g, Shows(heights, hash))
<1>1. Shows(heights, hash).heights = heights /\ Shows(heights, hash).hash = hash
  BY DEF Shows
<1>2. a.tag = "number" /\ a # None
  BY Args
<1> QED BY <1>1, <1>2 DEF Good

(* A reply to a tag, and to a parameter that is neither a number nor a tag. *)
LEMMA GoodOther ==
  ASSUME NEW m, m # "eth_getLogs", NEW a \in {Junk} \cup Tags, NEW h, NEW l, NEW g, NEW s
  PROVE  Good(m, a, h, l, g, s)
<1>1. a.tag # "number" /\ a # None
  BY Args
<1> QED BY <1>1 DEF Good

(* Solana. *)
LEMMA SolanaGood ==
  ASSUME chain = "solana", NEW p \in Providers, NEW m, NEW a, <<m, a>> \in Requests, NEW e \in {"none", "error", "result"}
  PROVE  Good(m, a, current(HeadOf(m)), lag[p], logs[p], build_success(p, m, a, e))
<1> DEFINE eff == current("default") - lag[p]
<1>1. m \in {"getSlot", "getLatestBlockhash", "getHealth"} /\ a = None
  BY DEF Requests
<1>2. HeadOf(m) = "default"
  BY DEF HeadOf
<1>3. build_success(p, m, a, e) \in {Nothing, Shows({eff}, {0})}
  BY <1>1 DEF build_success, Slot
<1>4. TipAt(current("default"), lag[p]) = eff
  BY DEF TipAt
<1> HIDE DEF eff
<1>5. Good(m, None, current("default"), lag[p], logs[p], Shows({eff}, {0}))
  BY <1>1, <1>4, GoodTip
<1>6. Good(m, None, current("default"), lag[p], logs[p], Nothing)
  BY GoodNothing
<1> QED BY <1>1, <1>2, <1>3, <1>5, <1>6

(* Bitcoin, and ln. *)
LEMMA BtcGood ==
  ASSUME chain = "btc", NEW p \in Providers, NEW m, NEW a, <<m, a>> \in Requests, NEW e \in {"none", "error", "result"}
  PROVE  Good(m, a, current(HeadOf(m)), lag[p], logs[p], build_success(p, m, a, e))
<1> DEFINE eff == current("default") - lag[p]
           Ok(s) == Good(m, a, current("default"), lag[p], logs[p], s)
<1>1. \/ m \in {"getblockcount", "getbestblockhash", "getblockchaininfo", "getinfo"} /\ a = None
      \/ m \in {"getblockhash", "getblock"} /\ a \in {None, Junk} \cup Numbers
  BY DEF Requests
<1>2. HeadOf(m) = "default"
  BY DEF HeadOf
<1>3. \/ build_success(p, m, a, e) = Nothing
      \/ build_success(p, m, a, e) = IF m = "getinfo" THEN getinfo(p) ELSE BtcSuccess(p, m, a)
  BY DEF build_success
<1>4. _restamp_head(eff) = Shows({eff}, {eff}) /\ Shows({eff}, {eff}).heights = {eff} /\ Shows({eff}, {eff}).hash = {eff}
  BY DEF _restamp_head, Shows
<1>t. TipAt(current("default"), lag[p]) = eff
  BY DEF TipAt
<1>5. m = "getinfo" => getinfo(p) = Shows({eff}, {})
  BY DEF getinfo
<1>6. m = "getblockcount" => BtcSuccess(p, m, a) = Shows({eff}, {})
  BY <1>4 DEF BtcSuccess
<1>7. m = "getbestblockhash" => BtcSuccess(p, m, a) = Shows({}, {eff})
  BY <1>4 DEF BtcSuccess
<1>8. m = "getblockchaininfo" => BtcSuccess(p, m, a) = Shows({eff}, {eff})
  BY <1>4 DEF BtcSuccess
<1>9. m = "getblockhash" => BtcSuccess(p, m, a) = getblockhash(p, a)
  BY DEF BtcSuccess
<1>10. m = "getblock" => BtcSuccess(p, m, a) = getblock(p, a)
  BY DEF BtcSuccess
<1>11. Ok(Nothing)
  BY GoodNothing
<1>12. CASE a = None
  <2>1. None # Junk /\ None.tag # "number"
    BY DEF None, Junk, Arg
  <2>2. getblockhash(p, a) = Shows({}, {eff}) /\ getblock(p, a) = Shows({eff}, {eff})
    BY <1>4, <1>12, <2>1 DEF getblockhash, getblock
  <2> HIDE DEF eff
  <2>3. m # "eth_getLogs" => Ok(Shows({eff}, {})) \/ m \in {"getbestblockhash", "getblockchaininfo", "getblockhash", "getblock"}
    BY <1>t, <1>12, GoodTip
  <2>4. m # "eth_getLogs" => Ok(Shows({}, {eff})) /\ Ok(Shows({eff}, {eff}))
    BY <1>t, <1>12, GoodTip
  <2> HIDE DEF Ok
  <2>6. Ok(build_success(p, m, a, e))
    BY <1>1, <1>3, <1>5, <1>6, <1>7, <1>8, <1>9, <1>10, <1>11, <2>2, <2>3, <2>4
  <2> QED BY <1>2, <2>6 DEF Ok
<1>13. CASE a = Junk
  BY <1>1, <1>2, <1>13, GoodOther, GoodTip
<1>14. CASE a \in Numbers
  <2>1. a # None /\ a # Junk /\ a.tag = "number" /\ HashOf(a) = a.n
    BY <1>14, Args DEF HashOf
  <2>2. getblockhash(p, a) = Shows({}, {a.n}) /\ getblock(p, a) = Shows({eff}, {a.n})
    BY <1>4, <2>1 DEF getblockhash, getblock
  <2> HIDE DEF eff
  <2>3. m \in {"getblockhash", "getblock"}
    BY <1>1, <2>1
  <2>4. Ok(Shows({}, {a.n})) /\ Ok(Shows({eff}, {a.n}))
    BY <1>14, <2>1, <2>3, GoodNumber
  <2> HIDE DEF Ok
  <2>5. Ok(build_success(p, m, a, e))
    BY <1>3, <1>9, <1>10, <1>11, <2>2, <2>3, <2>4
  <2> QED BY <1>2, <2>5 DEF Ok
<1> QED BY <1>1, <1>12, <1>13, <1>14

(* A height is a number. *)
LEMMA HeightType ==
  ASSUME HeadInv, NEW h \in HeadNames, NEW p \in Providers
  PROVE  current(h) \in Int /\ lag[p] \in Int /\ current(h) - lag[p] \in Int
<1>1. head[h] \in HeadRecord /\ clock \in Nat /\ head[h].anchor <= clock
  BY HeadIsRecord
<1>2. Elapsed(head[h]) \in Nat /\ head[h].extra \in Nat
  BY <1>1, ElapsedType DEF HeadRecord
<1>3. current(h) = Base + head[h].extra + Elapsed(head[h])
  BY DEF current
<1>4. \A b, x, e \in Nat : b + x + e \in Int
  BY SMTT(60)
<1>5. current(h) \in Int
  BY <1>2, <1>3, <1>4, HeadAssumption
<1>6. lag[p] \in Lags \cup {0} /\ \A q : q \in Lags \cup {0} => q \in Int
  <2>1. 0 \in Int
    BY SMTT(60)
  <2> QED BY <2>1, HeadAssumption DEF HeadInv
<1>7. \A x, y \in Int : x - y \in Int
  BY SMTT(60)
<1> QED BY <1>5, <1>6, <1>7

(* Sui. *)
LEMMA SuiGood ==
  ASSUME HeadInv, chain = "sui", NEW p \in Providers, NEW m, NEW a, <<m, a>> \in Requests, NEW e \in {"none", "error", "result"}
  PROVE  Good(m, a, current(HeadOf(m)), lag[p], logs[p], build_success(p, m, a, e))
<1> DEFINE eff == current("default") - lag[p]
           Ok(s) == Good(m, a, current("default"), lag[p], logs[p], s)
<1>1. (m \in {"serviceConfig", "transaction"} /\ a = None) \/ (m = "checkpoint" /\ a \in {None, Junk} \cup Numbers)
  BY DEF Requests
<1>2. HeadOf(m) = "default" /\ "default" \in HeadNames
  BY DEF HeadOf, HeadNames
<1>3. build_success(p, m, a, e) \in {Nothing, _stub(p, m, a)}
  BY DEF build_success
<1>4. TipAt(current("default"), lag[p]) = tip(p)
  BY DEF TipAt, tip
<1>5. eff \in Int /\ tip(p) <= AtLeast0(eff) /\ tip(p) \in Int /\ AtLeast0(eff) \in Int
  <2>1. eff \in Int
    BY <1>2, HeightType
  <2>2. tip(p) = IF AtLeast0(eff) > MaxCheckpoint THEN MaxCheckpoint ELSE AtLeast0(eff)
    BY DEF tip
  <2> HIDE DEF eff
  <2>3. AtLeast0(eff) \in Int /\ MaxCheckpoint \in Int
    BY SMTT(60), <2>1, HeadAssumption DEF AtLeast0, MaxCheckpoint
  <2> QED BY SMTT(60), <2>1, <2>2, <2>3
<1>6. Ok(Nothing)
  BY GoodNothing
<1>7. CASE a = None
  <2>1. _stub(p, m, a) \in {Shows({tip(p)}, {tip(p)}), Shows({tip(p)}, {})}
    BY <1>7 DEF _stub, _checkpoint
  <2>2. Ok(Shows({tip(p)}, {tip(p)})) /\ Ok(Shows({tip(p)}, {}))
    BY <1>1, <1>4, <1>7, GoodTip
  <2> HIDE DEF Ok
  <2>3. Ok(build_success(p, m, a, e))
    BY <1>3, <1>6, <2>1, <2>2
  <2> QED BY <1>2, <2>3 DEF Ok
<1>8. CASE a = Junk
  BY <1>1, <1>2, <1>8, GoodOther, GoodTip
<1>9. CASE a \in Numbers
  <2>1. a # None /\ a # Junk /\ a.tag = "number" /\ HashOf(a) = a.n /\ a.n \in Int
    BY <1>9, Args DEF HashOf
  <2>2. m = "checkpoint"
    BY <1>1, <2>1
  <2>3. _stub(p, m, a) = IF a.n > tip(p) THEN Nothing ELSE Shows({a.n}, {a.n})
    BY <2>1, <2>2 DEF _stub, _checkpoint
  <2>4. ~(a.n > tip(p)) => a.n <= AtLeast0(eff)
    BY SMTT(60), <1>5, <2>1
  <2>5. ~(a.n > tip(p)) => Ok(Shows({a.n}, {a.n}))
    BY <1>9, <2>1, <2>2, <2>4, GoodNumber
  <2> HIDE DEF Ok, eff
  <2>6. Ok(build_success(p, m, a, e))
    BY <1>3, <1>6, <2>3, <2>5
  <2> QED BY <1>2, <2>6 DEF Ok
<1> QED BY <1>1, <1>7, <1>8, <1>9

(* Lava. *)
LEMMA LavaGood ==
  ASSUME chain = "lava", NEW p \in Providers, NEW m, NEW a, <<m, a>> \in Requests, NEW e \in {"none", "error", "result"}
  PROVE  Good(m, a, current(HeadOf(m)), lag[p], logs[p], build_success(p, m, a, e))
<1> DEFINE t == AtLeast0(current(HeadOf(m)) - lag[p])
           Ok(s) == Good(m, a, current(HeadOf(m)), lag[p], logs[p], s)
<1>1. \/ m \in {"blocks/latest", "GetLatestBlock", "status", "abci_info"} /\ a = None
      \/ m = "blocks/{height}" /\ a \in Numbers
      \/ m \in {"block", "validators"} /\ a \in {None, Junk} \cup Numbers
  BY DEF Requests
<1>2. /\ m \in {"blocks/latest", "blocks/{height}"} => HeadOf(m) = "rest"
      /\ m = "GetLatestBlock" => HeadOf(m) = "grpc"
      /\ m \in {"status", "abci_info", "block", "validators"} => HeadOf(m) = "tendermintrpc"
  BY DEF HeadOf
<1>3. \/ build_success(p, m, a, e) = Nothing
      \/ build_success(p, m, a, e) = IF HeadOf(m) = "grpc" THEN _build_grpc(p, m)
                                     ELSE IF HeadOf(m) = "rest" THEN _build_rest(p, m, a) ELSE _build_tm(p, m, a)
  BY DEF build_success
<1>4. TipAt(current(HeadOf(m)), lag[p]) = t
  BY DEF TipAt
<1>5. Ok(Nothing)
  BY GoodNothing
<1>6. _build_grpc(p, m) = Shows({t}, {}) /\ Stamped(p, m) = Shows({t}, {})
  BY DEF _build_grpc, Stamped
<1>7. CASE a = None
  <2>1. None # Junk /\ None.tag # "number"
    BY DEF None, Junk, Arg
  <2>2. _build_tm(p, m, a) = Shows({t}, {}) /\ (m = "blocks/latest" => _build_rest(p, m, a) = Shows({t}, {}))
    BY <1>6, <1>7, <2>1 DEF _build_tm, _build_rest
  <2>3. m # "blocks/{height}"
    BY <1>1, <1>7, <2>1, Args
  <2>4. Ok(Shows({t}, {}))
    BY <1>1, <1>4, <1>7, GoodTip
  <2> HIDE DEF Ok, t
  <2>5. Ok(build_success(p, m, a, e))
    BY <1>1, <1>2, <1>3, <1>5, <1>6, <2>2, <2>3, <2>4
  <2> QED BY <2>5 DEF Ok
<1>8. CASE a = Junk
  BY <1>1, <1>8, GoodOther, GoodTip
<1>9. CASE a \in Numbers
  <2>1. a # None /\ a # Junk /\ a.tag = "number" /\ HashOf(a) = 0
    BY <1>9, Args DEF HashOf
  <2>2. _build_tm(p, m, a) = Shows({a.n}, {0}) /\ (m = "blocks/{height}" => _build_rest(p, m, a) = Shows({a.n}, {0}))
    BY <2>1 DEF _build_tm, _build_rest
  <2>3. m \in {"blocks/{height}", "block", "validators"}
    BY <1>1, <2>1
  <2>4. Ok(Shows({a.n}, {0}))
    BY <1>9, <2>1, <2>3, GoodNumber
  <2> HIDE DEF Ok, t
  <2>5. Ok(build_success(p, m, a, e))
    BY <1>2, <1>3, <1>5, <2>2, <2>3, <2>4
  <2> QED BY <2>5 DEF Ok
<1> QED BY <1>1, <1>7, <1>8, <1>9

(* eth_getLogs, of a result that the test gave. *)
LEMMA LogsGood ==
  ASSUME HeadInv, NEW p \in Providers, NEW a \in {None, Junk} \cup Numbers \cup Tags
  PROVE  Good("eth_getLogs", a, current("default"), lag[p], logs[p], eth_getLogs(p, a))
<1> DEFINE eff == current("default") - lag[p]
<1>1. IndexedUpTo \in Int /\ IndexedUpTo > 0 /\ eff \in Int /\ a.n \in Int /\ (a.tag # "number" => a.n = 0)
  <2>1. IndexedUpTo \in Int /\ IndexedUpTo > 0
    BY SMTT(60), HeadAssumption DEF IndexedUpTo
  <2>2. "default" \in HeadNames
    BY DEF HeadNames
  <2> QED BY <2>1, <2>2, HeightType, Args
<1>2. "eth_getLogs" \notin TipMethods
  BY DEF TipMethods
<1>3. eth_getLogs(p, a).hash = {}
  BY DEF eth_getLogs, Shows
<1>4. ASSUME logs[p] # "off", PastIndex(p, a), NEW n \in eth_getLogs(p, a).heights PROVE n <= IndexedUpTo
  BY <1>4 DEF eth_getLogs, Shows
<1>5. ASSUME a.n > IndexedUpTo \/ (a.tag = "latest" /\ eff > IndexedUpTo) PROVE PastIndex(p, a)
  <2>1. CASE a.n > IndexedUpTo
    <3>1. a.tag = "number"
      BY SMTT(60), <1>1, <2>1
    <3>2. ToBlock(p, a) = {a.n}
      BY <3>1 DEF ToBlock
    <3> QED BY <2>1, <3>2 DEF PastIndex
  <2>2. CASE a.tag = "latest" /\ eff > IndexedUpTo
    <3>1. ToBlock(p, a) = {eff}
      BY <2>2 DEF ToBlock
    <3> QED BY <2>2, <3>1 DEF PastIndex
  <2> QED BY <1>5, <2>1, <2>2
<1> QED BY <1>2, <1>3, <1>4, <1>5 DEF Good

(* Ethereum. *)
LEMMA EthGood ==
  ASSUME HeadInv, chain = "eth", NEW p \in Providers, NEW m, NEW a, <<m, a>> \in Requests, NEW e \in {"none", "error", "result"}
  PROVE  Good(m, a, current(HeadOf(m)), lag[p], logs[p], build_success(p, m, a, e))
<1> DEFINE eff == current("default") - lag[p]
           Ok(s) == Good(m, a, current("default"), lag[p], logs[p], s)
<1>1. \/ m = "eth_blockNumber" /\ a = None
      \/ m \in {"eth_getBlockByNumber", "eth_getLogs"} /\ a \in {None, Junk} \cup Numbers \cup Tags
  BY DEF Requests
<1>2. HeadOf(m) = "default" /\ "default" \in HeadNames
  BY DEF HeadOf, HeadNames
<1>3. build_success(p, m, a, e) \in {Nothing, EthSuccess(p, m, a, e)}
  BY DEF build_success
<1>4. TipAt(current("default"), lag[p]) = eff
  BY DEF TipAt
<1>5. Ok(Nothing)
  BY GoodNothing
<1>6. CASE m = "eth_blockNumber" /\ a = None
  <2>1. EthSuccess(p, m, a, e) \in {Nothing, Shows({eff}, {})}
    BY <1>6 DEF EthSuccess
  <2>2. Ok(Shows({eff}, {}))
    BY <1>4, <1>6, GoodTip
  <2> HIDE DEF Ok, eff
  <2>3. Ok(build_success(p, m, a, e))
    BY <1>3, <1>5, <2>1, <2>2
  <2> QED BY <1>2, <2>3 DEF Ok
<1>7. CASE m = "eth_getLogs"
  <2>1. EthSuccess(p, m, a, e) \in {Nothing, eth_getLogs(p, a)}
    BY <1>7 DEF EthSuccess
  <2>2. Ok(eth_getLogs(p, a))
    BY <1>1, <1>7, LogsGood
  <2> HIDE DEF Ok, eff
  <2>3. Ok(build_success(p, m, a, e))
    BY <1>3, <1>5, <2>1, <2>2
  <2> QED BY <1>2, <2>3 DEF Ok
<1>8. CASE m = "eth_getBlockByNumber"
  <2>1. m \notin TipMethods
    BY <1>8 DEF TipMethods
  <2>2. CASE a = None
    <3>1. None.tag # "number"
      BY DEF None, Arg
    <3> QED BY <1>8, <2>1, <2>2, <3>1 DEF Good
  <2>3. CASE a \in {Junk} \cup Tags
    BY <1>8, <2>3, GoodOther
  <2>4. CASE a \in Numbers
    <3>1. a # None /\ a # Junk /\ a.tag = "number" /\ HashOf(a) = 0 /\ a.n \in Int
      BY <2>4, Args DEF HashOf
    <3>2. EthSuccess(p, m, a, e) = eth_getBlockByNumber(p, a)
      BY <1>8 DEF EthSuccess
    <3>3. eth_getBlockByNumber(p, a) = IF AboveHead(p, a) THEN Nothing ELSE Shows({a.n}, {0})
      BY <3>1 DEF eth_getBlockByNumber
    <3>4. ~AboveHead(p, a) /\ lag[p] # 0 => a.n <= AtLeast0(eff)
      <4>1. eff \in Int
        BY <1>2, HeightType
      <4>2. ~AboveHead(p, a) /\ lag[p] # 0 => ~(a.n > eff)
        BY <3>1 DEF AboveHead
      <4> HIDE DEF eff
      <4>3. ~(a.n > eff) => a.n <= AtLeast0(eff)
        BY SMTT(60), <3>1, <4>1 DEF AtLeast0
      <4> QED BY <4>2, <4>3
    <3>5. ~AboveHead(p, a) => Ok(Shows({a.n}, {0}))
      BY <1>8, <2>4, <3>1, <3>4, GoodNumber
    <3> HIDE DEF Ok, eff
    <3>6. Ok(build_success(p, m, a, e))
      BY <1>3, <1>5, <3>2, <3>3, <3>5
    <3> QED BY <1>2, <3>6 DEF Ok
  <2> QED BY <1>1, <1>8, <2>2, <2>3, <2>4
<1> QED BY <1>1, <1>6, <1>7, <1>8

(* Every reply is good when it is given. *)
LEMMA SuccessGood ==
  ASSUME HeadInv, NEW p \in Providers, NEW r \in Requests, NEW e \in {"none", "error", "result"}
  PROVE  Good(r[1], r[2], current(HeadOf(r[1])), lag[p], logs[p], build_success(p, r[1], r[2], e))
<1>1. chain \in {"eth", "btc", "solana", "sui", "lava"}
  BY HeadAssumption DEF HeadInv
<1>2. <<r[1], r[2]>> \in Requests
  <2>1. r = <<r[1], r[2]>>
    <3>1. \A S, T : \A q \in S \X T : q = <<q[1], q[2]>>
      BY SMTT(60)
    <3>2. CASE chain = "eth"
      <4>1. \/ r = <<"eth_blockNumber", None>>
            \/ r \in {"eth_getBlockByNumber", "eth_getLogs"} \X ({None, Junk} \cup Numbers \cup Tags)
        BY <3>2 DEF Requests
      <4>2. \A x, y, q : q = <<x, y>> => q = <<q[1], q[2]>>
        BY SMTT(60)
      <4> QED BY <3>1, <4>1, <4>2
    <3>3. CASE chain = "btc"
      BY <3>1, <3>3 DEF Requests
    <3>4. CASE chain = "solana"
      BY <3>1, <3>4 DEF Requests
    <3>5. CASE chain = "sui"
      BY <3>1, <3>5 DEF Requests
    <3>6. CASE chain = "lava"
      BY <3>1, <3>6 DEF Requests
    <3> QED BY <1>1, <3>2, <3>3, <3>4, <3>5, <3>6
  <2> QED BY <2>1
<1>3. CASE chain = "eth"
  BY <1>2, <1>3, EthGood
<1>4. CASE chain = "btc"
  BY <1>2, <1>4, BtcGood
<1>5. CASE chain = "solana"
  BY <1>2, <1>5, SolanaGood
<1>6. CASE chain = "sui"
  BY <1>2, <1>6, SuiGood
<1>7. CASE chain = "lava"
  BY <1>2, <1>7, LavaGood
<1> QED BY <1>1, <1>3, <1>4, <1>5, <1>6, <1>7

(* A reply that was kept stays good: it holds its own head and lag. *)
LEMMA ReplyInvNext ==
  ASSUME HeadInv, ReplyInv, [HeadsNext]_headVars PROVE ReplyInv'
<1>1. ASSUME chain' = chain, replies' = replies PROVE ReplyInv'
  BY <1>1 DEF ReplyInv, Good, TipAt, HashOf
<1>2. ASSUME NEW p \in Providers, Reply(p) PROVE ReplyInv'
  <2>1. PICK r \in Requests, e \in {"none", "error", "result"} :
          replies' = IF build_success(p, r[1], r[2], e) = Nothing THEN replies
                     ELSE replies \cup {[provider |-> p, method |-> r[1], arg |-> r[2], head |-> current(HeadOf(r[1])),
                                         lag |-> lag[p], logs |-> logs[p], shows |-> build_success(p, r[1], r[2], e)]}
    BY <1>2 DEF Reply
  <2> DEFINE x == [provider |-> p, method |-> r[1], arg |-> r[2], head |-> current(HeadOf(r[1])),
                   lag |-> lag[p], logs |-> logs[p], shows |-> build_success(p, r[1], r[2], e)]
  <2>2. Good(x.method, x.arg, x.head, x.lag, x.logs, x.shows)
    BY SuccessGood
  <2>3. \A y \in replies' : y \in replies \/ y = x
    BY <2>1
  <2> HIDE DEF x
  <2>4. \A y \in replies' : Good(y.method, y.arg, y.head, y.lag, y.logs, y.shows)
    BY <2>2, <2>3 DEF ReplyInv
  <2>5. chain' = chain
    BY <1>2 DEF Reply
  <2> QED BY <2>4, <2>5 DEF ReplyInv, Good, TipAt, HashOf
<1>3. ASSUME NEW a \in Advances, AdvanceStep(a) PROVE ReplyInv'
  BY <1>1, <1>3 DEF AdvanceStep, Begin, SetRate, Bump, Read
<1>4. CASE ResetHeads \/ Tick
  BY <1>1, <1>4 DEF ResetHeads, Tick
<1>5. ASSUME NEW p \in Providers, SetLag(p) PROVE ReplyInv'
  BY <1>1, <1>5 DEF SetLag
<1>6. CASE UNCHANGED headVars
  BY <1>1, <1>6 DEF headVars
<1> QED BY <1>2, <1>3, <1>4, <1>5, <1>6 DEF HeadsNext

(* Replies about one head agree on its height and hash, replies about one block agree on its  *)
(* hash, and none shows a block above its head or a log above its index (build_success of each chain).       *)
THEOREM RepliesAgree == HeadsSpec => []HeightsAgree
<1>1. HeadsInit => ReplyInv
  BY DEF HeadsInit, ReplyInv
<1> QED BY <1>1, HeadsCorrect, ReplyInvNext, ReplyInvAgrees, PTL DEF HeadsSpec
=============================================================================
