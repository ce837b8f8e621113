-------------------------- MODULE SuiTransactions ---------------------------
(***************************************************************************)
(* The memory of executed transactions of one Sui provider: the GraphQL    *)
(* listener (listeners/graphql.py) takes the time and a copy of the memory,*)
(* the chain (chains/sui.py) answers executeTransaction and transaction    *)
(* from them, and the listener then remembers what ran                     *)
(* (domain/provider.py).  Requests run in threads of their own, beside a   *)
(* scenario reset.                                                         *)
(*                                                                         *)
(* A digest stands for the transaction data it is computed from.           *)
(***************************************************************************)
EXTENDS Integers, Sequences, FiniteSets

CONSTANTS Digests,
          SuiRequests,           \* the requests of the provider
          Lag,                   \* transaction_index_lag_ms, in ticks
          EXECUTED_MEMORY_CAP,
          MaxClock, MaxResets    \* bounds

ASSUME TransactionAssumption == EXECUTED_MEMORY_CAP \in Nat \ {0} /\ Lag \in Nat

VARIABLES clock,
          memory,         \* Provider._executed: the digests and times, oldest first
          stage,          \* stage[r]: where the thread of request r stands
          ask,            \* ask[r]: the request: its kind, digests and time, and the runs known then
          snapshot,       \* snapshot[r]: the copy of the memory that r reads
          executed_now,   \* executed_now[r]: what r ran and did not remember yet
          answer,         \* answer[r]: what a lookup gets, "transaction" or "null"
          resets,         \* scenario resets so far
          ran             \* the runs that were remembered since the last reset, oldest first

suiVars == <<clock, memory, stage, ask, snapshot, executed_now, answer, resets, ran>>

Run(d, t) == [digest |-> d, at |-> t]
Ask(kind, ds, now, known) == [kind |-> kind, digests |-> ds, now |-> now, known |-> known]
NotAsked == Ask("none", <<>>, 0, <<>>)

SuiInit ==
  /\ clock = 0 /\ memory = <<>> /\ resets = 0 /\ ran = <<>>
  /\ stage = [r \in SuiRequests |-> "new"] /\ ask = [r \in SuiRequests |-> NotAsked]
  /\ snapshot = [r \in SuiRequests |-> <<>>] /\ executed_now = [r \in SuiRequests |-> <<>>]
  /\ answer = [r \in SuiRequests |-> "none"]

DigestsOf(s) == {s[i].digest : i \in DOMAIN s}
TimeIn(s, d) == s[CHOOSE i \in DOMAIN s : s[i].digest = d].at

Moves(r, from, to) == stage[r] = from /\ stage' = [stage EXCEPT ![r] = to]

(* GraphQLListener.build_content: the time comes first.  A mutation may    *)
(* execute two transactions; known keeps what had run by now.              *)
Arrive(r) ==
  /\ Moves(r, "new", "snapshot")
  /\ \/ \E d \in Digests : ask' = [ask EXCEPT ![r] = Ask("lookup", <<d>>, clock, ran)]
     \/ \E d, e \in Digests : \E ds \in {<<d>>, <<d, e>>} : ask' = [ask EXCEPT ![r] = Ask("execute", ds, clock, <<>>)]
  /\ UNCHANGED <<clock, memory, snapshot, executed_now, answer, resets, ran>>

(* Provider.executed_snapshot, which only a lookup reads. *)
TakeSnapshot(r) ==
  /\ Moves(r, "snapshot", "build")
  /\ snapshot' = [snapshot EXCEPT ![r] = IF ask[r].kind = "lookup" THEN memory ELSE <<>>]
  /\ UNCHANGED <<clock, memory, ask, executed_now, answer, resets, ran>>

(* The digest ran here, and the delay of the index has passed. *)
Indexed(snap, d, now) == d \in DigestsOf(snap) /\ now - TimeIn(snap, d) >= Lag

(* SuiChain._transaction *)
_transaction(snap, d, now) == IF Lag = 0 \/ Indexed(snap, d, now) THEN "transaction" ELSE "null"

Lookup(r) ==
  /\ ask[r].kind = "lookup" /\ Moves(r, "build", "done")
  /\ answer' = [answer EXCEPT ![r] = _transaction(snapshot[r], ask[r].digests[1], ask[r].now)]
  /\ snapshot' = [snapshot EXCEPT ![r] = <<>>]
  /\ UNCHANGED <<clock, memory, ask, executed_now, resets, ran>>

(* SuiChain._execute, for each root of the mutation: a text that is not    *)
(* base64 runs nothing.                                                    *)
Execute(r) ==
  /\ ask[r].kind = "execute" /\ Moves(r, "build", "remember")
  /\ \E readable \in {<<>>, ask[r].digests} : executed_now' = [executed_now EXCEPT ![r] = readable]
  /\ UNCHANGED <<clock, memory, ask, snapshot, answer, resets, ran>>

Evict(s) == IF Len(s) > EXECUTED_MEMORY_CAP THEN Tail(s) ELSE s

(* Mutant of remember_executed: a digest that ran before takes the new     *)
(* time.                                                                   *)
RememberLatest(d, t) == Evict(Append(SelectSeq(memory, LAMBDA e : e.digest # d), Run(d, t)))

remember_executed(d, t) == IF d \in DigestsOf(memory) THEN memory ELSE Evict(Append(memory, Run(d, t)))

(* The loop over executed_now, one digest a step. *)
Remember(r) ==
  /\ stage[r] = "remember" /\ executed_now[r] # <<>>
  /\ memory' = remember_executed(Head(executed_now[r]), ask[r].now)
  /\ ran' = Append(ran, Run(Head(executed_now[r]), ask[r].now))
  /\ executed_now' = [executed_now EXCEPT ![r] = Tail(@)]
  /\ UNCHANGED <<clock, stage, ask, snapshot, answer, resets>>

Remembered(r) ==
  /\ executed_now[r] = <<>> /\ Moves(r, "remember", "done")
  /\ UNCHANGED <<clock, memory, ask, snapshot, executed_now, answer, resets, ran>>

(* Provider.forget_executed, of a scenario reset. *)
forget_executed ==
  /\ resets < MaxResets /\ resets' = resets + 1
  /\ memory' = <<>> /\ ran' = <<>>
  /\ UNCHANGED <<clock, stage, ask, snapshot, executed_now, answer>>

Tick ==
  /\ clock < MaxClock /\ clock' = clock + 1
  /\ UNCHANGED <<memory, stage, ask, snapshot, executed_now, answer, resets, ran>>

SuiNext ==
  \/ \E r \in SuiRequests : Arrive(r) \/ TakeSnapshot(r) \/ Lookup(r) \/ Execute(r) \/ Remember(r) \/ Remembered(r)
  \/ forget_executed \/ Tick

SuiSpec == SuiInit /\ [][SuiNext]_suiVars

-----------------------------------------------------------------------------
(* Properties *)

Lookups == {r \in SuiRequests : ask[r].kind = "lookup" /\ stage[r] = "done"}

(* At most EXECUTED_MEMORY_CAP digests are kept, each of them once. *)
MemoryBounded ==
  /\ Len(memory) <= EXECUTED_MEMORY_CAP
  /\ \A i, j \in DOMAIN memory : memory[i].digest = memory[j].digest => i = j

(* With a delay, a lookup finds only a digest that this provider executed, *)
(* and only after the delay has passed since that run (SuiQuirks).         *)
FoundOnlyIfRun ==
  \A r \in Lookups : Lag > 0 /\ answer[r] = "transaction" =>
    \E q \in SuiRequests :
      /\ ask[q].kind = "execute" /\ ask[q].now + Lag <= ask[r].now
      /\ \E i \in DOMAIN ask[q].digests : ask[q].digests[i] = ask[r].digests[1]

(* A digest that one of the last runs executed, no more of them than the   *)
(* cap, is found by every lookup that starts after the delay: neither a    *)
(* second run nor another request hides it.  Only a reset may do so.       *)
RunsFound ==
  \A r \in Lookups :
    LET d == ask[r].digests[1]
        known == ask[r].known
    IN (resets = 0 /\ Cardinality(DigestsOf(ran)) <= EXECUTED_MEMORY_CAP
          /\ \E i \in DOMAIN known : known[i].digest = d /\ known[i].at + Lag <= ask[r].now
               /\ \A j \in 1..(i - 1) : known[j].digest # d)
         => answer[r] = "transaction"

(* A digest that one of the last runs executed, no more of them than the   *)
(* cap, is found by every lookup that starts after the delay, unless a     *)
(* reset came; a lookup finds only a digest that ran, and only after the   *)
(* delay; no more digests are kept than the cap.                           *)
ReadAfterWrite == RunsFound /\ FoundOnlyIfRun /\ MemoryBounded

(* The time of a digest is that of its first run. *)
(* The code does not keep it: README, section 7.  *)
FirstRunKept ==
  \A k \in DOMAIN memory, i \in DOMAIN ran : ran[i].digest = memory[k].digest => memory[k].at <= ran[i].at
=============================================================================
