------------------------------ MODULE CallLog -------------------------------
(***************************************************************************)
(* The call log of one provider (provider_simulator/domain/call_log.py): a *)
(* ring buffer of history rows, the counters behind GET /stats, and the    *)
(* generation number that tells a row of before the last clear() from a    *)
(* row of after it.                                                        *)
(*                                                                         *)
(* A row is built, with its timestamp, outside the lock of the log, and    *)
(* logged under it: two steps, between which another thread may clear the  *)
(* log.  A timestamp is abstracted to the number of clears before it was   *)
(* taken; method, latency, request id and headers are left out.            *)
(***************************************************************************)
EXTENDS Naturals, Sequences, FiniteSets

CONSTANTS Rows,        \* the row objects that requests build
          Statuses,    \* the status labels, "in_flight" among them
          HistoryMax,  \* the length of the ring buffer
          MaxClears    \* bound: calls of clear()

ASSUME LogAssumption ==
  /\ IsFiniteSet(Rows)
  /\ "in_flight" \in Statuses
  /\ HistoryMax \in Nat \ {0}
  /\ MaxClears \in Nat

VARIABLES history,    \* the ring buffer, oldest row first
          total,      \* total_calls
          byStatus,   \* calls_by_status: only the statuses that have a key
          gen,        \* the reset generation
          built,      \* rows built and not logged yet
          logged,     \* rows handed out by record_arrival or push
          status,     \* status[r]
          rowGen,     \* rowGen[r]: the generation stamped on the row
          stamp       \* stamp[r]: the clears that came before its timestamp

vars == <<history, total, byStatus, gen, built, logged, status, rowGen, stamp>>

(* deque(maxlen=history_max).append *)
PushRow(h, r) == IF Len(h) = HistoryMax THEN Append(Tail(h), r) ELSE Append(h, r)

Count(b, s) == IF s \in DOMAIN b THEN b[s] ELSE 0

Increment(b, s) == [x \in DOMAIN b \cup {s} |-> IF x = s THEN Count(b, s) + 1 ELSE b[x]]

(* A key is dropped when its count comes to zero. *)
Decrement(b, s) ==
  IF Count(b, s) > 1 THEN [b EXCEPT ![s] = @ - 1] ELSE [x \in DOMAIN b \ {s} |-> b[x]]

Init ==
  /\ history = <<>>
  /\ total = 0
  /\ byStatus = [s \in {} |-> 0]
  /\ gen = 0
  /\ built = {} /\ logged = {}
  /\ status = [r \in Rows |-> "in_flight"]
  /\ rowGen = [r \in Rows |-> 0]
  /\ stamp = [r \in Rows |-> 0]

(* _new_entry, outside the lock: record_arrival builds an in_flight stub, *)
(* push a row with a final status.                                        *)
NewEntry(r, s) ==
  /\ r \notin built \cup logged
  /\ built' = built \cup {r}
  /\ status' = [status EXCEPT ![r] = s]
  /\ stamp' = [stamp EXCEPT ![r] = gen]
  /\ UNCHANGED <<history, total, byStatus, gen, logged, rowGen>>

(* Append a row, count it and stamp it with the generation. *)
Enter(r, s) ==
  /\ history' = PushRow(history, r)
  /\ total' = total + 1
  /\ byStatus' = Increment(byStatus, s)
  /\ rowGen' = [rowGen EXCEPT ![r] = gen]

(* The locked part of record_arrival and of push. *)
LogEntry(r) ==
  /\ r \in built
  /\ Enter(r, status[r])
  /\ built' = built \ {r}
  /\ logged' = logged \cup {r}
  /\ UNCHANGED <<gen, status, stamp>>

(* finalize after a clear(): the row enters the log again with a fresh timestamp. *)
FinalizeCleared(r, s) ==
  /\ r \in logged
  /\ rowGen[r] # gen
  /\ Enter(r, s)
  /\ status' = [status EXCEPT ![r] = s]
  /\ stamp' = [stamp EXCEPT ![r] = gen]
  /\ UNCHANGED <<gen, built, logged>>

(* Mutant of FinalizeInPlace: the generation is not looked at. *)
FinalizeAnyGen(r, s) ==
  /\ r \in logged
  /\ status[r] # s
  /\ byStatus' = Increment(Decrement(byStatus, status[r]), s)
  /\ status' = [status EXCEPT ![r] = s]
  /\ UNCHANGED <<history, total, gen, built, logged, rowGen, stamp>>

(* finalize in the generation of the arrival: the count moves from the old      *)
(* status to the new one, also for a row that the ring buffer already dropped.  *)
FinalizeInPlace(r, s) ==
  /\ r \in logged
  /\ rowGen[r] = gen
  /\ status[r] # s
  /\ byStatus' = Increment(Decrement(byStatus, status[r]), s)
  /\ status' = [status EXCEPT ![r] = s]
  /\ UNCHANGED <<history, total, gen, built, logged, rowGen, stamp>>

Finalize(r, s) == FinalizeCleared(r, s) \/ FinalizeInPlace(r, s)

Clear ==
  /\ gen < MaxClears
  /\ history' = <<>>
  /\ total' = 0
  /\ byStatus' = [s \in {} |-> 0]
  /\ gen' = gen + 1
  /\ UNCHANGED <<built, logged, status, rowGen, stamp>>

Next ==
  \/ \E r \in Rows, s \in Statuses : NewEntry(r, s)
  \/ \E r \in Rows : LogEntry(r)
  \/ \E r \in Rows, s \in Statuses \ {"in_flight"} : Finalize(r, s)
  \/ Clear

Spec == Init /\ [][Next]_vars

-----------------------------------------------------------------------------
(* Properties.                                                             *)

(* Every variable keeps its type; the ring buffer never exceeds its length. *)
TypeOK ==
  /\ history \in Seq(Rows) /\ Len(history) <= HistoryMax
  /\ total \in Nat
  /\ DOMAIN byStatus \subseteq Statuses
  /\ byStatus \in [DOMAIN byStatus -> Nat]
  /\ gen \in Nat
  /\ built \subseteq Rows
  /\ logged \subseteq Rows \ built
  /\ status \in [Rows -> Statuses]
  /\ rowGen \in [Rows -> Nat]
  /\ stamp \in [Rows -> Nat]

(* The rows the counters stand for: those whose generation is the log's. *)
Counted == {r \in logged : rowGen[r] = gen}

(* The counters count each request of this generation exactly once, under the *)
(* status it has now, however clear() and finalize() interleave and also when *)
(* rollover dropped the row; no status lingers with a count of zero           *)
(* (finalize: "Re-append ... and re-count so total_calls and the buffer stay  *)
(* consistent", "so /stats never shows a lingering in_flight: 0").            *)
CountersAgree ==
  /\ total = Cardinality(Counted)
  /\ \A s \in Statuses : Count(byStatus, s) = Cardinality({r \in Counted : status[r] = s})
  /\ \A s \in DOMAIN byStatus : byStatus[s] > 0

(* The buffer holds each row once, only rows of this generation, and as many  *)
(* of them as fit: a row is missing only by rollover, and no finalize after a *)
(* clear() brings a row in twice.                                             *)
HistoryExact ==
  /\ \A i, j \in 1..Len(history) : i # j => history[i] # history[j]
  /\ \A i \in 1..Len(history) : history[i] \in Counted
  /\ Len(history) = IF total < HistoryMax THEN total ELSE HistoryMax

(* What finalize() promises of the log: "post-clear history never carries     *)
(* pre-clear timestamps".                                                     *)
(* The code does not keep it: README, section 7.                              *)
PostClearTimestamps ==
  \A i \in 1..Len(history) : stamp[history[i]] = gen

(* What CONTEXT.md says of the stats: "The counters that never reset". *)
(* The code does not keep it: README, section 7.                       *)
CountersNeverReset == [][total' >= total]_vars
=============================================================================
