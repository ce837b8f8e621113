--------------------------- MODULE ProviderProofs ---------------------------
(***************************************************************************)
(* What a provider remembers.  The counters and the ring buffer of a call  *)
(* log are exact for any number of rows, statuses, clears and any buffer   *)
(* length; the memory of executed transactions of a Sui provider serves    *)
(* reads after writes, for any cap, delay and number of requests.          *)
(***************************************************************************)
EXTENDS CallLog, SuiTransactions, FiniteSetTheorems, TLAPS

USE ZenonT(60)

(* No row carries a generation of the future: with it, the rows counted      *)
(* after a clear() are none, and the other conjuncts become inductive.       *)
NoFutureRow == \A r \in Rows : rowGen[r] <= gen

LogInv == TypeOK /\ NoFutureRow /\ CountersAgree /\ HistoryExact

(* What deque.append does to the ring buffer: the new row is the last one, *)
(* the others move down by one place when the buffer was full.             *)
LEMMA PushRowFacts ==
  ASSUME NEW h \in Seq(Rows), Len(h) <= HistoryMax, NEW r \in Rows
  PROVE  LET p == PushRow(h, r)
             k == IF Len(h) = HistoryMax THEN 1 ELSE 0
         IN  /\ p \in Seq(Rows)
             /\ Len(p) = Len(h) + 1 - k
             /\ p[Len(p)] = r
             /\ \A i \in 1..(Len(p) - 1) : i + k \in 1..Len(h) /\ p[i] = h[i + k]
<1> DEFINE p == PushRow(h, r)
<1>1. CASE Len(h) = HistoryMax
  <2>1. h # << >> /\ Len(h) \in Nat \ {0}
    BY <1>1, LogAssumption
  <2>2. /\ Tail(h) \in Seq(Rows) /\ Len(Tail(h)) = Len(h) - 1
        /\ \A i \in 1..Len(Tail(h)) : Tail(h)[i] = h[i + 1]
    BY SMTT(60), <2>1
  <2>3. p = Append(Tail(h), r)
    BY <1>1 DEF PushRow
  <2> QED
    BY SMTT(60), <1>1, <2>1, <2>2, <2>3
<1>2. CASE Len(h) # HistoryMax
  <2>1. p = Append(h, r)
    BY <1>2 DEF PushRow
  <2> QED
    BY SMTT(60), <1>2, <2>1
<1> QED
  BY <1>1, <1>2

(* A counter table: its keys are statuses and no count is zero. *)
Table(b) ==
  /\ DOMAIN b \subseteq Statuses
  /\ b \in [DOMAIN b -> Nat]
  /\ \A s \in DOMAIN b : b[s] > 0

(* Incrementing a status adds one to its count and to no other. *)
LEMMA IncrementFacts ==
  ASSUME NEW b, Table(b), NEW s \in Statuses
  PROVE  /\ Table(Increment(b, s))
         /\ \A x \in Statuses :
              Count(Increment(b, s), x) = IF x = s THEN Count(b, x) + 1 ELSE Count(b, x)
BY SMTT(60) DEF Table, Increment, Count

(* Decrementing a status that has a count takes one from it and from no other, *)
(* and leaves no key with a count of zero.                                     *)
LEMMA DecrementFacts ==
  ASSUME NEW b, Table(b), NEW s \in Statuses, Count(b, s) > 0
  PROVE  /\ Table(Decrement(b, s))
         /\ \A x \in Statuses :
              Count(Decrement(b, s), x) = IF x = s THEN Count(b, x) - 1 ELSE Count(b, x)
BY SMTT(60) DEF Table, Decrement, Count

(* The empty log is consistent. *)
LEMMA InitLogInv == Init => LogInv
<1> SUFFICES ASSUME Init PROVE LogInv
  OBVIOUS
<1> USE LogAssumption DEF Init
<1>1. TypeOK /\ NoFutureRow
  BY SMTT(60) DEF TypeOK, NoFutureRow
<1>2. Counted = {} /\ \A s \in Statuses : {r \in Counted : status[r] = s} = {}
  BY DEF Counted
<1>3. CountersAgree
  BY <1>2, FS_EmptySet DEF CountersAgree, Count
<1>4. HistoryExact
  BY SMTT(60) DEF HistoryExact
<1> QED
  BY <1>1, <1>3, <1>4 DEF LogInv

(* Entering a row that is not counted keeps the ring buffer exact. *)
LEMMA EnterHistory ==
  ASSUME LogInv, NEW r \in Rows, r \notin Counted, NEW s \in Statuses, Enter(r, s),
         Counted' = Counted \cup {r}
  PROVE  /\ history' \in Seq(Rows) /\ Len(history') <= HistoryMax
         /\ HistoryExact'
<1> DEFINE k == IF Len(history) = HistoryMax THEN 1 ELSE 0
<1> USE LogAssumption
<1>1. /\ history \in Seq(Rows) /\ Len(history) <= HistoryMax
      /\ total \in Nat /\ HistoryExact
      /\ history' = PushRow(history, r) /\ total' = total + 1
  BY DEF LogInv, TypeOK, Enter
<1>2. /\ history' \in Seq(Rows)
      /\ Len(history') = Len(history) + 1 - k
      /\ history'[Len(history')] = r
      /\ \A i \in 1..(Len(history') - 1) : i + k \in 1..Len(history) /\ history'[i] = history[i + k]
  BY <1>1, PushRowFacts
<1>k. k \in {0, 1} /\ Len(history) \in Nat /\ Len(history') \in Nat
  BY SMTT(60), <1>1, <1>2
<1>3. Len(history') <= HistoryMax
  BY SMTT(60), <1>1, <1>2
<1>4. \A i \in 1..Len(history') : history'[i] \in Counted'
  BY SMTT(60), <1>1, <1>2 DEF HistoryExact
<1>5. ASSUME NEW i \in 1..Len(history'), NEW j \in 1..Len(history'), i # j
      PROVE  history'[i] # history'[j]
  <2>1. \A n \in 1..(Len(history') - 1) : history'[n] # r
    BY SMTT(60), <1>1, <1>2 DEF HistoryExact
  <2>2. CASE i = Len(history') \/ j = Len(history')
    <3>1. history'[Len(history')] = r
      BY <1>2
    <3>2. CASE i = Len(history')
      <4>1. j \in 1..(Len(history') - 1)
        BY SMTT(60), <1>k, <1>5, <3>2
      <4> QED
        BY <2>1, <3>1, <3>2, <4>1
    <3>3. CASE j = Len(history')
      <4>1. i \in 1..(Len(history') - 1)
        BY SMTT(60), <1>k, <1>5, <3>3
      <4> QED
        BY <2>1, <3>1, <3>3, <4>1
    <3> QED
      BY <2>2, <3>2, <3>3
  <2>3. CASE i # Len(history') /\ j # Len(history')
    <3> HIDE DEF k
    <3>1. i \in 1..(Len(history') - 1) /\ j \in 1..(Len(history') - 1) /\ i + k # j + k
      BY SMTT(60), <2>3, <1>k, <1>5
    <3>2. /\ i + k \in 1..Len(history) /\ history'[i] = history[i + k]
          /\ j + k \in 1..Len(history) /\ history'[j] = history[j + k]
      BY <3>1, <1>2
    <3> QED
      BY <3>1, <3>2, <1>1 DEF HistoryExact
  <2> QED
    BY <2>2, <2>3
<1>6. Len(history') = IF total' < HistoryMax THEN total' ELSE HistoryMax
  BY SMTT(60), <1>1, <1>2 DEF HistoryExact
<1> QED
  BY <1>2, <1>3, <1>4, <1>5, <1>6 DEF HistoryExact

(* Entering a row that is not counted, and giving it the status it is counted *)
(* under, keeps the counters exact.                                           *)
LEMMA EnterCounters ==
  ASSUME LogInv, NEW r \in Rows, r \notin Counted, NEW s \in Statuses, Enter(r, s),
         Counted' = Counted \cup {r},
         \A q \in Counted : status'[q] = status[q], status'[r] = s
  PROVE  /\ total' \in Nat
         /\ DOMAIN byStatus' \subseteq Statuses /\ byStatus' \in [DOMAIN byStatus' -> Nat]
         /\ CountersAgree'
<1> DEFINE With(x) == {q \in Counted : status[q] = x}
<1>1. /\ Table(byStatus) /\ total \in Nat
      /\ byStatus' = Increment(byStatus, s) /\ total' = total + 1
  BY DEF LogInv, TypeOK, CountersAgree, Table, Enter
<1>2. /\ IsFiniteSet(Counted) /\ \A x : IsFiniteSet(With(x))
      /\ Counted \subseteq Rows
  <2>1. Counted \in SUBSET Rows /\ \A x : With(x) \in SUBSET Rows
    BY DEF LogInv, TypeOK, Counted
  <2> HIDE DEF With
  <2> QED
    BY <2>1, FS_Subset, LogAssumption
<1>3. /\ Table(byStatus')
      /\ \A x \in Statuses : Count(byStatus', x) = IF x = s THEN Count(byStatus, x) + 1 ELSE Count(byStatus, x)
  BY <1>1, IncrementFacts
<1>4. total' = Cardinality(Counted')
  BY <1>1, <1>2, FS_AddElement DEF LogInv, CountersAgree
<1>5. ASSUME NEW x \in Statuses
      PROVE  Count(byStatus', x) = Cardinality({q \in Counted' : status'[q] = x})
  <2>1. {q \in Counted' : status'[q] = x} = IF x = s THEN With(x) \cup {r} ELSE With(x)
    OBVIOUS
  <2>2. Count(byStatus, x) = Cardinality(With(x)) /\ r \notin With(x)
    BY DEF LogInv, CountersAgree
  <2> HIDE DEF With
  <2>3. Cardinality(With(x) \cup {r}) = Cardinality(With(x)) + 1
    BY <1>2, <2>2, FS_AddElement
  <2> QED
    BY <1>3, <2>1, <2>2, <2>3
<1> QED
  BY SMTT(60), <1>1, <1>3, <1>4, <1>5 DEF CountersAgree, Table

(* Moving a counted row from its status to another moves its count. *)
LEMMA MoveCounters ==
  ASSUME LogInv, NEW r \in Counted, NEW s \in Statuses, status[r] # s,
         byStatus' = Increment(Decrement(byStatus, status[r]), s),
         status' = [status EXCEPT ![r] = s],
         Counted' = Counted, total' = total
  PROVE  /\ DOMAIN byStatus' \subseteq Statuses /\ byStatus' \in [DOMAIN byStatus' -> Nat]
         /\ CountersAgree'
<1> DEFINE With(x) == {q \in Counted : status[q] = x}
           old == status[r]
<1>1. /\ Table(byStatus) /\ old \in Statuses /\ Counted \subseteq Rows /\ status \in [Rows -> Statuses]
  BY DEF LogInv, TypeOK, CountersAgree, Table, Counted
<1>2. \A x : IsFiniteSet(With(x))
  <2>1. \A x : With(x) \in SUBSET Rows
    BY <1>1
  <2> HIDE DEF With
  <2> QED
    BY <2>1, FS_Subset, LogAssumption
<1>3. \A x \in Statuses : Count(byStatus, x) = Cardinality(With(x))
  BY DEF LogInv, CountersAgree
<1>4. /\ Cardinality(With(s) \cup {r}) = Cardinality(With(s)) + 1
      /\ Cardinality(With(old) \ {r}) = Cardinality(With(old)) - 1
      /\ Cardinality(With(old) \ {r}) \in Nat /\ Cardinality(With(old)) \in Nat
  <2>1. r \notin With(s) /\ r \in With(old)
    OBVIOUS
  <2> HIDE DEF With
  <2> QED
    BY <1>2, <2>1, FS_AddElement, FS_RemoveElement, FS_CardinalityType
<1>5. Count(byStatus, old) > 0
  <2> HIDE DEF With
  <2> QED
    BY SMTT(60), <1>1, <1>3, <1>4
<1>6. /\ Table(byStatus')
      /\ \A x \in Statuses : Count(byStatus', x) =
           IF x = s THEN Count(byStatus, x) + 1
           ELSE IF x = old THEN Count(byStatus, x) - 1 ELSE Count(byStatus, x)
  <2>1. /\ Table(Decrement(byStatus, old))
        /\ \A x \in Statuses : Count(Decrement(byStatus, old), x) =
             IF x = old THEN Count(byStatus, x) - 1 ELSE Count(byStatus, x)
    BY <1>1, <1>5, DecrementFacts
  <2> QED
    BY SMTT(60), <2>1, IncrementFacts
<1>7. ASSUME NEW x \in Statuses
      PROVE  Count(byStatus', x) = Cardinality({q \in Counted' : status'[q] = x})
  <2>1. {q \in Counted' : status'[q] = x} =
          IF x = s THEN With(x) \cup {r} ELSE IF x = old THEN With(x) \ {r} ELSE With(x)
    BY <1>1
  <2> HIDE DEF With
  <2> QED
    BY <1>3, <1>4, <1>6, <2>1
<1> QED
  BY <1>6, <1>7 DEF CountersAgree, LogInv, Table

(* Every operation of the log keeps it consistent. *)
LEMMA NextLogInv == LogInv /\ [Next]_vars => LogInv'
<1> SUFFICES ASSUME LogInv, [Next]_vars PROVE LogInv'
  OBVIOUS
<1> USE LogAssumption
<1>t. TypeOK /\ NoFutureRow /\ CountersAgree /\ HistoryExact
  BY DEF LogInv
<1>1. ASSUME NEW r \in Rows, NEW s \in Statuses, NewEntry(r, s) PROVE LogInv'
  <2>1. Counted' = Counted /\ \A q \in Counted : status'[q] = status[q]
    BY <1>1, <1>t DEF NewEntry, TypeOK, Counted
  <2>2. TypeOK' /\ NoFutureRow'
    BY <1>1, <1>t DEF NewEntry, TypeOK, NoFutureRow
  <2>3. \A x : {q \in Counted' : status'[q] = x} = {q \in Counted : status[q] = x}
    BY <2>1
  <2>4. CountersAgree'
    BY <1>1, <1>t, <2>1, <2>3 DEF NewEntry, CountersAgree
  <2>5. HistoryExact'
    BY <1>1, <1>t, <2>1 DEF NewEntry, HistoryExact
  <2> QED
    BY <2>2, <2>4, <2>5 DEF LogInv
<1>2. ASSUME NEW r \in Rows, LogEntry(r) PROVE LogInv'
  <2>1. /\ r \notin Counted /\ status[r] \in Statuses /\ Enter(r, status[r])
        /\ Counted' = Counted \cup {r} /\ status' = status
    BY <1>2, <1>t DEF LogEntry, Enter, TypeOK, Counted
  <2>2. NoFutureRow'
    BY SMTT(60), <1>2, <1>t DEF LogEntry, Enter, TypeOK, NoFutureRow
  <2>3. /\ history' \in Seq(Rows) /\ Len(history') <= HistoryMax
        /\ HistoryExact'
    BY <2>1, EnterHistory
  <2>4. /\ total' \in Nat
        /\ DOMAIN byStatus' \subseteq Statuses /\ byStatus' \in [DOMAIN byStatus' -> Nat]
        /\ CountersAgree'
    BY <2>1, EnterCounters
  <2>5. TypeOK'
    BY <1>2, <1>t, <2>3, <2>4 DEF LogEntry, Enter, TypeOK
  <2> QED
    BY <2>2, <2>3, <2>4, <2>5 DEF LogInv
<1>3. ASSUME NEW r \in Rows, NEW s \in Statuses, FinalizeCleared(r, s) PROVE LogInv'
  <2>1. /\ r \notin Counted /\ Enter(r, s) /\ Counted' = Counted \cup {r}
        /\ \A q \in Counted : status'[q] = status[q]
        /\ status'[r] = s
    BY <1>3, <1>t DEF FinalizeCleared, Enter, TypeOK, Counted
  <2>2. NoFutureRow'
    BY SMTT(60), <1>3, <1>t DEF FinalizeCleared, Enter, TypeOK, NoFutureRow
  <2>3. /\ history' \in Seq(Rows) /\ Len(history') <= HistoryMax
        /\ HistoryExact'
    BY <2>1, EnterHistory
  <2>4. /\ total' \in Nat
        /\ DOMAIN byStatus' \subseteq Statuses /\ byStatus' \in [DOMAIN byStatus' -> Nat]
        /\ CountersAgree'
    BY <2>1, EnterCounters
  <2>5. TypeOK'
    BY <1>3, <1>t, <2>3, <2>4 DEF FinalizeCleared, Enter, TypeOK
  <2> QED
    BY <2>2, <2>3, <2>4, <2>5 DEF LogInv
<1>4. ASSUME NEW r \in Rows, NEW s \in Statuses, FinalizeInPlace(r, s) PROVE LogInv'
  <2>1. r \in Counted /\ status[r] # s /\ Counted' = Counted
    BY <1>4, <1>t DEF FinalizeInPlace, TypeOK, Counted
  <2>2. /\ DOMAIN byStatus' \subseteq Statuses /\ byStatus' \in [DOMAIN byStatus' -> Nat]
        /\ CountersAgree'
    BY <1>4, <2>1, MoveCounters DEF FinalizeInPlace
  <2>3. TypeOK' /\ NoFutureRow'
    BY <1>4, <1>t, <2>2 DEF FinalizeInPlace, TypeOK, NoFutureRow
  <2>4. HistoryExact'
    BY <1>4, <1>t, <2>1 DEF FinalizeInPlace, HistoryExact
  <2> QED
    BY <2>2, <2>3, <2>4 DEF LogInv
<1>5. ASSUME Clear PROVE LogInv'
  <2>1. Counted' = {}
    BY SMTT(60), <1>5, <1>t DEF Clear, TypeOK, NoFutureRow, Counted
  <2>2. TypeOK' /\ NoFutureRow'
    BY SMTT(60), <1>5, <1>t DEF Clear, TypeOK, NoFutureRow
  <2>3. \A x : {q \in Counted' : status'[q] = x} = {}
    BY <2>1
  <2>4. CountersAgree'
    BY <1>5, <2>1, <2>3, FS_EmptySet DEF Clear, CountersAgree, Count
  <2>5. HistoryExact'
    BY SMTT(60), <1>5 DEF Clear, HistoryExact
  <2> QED
    BY <2>2, <2>4, <2>5 DEF LogInv
<1>6. CASE UNCHANGED vars
  <2>1. Counted' = Counted
    BY <1>6 DEF vars, Counted
  <2> QED
    BY <1>6, <1>t, <2>1 DEF vars, LogInv, TypeOK, NoFutureRow, CountersAgree, HistoryExact
<1> QED
  BY <1>1, <1>2, <1>3, <1>4, <1>5, <1>6 DEF Next, Finalize

(* The strengthened invariant holds in every reachable state. *)
THEOREM LogInvariant == Spec => []LogInv
BY InitLogInv, NextLogInv, PTL DEF Spec

(* The variables of the log keep their types; the buffer keeps its length. *)
THEOREM LogTypes == Spec => []TypeOK
<1>1. LogInv => TypeOK
  BY DEF LogInv
<1> QED
  BY <1>1, LogInvariant, PTL

(* The counters of GET /stats count every request of the generation once,   *)
(* under its present status, for any interleaving of arrivals, finalize()   *)
(* and clear().                                                             *)
THEOREM CountersExact == Spec => []CountersAgree
<1>1. LogInv => CountersAgree
  BY DEF LogInv
<1> QED
  BY <1>1, LogInvariant, PTL

(* The ring buffer holds each row once, no row of before the last clear(),  *)
(* and as many rows as were entered or fit.                                 *)
THEOREM HistoryIsExact == Spec => []HistoryExact
<1>1. LogInv => HistoryExact
  BY DEF LogInv
<1> QED
  BY <1>1, LogInvariant, PTL

-----------------------------------------------------------------------------
(* The executed transactions of a Sui provider *)

SuiRun == [digest : Digests, at : Nat]
SuiAsk == [kind : {"none", "execute", "lookup"}, digests : Seq(Digests), now : Nat, known : Seq(SuiRun)]

SuiTypes ==
  /\ clock \in Nat /\ resets \in Nat /\ memory \in Seq(SuiRun) /\ ran \in Seq(SuiRun)
  /\ stage \in [SuiRequests -> {"new", "snapshot", "build", "remember", "done"}]
  /\ ask \in [SuiRequests -> SuiAsk] /\ snapshot \in [SuiRequests -> Seq(SuiRun)]
  /\ executed_now \in [SuiRequests -> Seq(Digests)] /\ answer \in [SuiRequests -> {"none", "transaction", "null"}]

(* A request asks for a digest; what is left of an execution is of its digests. *)
Asks(r) ==
  /\ ask[r].kind = "none" <=> stage[r] = "new"
  /\ stage[r] = "remember" => ask[r].kind = "execute"
  /\ stage[r] = "new" => executed_now[r] = <<>>
  /\ \A i \in DOMAIN executed_now[r] : \E j \in DOMAIN ask[r].digests : ask[r].digests[j] = executed_now[r][i]

(* A request executed the digest of this run, at its time. *)
Executes(q, run) ==
  /\ q.kind = "execute" /\ q.now = run.at
  /\ \E i \in DOMAIN q.digests : q.digests[i] = run.digest

MadeIn(requests, s) == \A i \in DOMAIN s : \E q \in SuiRequests : Executes(requests[q], s[i])

SuiInv ==
  /\ SuiTypes /\ MemoryBounded /\ FoundOnlyIfRun
  /\ MadeIn(ask, memory)
  /\ \A r \in SuiRequests : Asks(r) /\ MadeIn(ask, snapshot[r])

DistinctDigests(s) == \A i, j \in DOMAIN s : s[i].digest = s[j].digest => i = j

(* Evicting the oldest digest keeps the times and the distinct digests of the others. *)
LEMMA EvictKeeps ==
  ASSUME NEW s \in Seq(SuiRun), DistinctDigests(s), Len(s) <= EXECUTED_MEMORY_CAP + 1
  PROVE  /\ Evict(s) \in Seq(SuiRun) /\ Len(Evict(s)) <= EXECUTED_MEMORY_CAP /\ DistinctDigests(Evict(s))
         /\ \A i \in DOMAIN Evict(s) : \E j \in DOMAIN s : Evict(s)[i] = s[j]
<1>1. CASE Len(s) > EXECUTED_MEMORY_CAP
  <2>1. /\ Evict(s) = Tail(s) /\ Tail(s) \in Seq(SuiRun) /\ Len(Tail(s)) = Len(s) - 1
        /\ \A i \in 1..(Len(s) - 1) : Tail(s)[i] = s[i + 1]
    BY SMTT(60), <1>1, TransactionAssumption DEF Evict
  <2> QED BY SMTT(60), <1>1, <2>1, TransactionAssumption DEF DistinctDigests
<1>2. CASE Len(s) <= EXECUTED_MEMORY_CAP
  BY SMTT(60), <1>2, TransactionAssumption DEF Evict, DistinctDigests
<1> QED BY SMTT(60), <1>1, <1>2, TransactionAssumption

(* Remembering a digest keeps the memory bounded, its digests distinct and each of its entries *)
(* a run.                                                                                      *)
LEMMA RememberKeeps ==
  ASSUME SuiTypes, MemoryBounded, NEW d \in Digests, NEW t \in Nat
  PROVE  /\ remember_executed(d, t) \in Seq(SuiRun) /\ Len(remember_executed(d, t)) <= EXECUTED_MEMORY_CAP
         /\ DistinctDigests(remember_executed(d, t))
         /\ \A i \in DOMAIN remember_executed(d, t) :
              \/ remember_executed(d, t)[i] = Run(d, t)
              \/ \E j \in DOMAIN memory : remember_executed(d, t)[i] = memory[j]
<1>1. CASE d \in DigestsOf(memory)
  BY <1>1 DEF remember_executed, SuiTypes, MemoryBounded, DistinctDigests
<1>2. CASE d \notin DigestsOf(memory)
  <2> DEFINE s == Append(memory, Run(d, t))
  <2>1. /\ s \in Seq(SuiRun) /\ Len(s) = Len(memory) + 1 /\ s[Len(memory) + 1] = Run(d, t)
        /\ \A i \in DOMAIN memory : s[i] = memory[i]
    BY SMTT(60) DEF SuiTypes, SuiRun, Run
  <2>2. \A i \in DOMAIN memory : memory[i].digest # d
    BY <1>2 DEF DigestsOf
  <2>3. DistinctDigests(s)
    BY SMTT(60), <2>1, <2>2 DEF DistinctDigests, MemoryBounded, SuiTypes, Run
  <2>4. Len(s) <= EXECUTED_MEMORY_CAP + 1
    BY SMTT(60), <2>1, TransactionAssumption DEF MemoryBounded, SuiTypes
  <2>5. /\ Evict(s) \in Seq(SuiRun) /\ Len(Evict(s)) <= EXECUTED_MEMORY_CAP /\ DistinctDigests(Evict(s))
        /\ \A i \in DOMAIN Evict(s) : \E j \in DOMAIN s : Evict(s)[i] = s[j]
    BY <2>1, <2>3, <2>4, EvictKeeps
  <2>6. \A j \in DOMAIN s : s[j] = Run(d, t) \/ \E k \in DOMAIN memory : s[j] = memory[k]
    BY SMTT(60), <2>1 DEF SuiTypes
  <2>7. remember_executed(d, t) = Evict(s)
    BY <1>2 DEF remember_executed
  <2> HIDE DEF s
  <2> QED BY SMTT(60), <2>5, <2>6, <2>7
<1> QED BY <1>1, <1>2

(* The invariant holds when nothing has run. *)
LEMMA SuiInvInit == SuiInit => SuiInv
<1> SUFFICES ASSUME SuiInit PROVE SuiInv
  OBVIOUS
<1>1. SuiTypes
  BY SMTT(60) DEF SuiInit, SuiTypes, SuiAsk, NotAsked, Ask
<1>2. \A r \in SuiRequests : Asks(r) /\ MadeIn(ask, snapshot[r])
  BY SMTT(60) DEF SuiInit, NotAsked, Ask, Asks, MadeIn
<1>3. MemoryBounded /\ FoundOnlyIfRun /\ MadeIn(ask, memory)
  BY SMTT(60), TransactionAssumption DEF SuiInit, MemoryBounded, MadeIn, FoundOnlyIfRun, Lookups
<1> QED BY <1>1, <1>2, <1>3 DEF SuiInv

(* The request of an arrival. *)
LEMMA AskArrives ==
  ASSUME SuiTypes, NEW r \in SuiRequests, Arrive(r)
  PROVE  \E a \in SuiAsk : /\ ask' = [ask EXCEPT ![r] = a] /\ a.kind \in {"lookup", "execute"}
                           /\ a.kind = "lookup" => a.known = ran
<1>1. clock \in Nat /\ ran \in Seq(SuiRun) /\ <<>> \in Seq(SuiRun)
  BY SMTT(60) DEF SuiTypes
<1>2. CASE \E d \in Digests : ask' = [ask EXCEPT ![r] = Ask("lookup", <<d>>, clock, ran)]
  <2>1. PICK d \in Digests : ask' = [ask EXCEPT ![r] = Ask("lookup", <<d>>, clock, ran)]
    BY <1>2
  <2>2. <<d>> \in Seq(Digests)
    BY SMTT(60)
  <2>3. LET a == Ask("lookup", <<d>>, clock, ran) IN a \in SuiAsk /\ a.kind = "lookup" /\ a.known = ran
    BY <1>1, <2>2 DEF Ask, SuiAsk
  <2> QED BY <2>1, <2>3
<1>3. CASE \E d, e \in Digests : \E ds \in {<<d>>, <<d, e>>} : ask' = [ask EXCEPT ![r] = Ask("execute", ds, clock, <<>>)]
  <2>1. PICK d \in Digests, e \in Digests : \E ds \in {<<d>>, <<d, e>>} : ask' = [ask EXCEPT ![r] = Ask("execute", ds, clock, <<>>)]
    BY <1>3
  <2>2. PICK ds \in {<<d>>, <<d, e>>} : ask' = [ask EXCEPT ![r] = Ask("execute", ds, clock, <<>>)]
    BY <2>1
  <2>3. ds \in Seq(Digests)
    <3>1. <<d>> \in Seq(Digests) /\ <<d, e>> \in Seq(Digests)
      BY SMTT(60)
    <3> QED BY <3>1
  <2>4. LET a == Ask("execute", ds, clock, <<>>) IN a \in SuiAsk /\ a.kind = "execute"
    BY <1>1, <2>3 DEF Ask, SuiAsk
  <2> QED BY <2>2, <2>4
<1> QED BY <1>2, <1>3 DEF Arrive

(* A step that changes no request but one that is new keeps what was executed. *)
LEMMA SuiKeeps ==
  ASSUME SuiInv,
         \A q \in SuiRequests : ask'[q] = ask[q] \/ ask[q].kind = "none",
         \A q \in SuiRequests : Lag > 0 /\ answer'[q] = "transaction" /\ ask'[q].kind = "lookup" /\ stage'[q] = "done" =>
           /\ ask'[q] = ask[q]
           /\ \/ answer[q] = "transaction" /\ stage[q] = "done"
              \/ \E i \in DOMAIN snapshot[q] : /\ snapshot[q][i].digest = ask[q].digests[1]
                                               /\ snapshot[q][i].at + Lag <= ask[q].now
  PROVE  FoundOnlyIfRun' /\ \A s : MadeIn(ask, s) => MadeIn(ask', s)
<1>1. \A run : \A q \in SuiRequests : Executes(ask[q], run) => Executes(ask'[q], run)
  BY DEF Executes
<1>2. \A s : MadeIn(ask, s) => MadeIn(ask', s)
  BY <1>1 DEF MadeIn
<1>3. ASSUME NEW r \in SuiRequests, ask'[r].kind = "lookup", stage'[r] = "done", Lag > 0, answer'[r] = "transaction"
      PROVE  \E q \in SuiRequests :
               /\ ask'[q].kind = "execute" /\ ask'[q].now + Lag <= ask'[r].now
               /\ \E i \in DOMAIN ask'[q].digests : ask'[q].digests[i] = ask'[r].digests[1]
  <2>1. CASE answer[r] = "transaction" /\ stage[r] = "done"
    BY SMTT(60), <1>3, <2>1 DEF SuiInv, FoundOnlyIfRun, Lookups
  <2>2. ASSUME NEW i \in DOMAIN snapshot[r], snapshot[r][i].digest = ask[r].digests[1],
               snapshot[r][i].at + Lag <= ask[r].now
        PROVE  \E q \in SuiRequests :
                 /\ ask[q].kind = "execute" /\ ask[q].now + Lag <= ask[r].now
                 /\ \E j \in DOMAIN ask[q].digests : ask[q].digests[j] = ask[r].digests[1]
    BY SMTT(60), <2>2 DEF SuiInv, MadeIn, Executes
  <2> QED BY SMTT(60), <1>3, <2>1, <2>2
<1> QED BY <1>2, <1>3 DEF FoundOnlyIfRun, Lookups

(* A request that arrives keeps the invariant. *)
LEMMA SuiArrives ==
  ASSUME SuiInv, NEW r \in SuiRequests, Arrive(r)
  PROVE  SuiInv'
<1>1. PICK a \in SuiAsk : ask' = [ask EXCEPT ![r] = a] /\ a.kind \in {"lookup", "execute"}
  BY AskArrives DEF SuiInv
<1>3. ask' \in [SuiRequests -> SuiAsk] /\ ask'[r] = a /\ \A q \in SuiRequests \ {r} : ask'[q] = ask[q]
  BY <1>1 DEF SuiInv, SuiTypes
<1>4. /\ stage[r] = "new" /\ stage' = [stage EXCEPT ![r] = "snapshot"]
      /\ UNCHANGED <<clock, memory, snapshot, executed_now, answer, resets, ran>>
  BY DEF Arrive, Moves
<1>5. SuiTypes'
  BY <1>3, <1>4 DEF SuiInv, SuiTypes
<1>6. ask[r].kind = "none" /\ stage'[r] = "snapshot" /\ \A q \in SuiRequests \ {r} : stage'[q] = stage[q]
  BY <1>4 DEF SuiInv, Asks, SuiTypes
<1>7. FoundOnlyIfRun' /\ \A s : MadeIn(ask, s) => MadeIn(ask', s)
  BY <1>3, <1>4, <1>6, SuiKeeps
<1>8. executed_now[r] = <<>>
  BY <1>4, <1>6 DEF SuiInv, Asks, SuiTypes
<1>9. \A q \in SuiRequests : Asks(q)'
  BY SMTT(60), <1>1, <1>3, <1>4, <1>6, <1>8 DEF SuiInv, Asks
<1> QED BY <1>4, <1>5, <1>7, <1>9 DEF SuiInv, MemoryBounded

(* Copying the memory keeps the invariant. *)
LEMMA SuiSnapshots ==
  ASSUME SuiInv, NEW r \in SuiRequests, TakeSnapshot(r)
  PROVE  SuiInv'
<1> DEFINE s == IF ask[r].kind = "lookup" THEN memory ELSE <<>>
<1>1. /\ stage[r] = "snapshot" /\ stage' = [stage EXCEPT ![r] = "build"] /\ snapshot' = [snapshot EXCEPT ![r] = s]
      /\ UNCHANGED <<clock, memory, ask, executed_now, answer, resets, ran>>
  BY DEF TakeSnapshot, Moves
<1>2. s \in Seq(SuiRun) /\ MadeIn(ask, s)
  BY SMTT(60) DEF SuiInv, SuiTypes, MadeIn
<1> HIDE DEF s
<1>3. SuiTypes' /\ snapshot'[r] = s /\ stage'[r] = "build"
      /\ \A q \in SuiRequests \ {r} : snapshot'[q] = snapshot[q] /\ stage'[q] = stage[q]
  BY <1>1, <1>2 DEF SuiInv, SuiTypes
<1>4. FoundOnlyIfRun'
  BY <1>1, <1>3, SuiKeeps
<1>5. \A q \in SuiRequests : Asks(q)' /\ MadeIn(ask, snapshot'[q])
  BY SMTT(60), <1>1, <1>2, <1>3 DEF SuiInv, Asks
<1> QED BY <1>1, <1>3, <1>4, <1>5 DEF SuiInv, MemoryBounded

(* A lookup keeps the invariant: it finds what its copy of the memory has, after the delay. *)
LEMMA SuiLooksUp ==
  ASSUME SuiInv, NEW r \in SuiRequests, Lookup(r)
  PROVE  SuiInv'
<1> DEFINE a == _transaction(snapshot[r], ask[r].digests[1], ask[r].now)
<1>1. /\ stage[r] = "build" /\ ask[r].kind = "lookup" /\ stage' = [stage EXCEPT ![r] = "done"]
      /\ answer' = [answer EXCEPT ![r] = a] /\ snapshot' = [snapshot EXCEPT ![r] = <<>>]
      /\ UNCHANGED <<clock, memory, ask, executed_now, resets, ran>>
  BY DEF Lookup, Moves
<1>2. a \in {"transaction", "null"}
  BY DEF _transaction
<1>3. Lag > 0 /\ a = "transaction" =>
        \E i \in DOMAIN snapshot[r] : snapshot[r][i].digest = ask[r].digests[1] /\ snapshot[r][i].at + Lag <= ask[r].now
  <2> SUFFICES ASSUME Lag > 0, a = "transaction"
               PROVE  \E i \in DOMAIN snapshot[r] :
                        snapshot[r][i].digest = ask[r].digests[1] /\ snapshot[r][i].at + Lag <= ask[r].now
    OBVIOUS
  <2>1. /\ ask[r].digests[1] \in DigestsOf(snapshot[r])
        /\ ask[r].now - TimeIn(snapshot[r], ask[r].digests[1]) >= Lag
    BY SMTT(60), TransactionAssumption DEF _transaction, Indexed
  <2>2. PICK i \in DOMAIN snapshot[r] :
          /\ snapshot[r][i].digest = ask[r].digests[1]
          /\ TimeIn(snapshot[r], ask[r].digests[1]) = snapshot[r][i].at
    BY <2>1 DEF DigestsOf, TimeIn
  <2>3. snapshot[r][i].at \in Nat /\ ask[r].now \in Nat
    <3>1. snapshot[r] \in Seq(SuiRun) /\ ask[r] \in SuiAsk
      BY DEF SuiInv, SuiTypes
    <3>2. snapshot[r][i] \in SuiRun
      BY SMTT(60), <3>1
    <3> QED BY <3>1, <3>2 DEF SuiAsk, SuiRun
  <2> QED BY SMTT(60), <2>1, <2>2, <2>3, TransactionAssumption
<1> HIDE DEF a
<1>4. <<>> \in Seq(SuiRun) /\ MadeIn(ask, <<>>)
  BY SMTT(60) DEF MadeIn
<1>5. /\ SuiTypes' /\ snapshot'[r] = <<>> /\ stage'[r] = "done" /\ answer'[r] = a
      /\ \A q \in SuiRequests \ {r} : snapshot'[q] = snapshot[q] /\ stage'[q] = stage[q] /\ answer'[q] = answer[q]
  BY <1>1, <1>2, <1>4 DEF SuiInv, SuiTypes
<1>6. FoundOnlyIfRun'
  BY SMTT(60), <1>1, <1>3, <1>5, SuiKeeps
<1>7. \A q \in SuiRequests : Asks(q)' /\ MadeIn(ask, snapshot'[q])
  BY SMTT(60), <1>1, <1>4, <1>5 DEF SuiInv, Asks
<1> QED BY <1>1, <1>5, <1>6, <1>7 DEF SuiInv, MemoryBounded

(* Executing a transaction keeps the invariant. *)
LEMMA SuiExecutes ==
  ASSUME SuiInv, NEW r \in SuiRequests, Execute(r) \/ Remembered(r)
  PROVE  SuiInv'
<1>1. /\ ask[r].kind = "execute" /\ UNCHANGED <<clock, memory, ask, snapshot, answer, resets, ran>>
      /\ stage[r] # "new" /\ \E to \in {"remember", "done"} : stage' = [stage EXCEPT ![r] = to]
  BY DEF Execute, Remembered, Moves, SuiInv, Asks
<1>2. \E readable \in {<<>>, ask[r].digests, executed_now[r]} : executed_now' = [executed_now EXCEPT ![r] = readable]
  BY DEF Execute, Remembered, SuiInv, SuiTypes
<1>3. /\ SuiTypes' /\ stage'[r] \in {"remember", "done"} /\ executed_now'[r] \in {<<>>, ask[r].digests, executed_now[r]}
      /\ \A q \in SuiRequests \ {r} : stage'[q] = stage[q] /\ executed_now'[q] = executed_now[q]
  <2>1. PICK readable \in {<<>>, ask[r].digests, executed_now[r]} : executed_now' = [executed_now EXCEPT ![r] = readable]
    BY <1>2
  <2>2. ask[r].digests \in Seq(Digests) /\ executed_now[r] \in Seq(Digests) /\ <<>> \in Seq(Digests)
    BY SMTT(60) DEF SuiInv, SuiTypes, SuiAsk
  <2>3. readable \in Seq(Digests)
    BY <2>2
  <2> QED BY <1>1, <2>1, <2>3 DEF SuiInv, SuiTypes
<1>4. FoundOnlyIfRun'
  BY <1>1, <1>3, SuiKeeps
<1>5. \A q \in SuiRequests : Asks(q)'
  BY SMTT(60), <1>1, <1>3 DEF SuiInv, Asks
<1> QED BY <1>1, <1>3, <1>4, <1>5 DEF SuiInv, MemoryBounded

(* Remembering what ran keeps the invariant. *)
LEMMA SuiRemembers ==
  ASSUME SuiInv, NEW r \in SuiRequests, Remember(r)
  PROVE  SuiInv'
<1> DEFINE d == Head(executed_now[r])
           now == ask[r].now
<1>1. /\ stage[r] = "remember" /\ executed_now[r] # <<>> /\ executed_now' = [executed_now EXCEPT ![r] = Tail(@)]
      /\ memory' = remember_executed(d, now) /\ ran' = Append(ran, Run(d, now))
      /\ UNCHANGED <<clock, stage, ask, snapshot, answer, resets>>
  BY DEF Remember
<1>2. executed_now[r] \in Seq(Digests) /\ ask[r].kind = "execute" /\ now \in Nat
  BY <1>1 DEF SuiInv, SuiTypes, Asks, SuiAsk
<1>3. /\ d \in Digests /\ \E i \in DOMAIN ask[r].digests : ask[r].digests[i] = d
      /\ Tail(executed_now[r]) \in Seq(Digests)
      /\ \A i \in DOMAIN Tail(executed_now[r]) : \E j \in DOMAIN ask[r].digests : ask[r].digests[j] = Tail(executed_now[r])[i]
  BY SMTT(60), <1>1, <1>2 DEF SuiInv, Asks
<1> HIDE DEF d, now
<1>4. /\ memory' \in Seq(SuiRun) /\ Len(memory') <= EXECUTED_MEMORY_CAP /\ DistinctDigests(memory')
      /\ \A i \in DOMAIN memory' : memory'[i] = Run(d, now) \/ \E j \in DOMAIN memory : memory'[i] = memory[j]
  BY <1>1, <1>2, <1>3, RememberKeeps DEF SuiInv
<1>5. Run(d, now) \in SuiRun /\ ran' \in Seq(SuiRun)
  BY SMTT(60), <1>1, <1>2, <1>3 DEF SuiInv, SuiTypes, SuiRun, Run
<1>6. /\ SuiTypes' /\ executed_now'[r] = Tail(executed_now[r])
      /\ \A q \in SuiRequests \ {r} : executed_now'[q] = executed_now[q]
  BY <1>1, <1>3, <1>4, <1>5 DEF SuiInv, SuiTypes
<1>7. Executes(ask[r], Run(d, now))
  BY <1>2, <1>3 DEF Executes, Run, now
<1>8. MadeIn(ask, memory')
  BY <1>4, <1>7 DEF MadeIn, SuiInv
<1>9. FoundOnlyIfRun'
  BY <1>1, SuiKeeps
<1>10. \A q \in SuiRequests : Asks(q)'
  BY SMTT(60), <1>1, <1>3, <1>6 DEF SuiInv, Asks
<1> QED BY <1>1, <1>4, <1>6, <1>8, <1>9, <1>10 DEF SuiInv, MemoryBounded, DistinctDigests

(* Every step keeps the invariant. *)
LEMMA SuiInvNext == SuiInv /\ [SuiNext]_suiVars => SuiInv'
<1> SUFFICES ASSUME SuiInv, [SuiNext]_suiVars PROVE SuiInv'
  OBVIOUS
<1>1. CASE UNCHANGED suiVars
  BY SMTT(60), <1>1 DEF suiVars, SuiInv, SuiTypes, MemoryBounded, Asks, FoundOnlyIfRun, Lookups
<1>2. CASE forget_executed
  <2>1. <<>> \in Seq(SuiRun) /\ MadeIn(ask, <<>>)
    BY SMTT(60) DEF MadeIn
  <2> QED BY SMTT(60), <1>2, <2>1, TransactionAssumption
          DEF forget_executed, SuiInv, SuiTypes, MemoryBounded, Asks, FoundOnlyIfRun, Lookups
<1>3. CASE Tick
  BY SMTT(60), <1>3 DEF Tick, SuiInv, SuiTypes, MemoryBounded, Asks, FoundOnlyIfRun, Lookups
<1> QED BY <1>1, <1>2, <1>3, SuiArrives, SuiSnapshots, SuiLooksUp, SuiExecutes, SuiRemembers DEF SuiNext

-----------------------------------------------------------------------------
(* While no more digests ran than the memory keeps, and no reset came. *)

(* A run is the first one of its digest. *)
FirstRun(run, s) == \E k \in DOMAIN s : s[k] = run /\ \A j \in 1..(k - 1) : s[j].digest # run.digest

AllFirst(s, runs) == \A i \in DOMAIN s : FirstRun(s[i], runs)

IsPrefixOf(s, t) == Len(s) <= Len(t) /\ \A i \in DOMAIN s : s[i] = t[i]

Capped == Cardinality(DigestsOf(ran)) <= EXECUTED_MEMORY_CAP

(* The lookup of a request that is on its way. *)
KnownFirst(r) ==
  ask[r].kind = "lookup" =>
    /\ stage[r] \in {"snapshot", "build"} => IsPrefixOf(ask[r].known, ran)
    /\ stage[r] = "build" => DigestsOf(ask[r].known) \subseteq DigestsOf(snapshot[r]) /\ AllFirst(snapshot[r], ran)

(* What RunsFound says of one request. *)
FoundFor(r) ==
  /\ ask[r].kind = "lookup" /\ stage[r] = "done" /\ resets = 0 /\ Capped
  /\ \E i \in DOMAIN ask[r].known :
       /\ ask[r].known[i].digest = ask[r].digests[1] /\ ask[r].known[i].at + Lag <= ask[r].now
       /\ \A j \in 1..(i - 1) : ask[r].known[j].digest # ask[r].digests[1]
  => answer[r] = "transaction"

RunInv ==
  /\ \A r \in SuiRequests : FoundFor(r)
  /\ Capped => DigestsOf(memory) = DigestsOf(ran) /\ AllFirst(memory, ran)
  /\ Capped /\ resets = 0 => \A r \in SuiRequests : KnownFirst(r)

(* The digests of some runs, counted. *)
LEMMA CountedDigests ==
  ASSUME NEW s \in Seq(SuiRun)
  PROVE  /\ IsFiniteSet(DigestsOf(s)) /\ Cardinality(DigestsOf(s)) \in Nat
         /\ DistinctDigests(s) => Cardinality(DigestsOf(s)) = Len(s)
<1> DEFINE f == [i \in 1..Len(s) |-> s[i].digest]
<1>1. f \in Surjection(1..Len(s), DigestsOf(s))
  BY SMTT(60) DEF Surjection, DigestsOf
<1>2. IsFiniteSet(1..Len(s)) /\ Cardinality(1..Len(s)) = Len(s)
  <2>1. Len(s) \in Nat
    BY SMTT(60)
  <2> QED BY SMTT(60), <2>1, FS_Interval
<1>3. IsFiniteSet(DigestsOf(s))
  BY <1>1, <1>2, FS_Surjection
<1>4. DistinctDigests(s) => f \in Injection(1..Len(s), DigestsOf(s))
  BY SMTT(60), <1>1 DEF DistinctDigests, Injection, Surjection, IsInjective
<1> HIDE DEF f
<1>5. Cardinality(DigestsOf(s)) = Cardinality(1..Len(s)) <=> f \in Injection(1..Len(s), DigestsOf(s))
  BY <1>1, <1>2, FS_Surjection
<1> QED BY <1>2, <1>3, <1>4, <1>5, FS_CardinalityType

(* One more run. *)
LEMMA AppendsRun ==
  ASSUME NEW s \in Seq(SuiRun), NEW x \in SuiRun
  PROVE  /\ DigestsOf(Append(s, x)) = DigestsOf(s) \cup {x.digest}
         /\ IsPrefixOf(s, Append(s, x))
         /\ \A run : FirstRun(run, s) => FirstRun(run, Append(s, x))
         /\ x.digest \notin DigestsOf(s) => FirstRun(x, Append(s, x))
<1>1. /\ Len(Append(s, x)) = Len(s) + 1 /\ Append(s, x)[Len(s) + 1] = x /\ DOMAIN Append(s, x) = 1..(Len(s) + 1)
      /\ DOMAIN s = 1..Len(s) /\ Len(s) \in Nat
      /\ \A i \in 1..Len(s) : Append(s, x)[i] = s[i]
  BY SMTT(60)
<1> DEFINE t == Append(s, x)
<1> HIDE DEF t
<1>2. DigestsOf(t) = DigestsOf(s) \cup {x.digest}
  BY SMTT(60), <1>1 DEF DigestsOf, t
<1>3. IsPrefixOf(s, t)
  BY SMTT(60), <1>1 DEF IsPrefixOf, t
<1>4. \A run : FirstRun(run, s) => FirstRun(run, t)
  BY SMTT(60), <1>1 DEF FirstRun, t
<1>5. x.digest \notin DigestsOf(s) => FirstRun(x, t)
  BY SMTT(60), <1>1 DEF FirstRun, DigestsOf, t
<1> QED BY <1>2, <1>3, <1>4, <1>5 DEF t

(* A step that changes one request and no run. *)
LEMMA RunStays ==
  ASSUME SuiInv, RunInv, UNCHANGED <<memory, resets, ran>>, NEW r \in SuiRequests,
         \A q \in SuiRequests \ {r} :
           ask'[q] = ask[q] /\ stage'[q] = stage[q] /\ snapshot'[q] = snapshot[q] /\ answer'[q] = answer[q],
         FoundFor(r)', Capped /\ resets = 0 => KnownFirst(r)'
  PROVE  RunInv'
<1>1. Capped' <=> Capped
  BY DEF Capped
<1>2. \A q \in SuiRequests : FoundFor(q)'
  BY SMTT(60), <1>1 DEF RunInv, FoundFor
<1>3. Capped' => DigestsOf(memory') = DigestsOf(ran') /\ AllFirst(memory', ran')
  BY <1>1 DEF RunInv
<1>4. Capped' /\ resets' = 0 => \A q \in SuiRequests : KnownFirst(q)'
  BY <1>1 DEF RunInv, KnownFirst
<1> QED BY <1>2, <1>3, <1>4 DEF RunInv

(* A lookup that arrives knows the runs that were remembered so far. *)
LEMMA RunArrives ==
  ASSUME SuiInv, RunInv, NEW r \in SuiRequests, Arrive(r)
  PROVE  RunInv'
<1>1. PICK a \in SuiAsk : ask' = [ask EXCEPT ![r] = a] /\ (a.kind = "lookup" => a.known = ran)
  BY AskArrives DEF SuiInv
<1>2. /\ UNCHANGED <<memory, snapshot, answer, resets, ran>> /\ ask'[r] = a /\ stage'[r] = "snapshot"
      /\ \A q \in SuiRequests \ {r} : ask'[q] = ask[q] /\ stage'[q] = stage[q]
  BY <1>1 DEF SuiInv, SuiTypes, Arrive, Moves
<1>3. FoundFor(r)'
  BY <1>2 DEF FoundFor
<1>4. IsPrefixOf(ran, ran)
  BY SMTT(60) DEF IsPrefixOf, SuiInv, SuiTypes
<1>5. KnownFirst(r)'
  BY <1>1, <1>2, <1>4 DEF KnownFirst
<1> QED BY <1>2, <1>3, <1>5, RunStays

(* A lookup's copy of the memory has every first run that it knows. *)
LEMMA RunSnapshots ==
  ASSUME SuiInv, RunInv, NEW r \in SuiRequests, TakeSnapshot(r)
  PROVE  RunInv'
<1>1. /\ UNCHANGED <<memory, ask, answer, resets, ran>> /\ stage[r] = "snapshot" /\ stage'[r] = "build"
      /\ ask[r].kind = "lookup" => snapshot'[r] = memory
      /\ \A q \in SuiRequests \ {r} : snapshot'[q] = snapshot[q] /\ stage'[q] = stage[q]
  BY DEF SuiInv, SuiTypes, TakeSnapshot, Moves
<1>2. FoundFor(r)'
  BY <1>1 DEF FoundFor
<1>3. ASSUME Capped, resets = 0, ask[r].kind = "lookup"
      PROVE  /\ IsPrefixOf(ask[r].known, ran) /\ DigestsOf(ask[r].known) \subseteq DigestsOf(memory)
             /\ AllFirst(memory, ran)
  <2>1. IsPrefixOf(ask[r].known, ran) /\ DigestsOf(memory) = DigestsOf(ran) /\ AllFirst(memory, ran)
    BY <1>1, <1>3 DEF RunInv, KnownFirst
  <2>2. ran \in Seq(SuiRun) /\ ask[r].known \in Seq(SuiRun)
    BY DEF SuiInv, SuiTypes, SuiAsk
  <2>3. DOMAIN ask[r].known \subseteq DOMAIN ran
    BY SMTT(60), <2>1, <2>2 DEF IsPrefixOf
  <2>4. DigestsOf(ask[r].known) \subseteq DigestsOf(ran)
    BY <2>1, <2>3 DEF IsPrefixOf, DigestsOf
  <2> QED BY <2>1, <2>4
<1>4. Capped /\ resets = 0 => KnownFirst(r)'
  BY <1>1, <1>3 DEF KnownFirst
<1> QED BY <1>1, <1>2, <1>4, RunStays

(* The first run of a digest in a prefix is its first run. *)
LEMMA FirstIsOne ==
  ASSUME NEW known \in Seq(SuiRun), NEW runs \in Seq(SuiRun), IsPrefixOf(known, runs), NEW i \in DOMAIN known,
         \A j \in 1..(i - 1) : known[j].digest # known[i].digest,
         NEW run, FirstRun(run, runs), run.digest = known[i].digest
  PROVE  run = known[i]
<1>1. PICK k \in DOMAIN runs : runs[k] = run /\ \A j \in 1..(k - 1) : runs[j].digest # run.digest
  BY DEF FirstRun
<1>2. /\ i \in 1..Len(known) /\ k \in 1..Len(runs) /\ Len(known) <= Len(runs) /\ Len(known) \in Nat /\ Len(runs) \in Nat
      /\ \A j \in 1..Len(known) : known[j] = runs[j]
  BY SMTT(60), <1>1 DEF IsPrefixOf
<1>3. ~(i < k)
  BY SMTT(60), <1>1, <1>2
<1>4. ~(k < i)
  BY SMTT(60), <1>1, <1>2
<1>5. i = k
  BY SMTT(60), <1>2, <1>3, <1>4
<1> QED BY <1>1, <1>2, <1>5

(* A lookup of a digest whose first run it knows, and whose delay has passed, gets the *)
(* transaction.                                                                        *)
LEMMA RunLooksUp ==
  ASSUME SuiInv, RunInv, NEW r \in SuiRequests, Lookup(r)
  PROVE  RunInv'
<1> DEFINE d == ask[r].digests[1]
           known == ask[r].known
           snap == snapshot[r]
<1>1. /\ UNCHANGED <<memory, ask, resets, ran>> /\ stage[r] = "build" /\ stage'[r] = "done" /\ ask[r].kind = "lookup"
      /\ answer'[r] = _transaction(snap, d, ask[r].now)
      /\ \A q \in SuiRequests \ {r} : snapshot'[q] = snapshot[q] /\ stage'[q] = stage[q] /\ answer'[q] = answer[q]
  BY DEF SuiInv, SuiTypes, Lookup, Moves
<1>2. ASSUME resets = 0, Capped, NEW i \in DOMAIN known, known[i].digest = d, known[i].at + Lag <= ask[r].now,
             \A j \in 1..(i - 1) : known[j].digest # d
      PROVE  answer'[r] = "transaction"
  <2>1. IsPrefixOf(known, ran) /\ DigestsOf(known) \subseteq DigestsOf(snap) /\ AllFirst(snap, ran)
    BY <1>1, <1>2 DEF RunInv, KnownFirst
  <2>2. known \in Seq(SuiRun) /\ snap \in Seq(SuiRun) /\ ran \in Seq(SuiRun) /\ ask[r].now \in Nat
    BY DEF SuiInv, SuiTypes, SuiAsk
  <2> HIDE DEF d, known, snap
  <2>3. d \in DigestsOf(snap)
    BY <1>2, <2>1 DEF DigestsOf
  <2>4. PICK m \in DOMAIN snap : snap[m].digest = d /\ TimeIn(snap, d) = snap[m].at
    BY <2>3 DEF DigestsOf, TimeIn
  <2>5. FirstRun(snap[m], ran)
    BY <2>1 DEF AllFirst
  <2>6. snap[m] = known[i]
    BY SMTT(60), <1>2, <2>1, <2>2, <2>4, <2>5, FirstIsOne
  <2>7. known[i] \in SuiRun
    BY SMTT(60), <2>2
  <2>8. known[i].at \in Nat
    BY <2>7 DEF SuiRun
  <2>9. Indexed(snap, d, ask[r].now)
    BY SMTT(60), <1>2, <2>2, <2>3, <2>4, <2>6, <2>8, TransactionAssumption DEF Indexed
  <2> QED BY <1>1, <2>9 DEF _transaction
<1>3. FoundFor(r)'
  BY <1>1, <1>2 DEF FoundFor, Capped
<1>4. KnownFirst(r)'
  BY <1>1 DEF KnownFirst
<1> QED BY <1>1, <1>3, <1>4, RunStays

(* Executing a transaction leaves the memory and the lookups alone. *)
LEMMA RunExecutes ==
  ASSUME SuiInv, RunInv, NEW r \in SuiRequests, Execute(r) \/ Remembered(r)
  PROVE  RunInv'
<1>1. /\ ask[r].kind = "execute" /\ UNCHANGED <<memory, ask, snapshot, answer, resets, ran>>
      /\ \A q \in SuiRequests \ {r} : stage'[q] = stage[q]
  BY DEF Execute, Remembered, Moves, SuiInv, SuiTypes, Asks
<1>2. FoundFor(r)' /\ KnownFirst(r)'
  BY <1>1 DEF FoundFor, KnownFirst
<1> QED BY <1>1, <1>2, RunStays

(* While no more digests ran than the cap, remembering a run evicts nothing and keeps the time *)
(* of a digest's first run.                                                                    *)
LEMMA RunRemembers ==
  ASSUME SuiInv, RunInv, NEW r \in SuiRequests, Remember(r)
  PROVE  RunInv'
<1> DEFINE d == Head(executed_now[r])
           x == Run(d, ask[r].now)
<1>1. /\ memory' = remember_executed(d, ask[r].now) /\ ran' = Append(ran, x)
      /\ UNCHANGED <<stage, ask, snapshot, answer, resets>>
  BY DEF Remember
<1>2. x \in SuiRun /\ x.digest = d
  <2>1. executed_now[r] \in Seq(Digests) /\ executed_now[r] # <<>> /\ ask[r].now \in Nat
    BY DEF SuiInv, SuiTypes, SuiAsk, Remember
  <2>2. d \in Digests
    BY SMTT(60), <2>1
  <2> QED BY <2>1, <2>2 DEF SuiRun, Run
<1>3. memory \in Seq(SuiRun) /\ ran \in Seq(SuiRun) /\ DistinctDigests(memory)
  BY DEF SuiInv, SuiTypes, MemoryBounded, DistinctDigests
<1> HIDE DEF d, x
<1>4. /\ DigestsOf(ran') = DigestsOf(ran) \cup {d} /\ IsPrefixOf(ran, ran')
      /\ \A run : FirstRun(run, ran) => FirstRun(run, ran')
      /\ d \notin DigestsOf(ran) => FirstRun(x, ran')
  BY <1>1, <1>2, <1>3, AppendsRun
<1>5. /\ IsFiniteSet(DigestsOf(ran)) /\ Cardinality(DigestsOf(ran)) \in Nat
      /\ Cardinality(DigestsOf(memory)) = Len(memory)
  BY <1>3, CountedDigests
<1>6. Cardinality(DigestsOf(ran')) = IF d \in DigestsOf(ran) THEN Cardinality(DigestsOf(ran)) ELSE Cardinality(DigestsOf(ran)) + 1
  BY <1>4, <1>5, FS_AddElement
<1>7. Capped' => Capped
  BY SMTT(60), <1>5, <1>6, TransactionAssumption DEF Capped
<1>8. \A q \in SuiRequests : FoundFor(q)'
  BY <1>1, <1>7 DEF RunInv, FoundFor
<1>9. ASSUME Capped' PROVE DigestsOf(memory') = DigestsOf(ran') /\ AllFirst(memory', ran')
  <2>1. DigestsOf(memory) = DigestsOf(ran) /\ AllFirst(memory, ran')
    BY <1>4, <1>7, <1>9 DEF RunInv, AllFirst
  <2>2. CASE d \in DigestsOf(memory)
    BY <1>1, <1>4, <2>1, <2>2 DEF remember_executed
  <2>3. CASE d \notin DigestsOf(memory)
    <3>1. Len(memory) + 1 <= EXECUTED_MEMORY_CAP
      BY <1>5, <1>6, <1>9, <2>1, <2>3, TransactionAssumption DEF Capped
    <3>2. memory' = Append(memory, x)
      <4>1. Len(Append(memory, x)) = Len(memory) + 1 /\ Len(memory) \in Nat
        BY SMTT(60), <1>2, <1>3
      <4> QED BY SMTT(60), <1>1, <2>3, <3>1, <4>1, TransactionAssumption DEF remember_executed, Evict, x
    <3>3. DigestsOf(memory') = DigestsOf(ran')
      BY <1>2, <1>3, <1>4, <2>1, <3>2, AppendsRun
    <3>4. FirstRun(x, ran')
      BY <1>4, <2>1, <2>3
    <3>5. \A i \in DOMAIN memory' : memory'[i] = x \/ (i \in DOMAIN memory /\ memory'[i] = memory[i])
      BY SMTT(60), <1>2, <1>3, <3>2
    <3>6. AllFirst(memory', ran')
      BY <2>1, <3>4, <3>5 DEF AllFirst
    <3> QED BY <3>3, <3>6
  <2> QED BY <2>2, <2>3
<1>10. ASSUME Capped', resets' = 0, NEW q \in SuiRequests PROVE KnownFirst(q)'
  <2>1. KnownFirst(q)
    BY <1>1, <1>7, <1>10 DEF RunInv
  <2>2. AllFirst(snapshot[q], ran) => AllFirst(snapshot[q], ran')
    BY <1>4 DEF AllFirst
  <2>3. ask[q].known \in Seq(SuiRun) /\ ran' \in Seq(SuiRun)
    BY SMTT(60), <1>1, <1>2, <1>3 DEF SuiInv, SuiTypes, SuiAsk
  <2>4. IsPrefixOf(ask[q].known, ran) => IsPrefixOf(ask[q].known, ran')
    BY SMTT(60), <1>3, <1>4, <2>3 DEF IsPrefixOf
  <2> QED BY <1>1, <2>1, <2>2, <2>4 DEF KnownFirst
<1> QED BY <1>8, <1>9, <1>10 DEF RunInv

(* Nothing has run, and nothing is remembered. *)
LEMMA RunInvInit == SuiInit => RunInv
BY SMTT(60) DEF SuiInit, RunInv, FoundFor, KnownFirst, NotAsked, Ask, DigestsOf, AllFirst

(* Every step keeps what the memory and the lookups know of the runs. *)
LEMMA RunInvNext == SuiInv /\ RunInv /\ [SuiNext]_suiVars => RunInv'
<1> SUFFICES ASSUME SuiInv, RunInv, [SuiNext]_suiVars PROVE RunInv'
  OBVIOUS
<1>1. CASE UNCHANGED suiVars \/ Tick
  <2>1. UNCHANGED <<memory, stage, ask, snapshot, answer, resets, ran>>
    BY <1>1 DEF suiVars, Tick
  <2> QED BY <2>1 DEF RunInv, FoundFor, KnownFirst, Capped
<1>2. CASE forget_executed
  <2>1. memory' = <<>> /\ ran' = <<>> /\ resets' # 0
    BY SMTT(60), <1>2 DEF forget_executed, SuiInv, SuiTypes
  <2> QED BY SMTT(60), <2>1 DEF RunInv, FoundFor, DigestsOf, AllFirst
<1> QED BY <1>1, <1>2, RunArrives, RunSnapshots, RunLooksUp, RunExecutes, RunRemembers DEF SuiNext

(* A digest that ran is found by every lookup that starts after the delay, unless a reset came *)
(* or more digests ran than the cap; a lookup finds only what ran, and only after the delay;   *)
(* the memory keeps to its cap (Provider.remember_executed, SuiChain._transaction).            *)
THEOREM RunsCorrect == SuiSpec => []ReadAfterWrite
<1>1. SuiInv /\ RunInv => ReadAfterWrite
  BY DEF SuiInv, RunInv, FoundFor, Capped, RunsFound, Lookups, ReadAfterWrite
<1> QED BY <1>1, SuiInvInit, SuiInvNext, RunInvInit, RunInvNext, PTL DEF SuiSpec
=============================================================================
