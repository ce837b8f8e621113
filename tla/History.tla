------------------------------ MODULE History -------------------------------
(***************************************************************************)
(* GET /history (control_api.py): the filters of a query, the read of the  *)
(* call logs one provider after the other, the merge by time, the order    *)
(* and the groups of the calls, and the cut.  Each log is read under its   *)
(* own lock only, while calls arrive and are finalized.                    *)
(*                                                                         *)
(* A row takes its time before the lock of its log, so a log may hold two  *)
(* rows out of time order.  A row keeps the fields that the filters tell   *)
(* apart; n, its place among all arrivals, is not part of the code.  An id *)
(* is a type and its text.  The name of a header is its letter case and    *)
(* the sign between its words.                                             *)
(***************************************************************************)
EXTENDS Integers, Sequences, FiniteSets, SequencesExt

CONSTANTS Providers,     \* a sequence, in the order of the registry
          Ids, Methods,  \* what a finalized row may hold
          Headers,       \* sets of lava headers that a request may carry
          Queries,       \* queries under test
          Reads,         \* concurrent reads
          HistoryMax,    \* the size of a log
          Window,        \* _CORRELATION_WINDOW_S
          MaxRows, MaxClock    \* bounds

VARIABLES clock,
          logs,      \* logs[p]: the rows of one call log
          arrivals,  \* calls that arrived so far
          read       \* read[g]: one GET /history

vars == <<clock, logs, arrivals, read>>

NoRead == [pc |-> "new", query |-> <<>>, todo |-> <<>>, entries |-> <<>>, stored |-> {}, status |-> 0, history |-> <<>>]
InFlight == <<"none", "None">>    \* the request id of a row in flight

Init ==
  /\ clock = 0 /\ arrivals = 0
  /\ logs = [p \in ToSet(Providers) |-> <<>>]
  /\ read = [g \in Reads |-> NoRead]

-----------------------------------------------------------------------------
(* The calls, as CallLog keeps them *)

Kept(s) == IF Len(s) > HistoryMax THEN Tail(s) ELSE s

(* CallLog.record_arrival; the time is read before the lock. *)
Arrive(p) ==
  /\ arrivals < MaxRows /\ arrivals' = arrivals + 1
  /\ \E ts \in {clock - 1, clock} \cap Nat, h \in Headers :
       logs' = [logs EXCEPT ![p] = Kept(Append(@, [ts |-> ts, pid |-> p, id |-> InFlight, method |-> "*",
                                                   status |-> "in_flight", headers |-> h, n |-> arrivals']))]
  /\ UNCHANGED <<clock, read>>

(* CallLog.finalize *)
Finalize(p) ==
  /\ \E i \in DOMAIN logs[p], id \in Ids, method \in Methods :
       /\ logs[p][i].status = "in_flight"
       /\ logs' = [logs EXCEPT ![p][i].id = id, ![p][i].method = method, ![p][i].status = "success"]
  /\ UNCHANGED <<clock, arrivals, read>>

Tick == clock < MaxClock /\ clock' = clock + 1 /\ UNCHANGED <<logs, arrivals, read>>

-----------------------------------------------------------------------------
(* The filters.  A query is a function from the keys it has to their values. *)

Has(q, k) == k \in DOMAIN q

(* The providers that a query reads; any other key chooses none out. *)
Chosen(q) == SelectSeq(Providers, LAMBDA p : Has(q, "pid") => p = q["pid"])

lower(name) == [name EXCEPT !.case = "lower"]

(* Mutant of matches: a row in flight is left out. *)
MatchesFinished(q, row) == row.status # "in_flight"

(* _history_row_filter: the keys are tested together.  A bound that is no  *)
(* number is no bound, and NaN keeps no row.                               *)
matches(q, row) ==
  /\ \A k \in {"method", "status"} : Has(q, k) => row[k] = q[k]
  /\ Has(q, "request_id") => row.id[2] = q["request_id"]
  /\ Has(q, "from") => CASE q["from"] = "junk" -> TRUE [] q["from"] = "nan" -> FALSE [] OTHER -> row.ts >= 1
  /\ Has(q, "to") => CASE q["to"] = "junk" -> TRUE [] q["to"] = "nan" -> FALSE [] OTHER -> row.ts <= 1
  /\ Has(q, "lava_header") => \E h \in row.headers : lower(h) = lower(q["lava_header"])

(* _strict_int: a body_len that is no number refuses the query. *)
Unreadable(q) == Has(q, "body_len") /\ q["body_len"] = "junk"

-----------------------------------------------------------------------------
(* The merge, the order and the groups *)

(* Mutant of Merged: a row goes before the rows of its own time. *)
MergedUnstable(entries) ==
  FoldLeft(LAMBDA done, row : LET k == Cardinality({i \in DOMAIN done : done[i].ts < row.ts}) IN InsertAt(done, k + 1, row),
           <<>>, entries)

(* entries.sort by ts, which keeps the order of rows of one time. *)
Merged(entries) ==
  FoldLeft(LAMBDA done, row : LET k == Cardinality({i \in DOMAIN done : done[i].ts <= row.ts}) IN InsertAt(done, k + 1, row),
           <<>>, entries)

Key(row) == <<row.id, row.method>>

(* A call is in the group of an earlier one with its key when it is within *)
(* the window of the call that began the group.                            *)
InGroup(done, j, row) ==
  /\ Key(done[j]) = Key(row) /\ done[j].began
  /\ row.ts - done[j].ts <= Window
  /\ \A i \in (j + 1)..Len(done) : ~(Key(done[i]) = Key(row) /\ done[i].began)

(* call_order and correlation_group of every row, in one pass. *)
Numbered(entries) ==
  FoldLeft(LAMBDA done, row :
             LET joins == {j \in DOMAIN done : InGroup(done, j, row)}
                 next == 1 + Cardinality({done[i].group : i \in DOMAIN done})
                 group == IF joins = {} THEN next ELSE done[CHOOSE j \in joins : TRUE].group
             IN Append(done, [row |-> row, id |-> row.id, method |-> row.method, ts |-> row.ts,
                              order |-> Len(done) + 1, group |-> group, began |-> joins = {}]),
           <<>>, entries)

(* entries[-k:], and nothing when k is not positive. *)
LastOf(s, k) == IF k <= 0 THEN <<>> ELSE SubSeq(s, Len(s) - (IF k < Len(s) THEN k ELSE Len(s)) + 1, Len(s))

(* The cut by last, then by max. *)
Cut(q, s) ==
  LET tail == IF Has(q, "last") THEN LastOf(s, q["last"]) ELSE s
  IN IF Has(q, "max") THEN LastOf(tail, q["max"]) ELSE tail

-----------------------------------------------------------------------------
(* The read *)

(* The rows that the logs hold. *)
Stored == UNION {{logs[p][i].n : i \in DOMAIN logs[p]} : p \in ToSet(Providers)}

Sets(g, x) == read' = [read EXCEPT ![g] = x]

Begin(g) ==
  /\ read[g].pc = "new"
  /\ \E q \in Queries :
       Sets(g, IF Unreadable(q) THEN [NoRead EXCEPT !.pc = "done", !.query = q, !.status = 400]
               ELSE [NoRead EXCEPT !.pc = "read", !.query = q, !.todo = Chosen(q), !.stored = Stored])
  /\ UNCHANGED <<clock, logs, arrivals>>

(* CallLog.get_history of the next provider. *)
ReadLog(g) ==
  /\ read[g].pc = "read" /\ read[g].todo # <<>>
  /\ Sets(g, [read[g] EXCEPT !.todo = Tail(@),
                !.entries = @ \o SelectSeq(logs[Head(read[g].todo)], LAMBDA row : matches(read[g].query, row))])
  /\ UNCHANGED <<clock, logs, arrivals>>

(* The answer; a max below zero is refused. *)
Answer(g) ==
  /\ read[g].pc = "read" /\ read[g].todo = <<>>
  /\ LET q == read[g].query
     IN Sets(g, IF Has(q, "max") /\ q["max"] < 0 THEN [NoRead EXCEPT !.pc = "done", !.query = q, !.status = 400]
                ELSE [read[g] EXCEPT !.pc = "done", !.status = 200, !.history = Cut(q, Numbered(Merged(read[g].entries)))])
  /\ UNCHANGED <<clock, logs, arrivals>>

Next ==
  \/ \E p \in ToSet(Providers) : Arrive(p) \/ Finalize(p)
  \/ \E g \in Reads : Begin(g) \/ ReadLog(g) \/ Answer(g)
  \/ Tick

Spec == Init /\ [][Next]_vars

-----------------------------------------------------------------------------
(* Properties *)

Answered == {read[g] : g \in {g \in Reads : read[g].status = 200}}
Shown(r) == {r.history[i].row.n : i \in DOMAIN r.history}

(* A read with no filter and no cut shows every row that a log held when   *)
(* the read began and still holds, also a row in flight, whatever arrives  *)
(* and is finalized meanwhile.                                             *)
NoRowMissed == \A r \in Answered : DOMAIN r.query = {} => (r.stored \cap Stored) \subseteq Shown(r)

(* The timeline is sorted by time, and two rows of one log with one time   *)
(* keep the order in which the log took them.                              *)
TimelineStable ==
  \A r \in Answered : \A i, j \in DOMAIN r.history : i < j =>
    LET a == r.history[i].row
        b == r.history[j].row
    IN a.ts < b.ts \/ (a.ts = b.ts /\ (a.pid = b.pid => a.n < b.n))

(* The calls of one group have one request id and one method, and all lie  *)
(* within the window of each other.                                        *)
GroupsWithinWindow ==
  \A r \in Answered : \A i, j \in DOMAIN r.history :
    r.history[i].group = r.history[j].group
      => Key(r.history[i]) = Key(r.history[j]) /\ r.history[i].ts - r.history[j].ts <= Window

(* last and max keep the newest rows, no more than they say, each with its *)
(* place in the full timeline: the rows shown end with the last of those   *)
(* read and their call_order has no gap.                                   *)
TailKept ==
  \A r \in Answered :
    LET k == Len(r.history)
    IN /\ \A i \in 1..k : r.history[i].order = Len(r.entries) - k + i
       /\ \A key \in {"last", "max"} \cap DOMAIN r.query : k <= (IF r.query[key] < 0 THEN 0 ELSE r.query[key])

(* Two calls with the same request id and method within the window are one *)
(* group.                                                                  *)
(* The code does not keep it: README, section 7.                           *)
OneGroup ==
  \A r \in Answered : \A i, j \in DOMAIN r.history :
    Key(r.history[i]) = Key(r.history[j]) /\ r.history[i].ts - r.history[j].ts \in 0..Window
      => r.history[i].group = r.history[j].group

(* The first row of the timeline is the call that was attempted first: no  *)
(* stored call that arrived before it is left out.                         *)
(* The code does not keep it: README, section 7.                           *)
FirstAttempted ==
  \A r \in Answered : DOMAIN r.query = {} /\ r.history # <<>> =>
    \A n \in Stored : n < r.history[1].row.n => n \in Shown(r)

(* A header filter finds a row by the name of the header, with underscores *)
(* in the place of its hyphens: a stored row that the read began with and  *)
(* that carries the header is shown.                                       *)
(* The code does not keep it: README, section 7.                           *)
HeaderUnderscore ==
  \A r \in Answered : DOMAIN r.query = {"lava_header"} =>
    \A p \in ToSet(Providers) : \A i \in DOMAIN logs[p] :
      LET row == logs[p][i]
      IN row.n \in r.stored /\ (\E h \in row.headers : lower(h) = [case |-> "lower", sep |-> "-"]) => row.n \in Shown(r)

(* A read for one provider shows the rows of that provider only. *)
(* The code does not keep it: README, section 7.                 *)
ProviderNarrows ==
  \A r \in Answered : Has(r.query, "provider") =>
    \A i \in DOMAIN r.history : r.history[i].row.pid = r.query["provider"]
=============================================================================
