----------------------------- MODULE MCCallLog ------------------------------
(***************************************************************************)
(* The call log, and GET /history that reads the logs of all providers.    *)
(* A behaviour is about one of the two parts; the other stays in its       *)
(* initial state.                                                          *)
(***************************************************************************)
EXTENDS CallLog, Integers, TLC

CONSTANTS Parts    \* the parts under test: "log", "history"

VARIABLES part,
          clock, logs, arrivals, read    \* History

(* Two ids that read the same as text, and queries that test each limit and *)
(* each filter.                                                             *)
HistoryIds == {<<"int", "1">>, <<"str", "1">>}
HistoryQueries ==
  {<<>>, "last" :> 1 @@ "from" :> "junk", "max" :> 1 @@ "to" :> "num", "last" :> 0 @@ "method" :> "*", "max" :> -1,
   "from" :> "nan", "from" :> "num", "pid" :> "1" @@ "request_id" :> "1", "body_len" :> "junk"}

historyVars == <<clock, logs, arrivals, read>>
Reader == INSTANCE History WITH
  Providers <- <<"1", "2">>, Ids <- HistoryIds, Methods <- {"m"}, Headers <- {{}}, Queries <- HistoryQueries,
  Reads <- {"g"}, Window <- 1, MaxRows <- 3, MaxClock <- 2

InitParts == Init /\ Reader!Init /\ part \in Parts

NextPart ==
  /\ \/ part = "log" /\ Next /\ UNCHANGED historyVars
     \/ part = "history" /\ Reader!Next /\ UNCHANGED vars
  /\ UNCHANGED part

SpecParts == InitParts /\ [][NextPart]_<<part, vars, historyVars>>

(* A read of GET /history with no filter and no cut shows every row that a *)
(* log held when the read began and still holds, whatever arrives and is   *)
(* finalized meanwhile.                                                    *)
NoRowMissed == Reader!NoRowMissed

(* The timeline is sorted by time, rows of one log with one time in the    *)
(* order of the log; the calls of a group have one id and one method and   *)
(* lie within the window of each other; last and max keep the newest rows, *)
(* each with its place in the full timeline.                               *)
TimelineExact == Reader!TimelineStable /\ Reader!GroupsWithinWindow /\ Reader!TailKept
=============================================================================
