----------------------------- MODULE RespStore ------------------------------
(***************************************************************************)
(* The reader of a RESP store (resp_store.py) behind GET entries and POST  *)
(* flush of the RESP control service (resp_control.py).  A call is one     *)
(* connection and a sequence of commands: SCAN until the cursor comes home, *)
(* then a GET and a TTL for each key, or a DEL for each batch of keys.  The *)
(* router writes the store and keys expire between any two commands.       *)
(*                                                                         *)
(* Keys are numbers, so that "sorted" has its meaning.  A value is the     *)
(* number of the write that put it there, 0 when the key is absent.  The   *)
(* bytes of a reply are left out: a command is answered, or it fails.      *)
(***************************************************************************)
EXTENDS Integers, Sequences, FiniteSets, SequencesExt

CONSTANTS Keys,          \* keys of the store, a set of numbers
          Matching,      \* the keys that match the pattern of the calls
          Lossy,         \* keys whose bytes are not UTF-8
          Reads,         \* calls of GET entries
          Flushes,       \* calls of POST flush
          MaxScanRounds, \* _MAX_SCAN_ROUNDS (1000 in the code)
          DeleteBatch,   \* _DELETE_BATCH (500 in the code)
          MaxWrites,     \* bound: writes of the router
          MaxExpiries    \* bound: keys that expire

StoreAssumption ==
  /\ Keys \subseteq Nat \ {0} /\ Matching \subseteq Keys /\ Lossy \subseteq Keys
  /\ MaxScanRounds \in Nat \ {0} /\ DeleteBatch \in Nat \ {0}

Calls == Reads \cup Flushes
TTL_NO_EXPIRY == -1
TTL_NO_SUCH_KEY == -2
Left == 60        \* seconds left on a key that expires

VARIABLES store,     \* store[k]: [val, ttl]; val 0 when k is absent
          writes,    \* writes of the router so far
          expiries,  \* keys expired so far
          call,      \* call[c]: the state of a call
          steady,    \* steady[c]: keys nobody else changed since c began
          deleted    \* deleted[c]: keys that the DELs of c removed

vars == <<store, writes, expiries, call, steady, deleted>>

Absent == [val |-> 0, ttl |-> TTL_NO_SUCH_KEY]
Present == {k \in Keys : store[k].val # 0}

Fresh ==
  [pc |-> "new", rounds |-> 0, found |-> <<>>, at |-> 1, val |-> 0, out |-> <<>>,
   removed |-> 0, answer |-> 0]

Init ==
  /\ store \in [Keys -> {Absent} \cup {[val |-> 1, ttl |-> t] : t \in {TTL_NO_EXPIRY, Left}}]
  /\ writes = 1 /\ expiries = 0
  /\ call = [c \in Calls |-> Fresh]
  /\ steady = [c \in Calls |-> Keys] /\ deleted = [c \in Calls |-> {}]

-----------------------------------------------------------------------------
(* The store *)

Change(k, others) ==
  steady' = [c \in Calls |-> IF c \in others /\ call[c].pc # "new" THEN steady[c] \ {k} ELSE steady[c]]

(* The router sets a key, with or without an expiry. *)
Write(k) ==
  /\ writes < MaxWrites /\ writes' = writes + 1
  /\ \E t \in {TTL_NO_EXPIRY, Left} : store' = [store EXCEPT ![k] = [val |-> writes', ttl |-> t]]
  /\ Change(k, Calls)
  /\ UNCHANGED <<expiries, call, deleted>>

Expire(k) ==
  /\ expiries < MaxExpiries /\ expiries' = expiries + 1
  /\ store[k].ttl = Left
  /\ store' = [store EXCEPT ![k] = Absent]
  /\ Change(k, Calls)
  /\ UNCHANGED <<writes, call, deleted>>

-----------------------------------------------------------------------------
(* A call *)

Sets(c, r) == call' = [call EXCEPT ![c] = r]
Ends(c, n) == Sets(c, [call[c] EXCEPT !.pc = "done", !.answer = n])

(* _session: one connection for the whole sequence. *)
Connect(c) ==
  /\ call[c].pc = "new"
  /\ Sets(c, [call[c] EXCEPT !.pc = "scan"])
  /\ UNCHANGED <<store, writes, expiries, steady, deleted>>

(* The store cannot be reached, stops answering or answers with an error:  *)
(* RespStoreError, which the routes turn into a 503.                       *)
Fail(c) ==
  /\ call[c].pc # "done"
  /\ Ends(c, 503)
  /\ UNCHANGED <<store, writes, expiries, steady, deleted>>

(* Mutant of NewIn: a key that SCAN returns twice is kept twice. *)
NewInAgain(c, batch) == SetToSeq(batch)

(* The keys of a batch that no earlier round returned. *)
NewIn(c, batch) == SetToSeq(batch \ ToSet(call[c].found))

(* SCAN did not finish in _MAX_SCAN_ROUNDS rounds. *)
RoundsOver(c, found) == Ends(c, 503)

RoundsLeft(rounds) == rounds < MaxScanRounds

Sorted(found) == SortSeq(found, <)

(* One round of _scan_on.  SCAN answers some of the keys that are there,   *)
(* also ones it answered before; when its cursor comes home, every key that *)
(* was there all along has been answered.                                  *)
ScanRound(c) ==
  /\ call[c].pc = "scan"
  /\ \E batch \in SUBSET (Present \cap Matching), home \in BOOLEAN :
       LET found == call[c].found \o NewIn(c, batch)
           rounds == call[c].rounds + 1
       IN /\ home => (steady[c] \cap Present \cap Matching) \subseteq ToSet(found)
          /\ \/ home /\ Sets(c, [call[c] EXCEPT !.pc = "keys", !.found = Sorted(found), !.rounds = rounds])
             \/ /\ ~home /\ RoundsLeft(rounds)
                /\ Sets(c, [call[c] EXCEPT !.found = found, !.rounds = rounds])
             \/ ~home /\ ~RoundsLeft(rounds) /\ RoundsOver(c, found)
  /\ UNCHANGED <<store, writes, expiries, steady, deleted>>

(* _as_text replaces bytes that are not UTF-8, so the key that is sent back *)
(* is another one.  No key of the store has the replaced name.             *)
Names(k) == IF k \in Lossy THEN {} ELSE {k}
Value(k) == IF k \in Lossy THEN Absent ELSE store[k]

Key(c) == call[c].found[call[c].at]
NextKey(c) == [call[c] EXCEPT !.pc = "keys", !.at = @ + 1]
More(c) == call[c].pc = "keys" /\ call[c].at <= Len(call[c].found)

(* entries: GET of the next key.  A key with no value has gone. *)
Get(c) ==
  /\ c \in Reads /\ More(c)
  /\ IF Value(Key(c)).val = 0 THEN Sets(c, NextKey(c))
     ELSE Sets(c, [call[c] EXCEPT !.pc = "ttl", !.val = Value(Key(c)).val])
  /\ UNCHANGED <<store, writes, expiries, steady, deleted>>

Gone(ttl) == ttl = TTL_NO_SUCH_KEY

(* entries: TTL of the same key. *)
Ttl(c) ==
  /\ call[c].pc = "ttl"
  /\ LET ttl == Value(Key(c)).ttl
     IN IF Gone(ttl) THEN Sets(c, NextKey(c))
        ELSE Sets(c, [NextKey(c) EXCEPT !.out = Append(@, [key |-> Key(c), val |-> call[c].val, ttl |-> ttl])])
  /\ UNCHANGED <<store, writes, expiries, steady, deleted>>

(* Mutant of Batch: the slice ends one key early. *)
BatchShort(c) ==
  SubSeq(call[c].found, call[c].at, Min({call[c].at + DeleteBatch - 2, Len(call[c].found)}))

(* The keys of the next DEL. *)
Batch(c) == SubSeq(call[c].found, call[c].at, Min({call[c].at + DeleteBatch - 1, Len(call[c].found)}))

(* delete_matching: one DEL.  Its reply counts the keys that were there.   *)
(* A concurrent flush sees these keys change.                              *)
Del(c) ==
  /\ c \in Flushes /\ More(c)
  /\ LET gone == UNION {Names(k) : k \in ToSet(Batch(c))} \cap Present
     IN /\ store' = [k \in Keys |-> IF k \in gone THEN Absent ELSE store[k]]
        /\ deleted' = [deleted EXCEPT ![c] = @ \cup gone]
        /\ Sets(c, [call[c] EXCEPT !.at = @ + DeleteBatch, !.removed = @ + Cardinality(gone)])
        /\ steady' = [d \in Calls |-> IF d # c /\ call[d].pc # "new" THEN steady[d] \ gone ELSE steady[d]]
  /\ UNCHANGED <<writes, expiries>>

(* Every key is dealt with: the 200. *)
Finish(c) ==
  /\ call[c].pc = "keys" /\ ~More(c)
  /\ Ends(c, 200)
  /\ UNCHANGED <<store, writes, expiries, steady, deleted>>

Next ==
  \/ \E k \in Keys : Write(k) \/ Expire(k)
  \/ \E c \in Calls : Connect(c) \/ Fail(c) \/ ScanRound(c) \/ Get(c) \/ Ttl(c) \/ Del(c) \/ Finish(c)

Spec == Init /\ [][Next]_vars

-----------------------------------------------------------------------------
(* Properties *)

Ok(c) == call[c].answer = 200
Reported(c) == {call[c].out[i].key : i \in DOMAIN call[c].out}

(* The type of the state. *)
TypeOK ==
  /\ \A k \in Keys : store[k].val \in 0..MaxWrites /\ (store[k].val = 0 <=> store[k].ttl = TTL_NO_SUCH_KEY)
  /\ \A c \in Calls : /\ call[c].pc \in {"new", "scan", "keys", "ttl", "done"}
                      /\ call[c].rounds \in 0..MaxScanRounds /\ call[c].removed \in 0..Cardinality(Keys)

(* While nobody changes it, a matching key of the store is in the answer,  *)
(* with its value and its lifetime, whatever else happens to the store     *)
(* between two commands: a 200 with no entries means that nothing matched.  *)
SteadyReported ==
  \A c \in Reads : Ok(c) =>
    \A k \in steady[c] \cap Matching \cap Present :
      \E i \in DOMAIN call[c].out : call[c].out[i] = [key |-> k, val |-> store[k].val, ttl |-> store[k].ttl]

(* The answer names each key once and never a key that was absent all the  *)
(* time, so its count is a number of keys.                                 *)
CountExact ==
  \A c \in Reads : Ok(c) =>
    /\ Len(call[c].out) = Cardinality(Reported(c))
    /\ Reported(c) \cap steady[c] \subseteq Present \cap Matching

(* A flush that answers 200 leaves no matching key that was there all the  *)
(* time, and its count is the number of keys that this flush removed, also *)
(* when the keys expire, or another flush takes them, under its hands.     *)
FlushExact ==
  \A c \in Flushes : Ok(c) =>
    /\ call[c].removed = Cardinality(deleted[c])
    /\ steady[c] \cap Matching \cap Present = {}

(* A flush removes no key outside its pattern, answered or not. *)
FlushScoped == \A c \in Flushes : deleted[c] \subseteq Matching
=============================================================================
