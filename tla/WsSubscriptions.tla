-------------------------- MODULE WsSubscriptions ---------------------------
(***************************************************************************)
(* The WebSocket connections of a provider: the registry of subscriptions  *)
(* (listeners/ws.py), the reader and the writer thread of each connection  *)
(* (_WsHandler in server.py) with the bounded queue between them, and      *)
(* POST /ws/emit, which pushes onto that queue from a control thread.      *)
(*                                                                         *)
(* A frame keeps only what it asks for.  A queued item is a reply, a pong, *)
(* the sentinel, or an event with the emit call that pushed it.  The reader *)
(* holds another reference to the socket, so the close() it calls takes    *)
(* effect only when its handler returns.                                   *)
(***************************************************************************)
EXTENDS Naturals, Sequences, FiniteSets

CONSTANTS Conns,      \* connections that completed the handshake
          Subs,       \* subscription ids, each drawn once
          Emits,      \* POST /ws/emit calls
          QueueMax,   \* maxsize of the queue of a connection (1000 in the code)
          MaxFrames   \* bound: frames that a connection sends

NoConn == "no connection"
NoSub == "no subscription"

ASSUME WsAssumption == QueueMax \in Nat \ {0} /\ MaxFrames \in Nat /\ NoConn \notin Conns

VARIABLES registry,   \* the registered subscription ids
          closed,     \* ids whose Subscription object is marked closed
          owner,      \* owner[s]: the connection that registered s
          reader,     \* reader[c]: the step of the reader thread
          target,     \* target[c]: the subscription the reader is removing
          own,        \* own[c]: connection.subscription_ids
          frames,     \* frames[c]: frames read
          queue,      \* queue[c]: out_queue
          writer,     \* writer[c]: the step of the writer thread
          item,       \* item[c]: what the writer took off the queue
          socket,     \* socket[c]: "open", or "closed"
          stop,       \* stop[c]: what became of the sentinel
          emit,       \* emit[e]: step, subscription and answer
          pushed,     \* emit calls whose event reached a queue
          late,       \* emit calls whose event was queued after the removal
          rows        \* emit calls that wrote a history row

vars == <<registry, closed, owner, reader, target, own, frames, queue, writer, item, socket,
          stop, emit, pushed, late, rows>>

conn == <<reader, target, own, frames>>
wire == <<writer, item, socket, stop>>
push == <<emit, pushed, late, rows>>

Reply == <<"reply", "none">>
Sentinel == <<"sentinel", "none">>
Event(e) == <<"event", e>>

Init ==
  /\ registry = {} /\ closed = {} /\ owner = [s \in Subs |-> NoConn]
  /\ reader = [c \in Conns |-> "reading"] /\ target = [c \in Conns |-> NoSub]
  /\ own = [c \in Conns |-> {}] /\ frames = [c \in Conns |-> 0]
  /\ queue = [c \in Conns |-> <<>>] /\ writer = [c \in Conns |-> "get"]
  /\ item = [c \in Conns |-> Reply] /\ socket = [c \in Conns |-> "open"]
  /\ stop = [c \in Conns |-> "none"]
  /\ emit = [e \in Emits |-> [pc |-> "new", sub |-> NoSub, answer |-> "none"]]
  /\ pushed = {} /\ late = {} /\ rows = {}

-----------------------------------------------------------------------------
(* The queue *)

(* put_nowait on a queue with room. *)
PutNowait(c, x) ==
  /\ Len(queue[c]) < QueueMax
  /\ queue' = [queue EXCEPT ![c] = Append(@, x)]

IsFull(c) == Len(queue[c]) >= QueueMax

-----------------------------------------------------------------------------
(* The reader thread *)

Goes(c, from, to) == reader[c] = from /\ reader' = [reader EXCEPT ![c] = to]

Frame(c, to) ==
  /\ Goes(c, "reading", to)
  /\ frames[c] < MaxFrames /\ frames' = [frames EXCEPT ![c] = @ + 1]

(* Mutant of Fresh: an id is drawn again once its subscription is gone. *)
FreshAgain(s) == s \notin registry

(* The id of register: a random token that no subscription had before. *)
Fresh(s) == owner[s] = NoConn

(* A subscribe frame that the flow serves: the subscription is registered with *)
(* the queue of the connection before the reply is built.                      *)
Subscribe(c, s) ==
  /\ Fresh(s)
  /\ Frame(c, "reply")
  /\ registry' = registry \cup {s}
  /\ owner' = [owner EXCEPT ![s] = c]
  /\ own' = [own EXCEPT ![c] = @ \cup {s}]
  /\ UNCHANGED <<closed, target, queue, wire, push>>

(* A connection removes only a subscription that it owns. *)
MayUnsubscribe(c, s) == s \in own[c] /\ s \in registry

(* unregister, first half: the id leaves the registry under the lock. *)
Unsubscribe(c, s) ==
  /\ MayUnsubscribe(c, s)
  /\ Frame(c, "unsubscribing")
  /\ registry' = registry \ {s} /\ target' = [target EXCEPT ![c] = s]
  /\ UNCHANGED <<closed, owner, own, queue, wire, push>>

(* unregister, second half: the object is marked after the lock is released. *)
MarkClosed(c) ==
  /\ Goes(c, "unsubscribing", "reply")
  /\ closed' = closed \cup {target[c]}
  /\ own' = [own EXCEPT ![c] = @ \ {target[c]}]
  /\ UNCHANGED <<registry, owner, target, frames, queue, wire, push>>

(* Any other frame with a reply, an unsubscribe of a foreign id included. *)
Call(c) ==
  /\ Frame(c, "reply")
  /\ UNCHANGED <<registry, closed, owner, target, own, queue, wire, push>>

(* A frame that is ignored, or one that the scenario leaves without an answer. *)
Silent(c) ==
  /\ Frame(c, "reading")
  /\ UNCHANGED <<registry, closed, owner, target, own, queue, wire, push>>

(* _perform_frame: the reply goes on the queue. *)
QueueReply(c) ==
  /\ Goes(c, "reply", "reading")
  /\ PutNowait(c, Reply)
  /\ UNCHANGED <<registry, closed, owner, target, own, frames, wire, push>>

(* _perform_frame: a full queue ends the connection. *)
QueueFull(c) ==
  /\ Goes(c, "reply", "releasing") /\ IsFull(c)
  /\ UNCHANGED <<registry, closed, owner, target, own, frames, queue, wire, push>>

(* A ping: the pong goes on the queue, or a full queue ends the connection. *)
Ping(c) ==
  /\ \/ Frame(c, "reading") /\ PutNowait(c, Reply)
     \/ Frame(c, "releasing") /\ IsFull(c) /\ UNCHANGED queue
  /\ UNCHANGED <<registry, closed, owner, target, own, wire, push>>

(* The loop ends: a close frame, a drop, a down, a closed port, a peer that is *)
(* gone, a content that raises.                                                *)
ReaderEnds(c) ==
  /\ Goes(c, "reading", "releasing")
  /\ UNCHANGED <<registry, closed, owner, target, own, frames, queue, wire, push>>

(* Mutant of Release: a dead connection keeps what it registered. *)
ReleaseNothing(c) ==
  /\ Goes(c, "releasing", "released")
  /\ UNCHANGED <<registry, closed, owner, target, own, frames, queue, wire, push>>

(* release: each subscription in turn, popped and then marked. *)
Release(c) ==
  /\ IF own[c] = {} THEN Goes(c, "releasing", "released") /\ UNCHANGED <<registry, target>>
     ELSE /\ Goes(c, "releasing", "marking")
          /\ \E s \in own[c] : registry' = registry \ {s} /\ target' = [target EXCEPT ![c] = s]
  /\ UNCHANGED <<closed, owner, own, frames, queue, wire, push>>

ReleaseMark(c) ==
  /\ Goes(c, "marking", "releasing")
  /\ closed' = closed \cup {target[c]}
  /\ own' = [own EXCEPT ![c] = @ \ {target[c]}]
  /\ UNCHANGED <<registry, owner, target, frames, queue, wire, push>>

(* The sentinel, which a full queue drops. *)
PutSentinel(c) ==
  /\ Goes(c, "released", "joining")
  /\ \/ PutNowait(c, Sentinel) /\ stop' = [stop EXCEPT ![c] = "queued"]
     \/ IsFull(c) /\ UNCHANGED queue /\ stop' = [stop EXCEPT ![c] = "dropped"]
  /\ UNCHANGED <<registry, closed, owner, target, own, frames, writer, item, socket, push>>

(* close(), join(timeout=1.0) and the return of the handler, which closes the *)
(* socket whether or not the writer ended in time.                            *)
HandlerReturns(c) ==
  /\ Goes(c, "joining", "ended")
  /\ socket' = [socket EXCEPT ![c] = "closed"]
  /\ UNCHANGED <<registry, closed, owner, target, own, frames, queue, writer, item, stop, push>>

-----------------------------------------------------------------------------
(* The writer thread *)

(* out_queue.get() *)
WriterGet(c) ==
  /\ writer[c] = "get" /\ queue[c] # <<>>
  /\ queue' = [queue EXCEPT ![c] = Tail(@)]
  /\ item' = [item EXCEPT ![c] = Head(queue[c])]
  /\ writer' = [writer EXCEPT ![c] = IF Head(queue[c]) = Sentinel THEN "done" ELSE "send"]
  /\ UNCHANGED <<registry, closed, owner, conn, socket, stop, push>>

(* sendall of a frame, and the OSError that ends the thread. *)
WriterSend(c) ==
  /\ writer[c] = "send"
  /\ writer' = [writer EXCEPT ![c] = IF socket[c] = "open" THEN "get" ELSE "done"]
  /\ UNCHANGED <<registry, closed, owner, conn, queue, item, socket, stop, push>>

-----------------------------------------------------------------------------
(* POST /ws/emit *)

EmitTo(e, from, rec) == emit[e].pc = from /\ emit' = [emit EXCEPT ![e] = rec]

Unknown(e) == [emit[e] EXCEPT !.pc = "done", !.answer = "unknown"]

(* get, under the lock of the registry. *)
EmitGet(e, s) ==
  /\ EmitTo(e, "new", IF s \in registry THEN [emit[e] EXCEPT !.pc = "got", !.sub = s] ELSE Unknown(e))
  /\ UNCHANGED <<registry, closed, owner, conn, queue, wire, pushed, late, rows>>

(* The test of the closed mark, with no lock held. *)
EmitTest(e) ==
  /\ EmitTo(e, "got", IF emit[e].sub \in closed THEN Unknown(e) ELSE [emit[e] EXCEPT !.pc = "put"])
  /\ UNCHANGED <<registry, closed, owner, conn, queue, wire, pushed, late, rows>>

(* put_nowait of the frame on the queue of the connection of the subscription. *)
EmitPut(e) ==
  /\ EmitTo(e, "put", [emit[e] EXCEPT !.pc = "row"])
  /\ PutNowait(owner[emit[e].sub], Event(e))
  /\ pushed' = pushed \cup {e}
  /\ late' = IF emit[e].sub \in closed THEN late \cup {e} ELSE late
  /\ UNCHANGED <<registry, closed, owner, conn, wire, rows>>

EmitFull(e) ==
  /\ EmitTo(e, "put", [emit[e] EXCEPT !.pc = "done", !.answer = "full"])
  /\ IsFull(owner[emit[e].sub])
  /\ UNCHANGED <<registry, closed, owner, conn, queue, wire, pushed, late, rows>>

(* The history row of the push. *)
EmitRow(e) ==
  /\ EmitTo(e, "row", [emit[e] EXCEPT !.pc = "done", !.answer = "emitted"])
  /\ rows' = rows \cup {e}
  /\ UNCHANGED <<registry, closed, owner, conn, queue, wire, pushed, late>>

Reader(c) ==
  \/ \E s \in Subs : Subscribe(c, s) \/ Unsubscribe(c, s)
  \/ MarkClosed(c) \/ Call(c) \/ Silent(c) \/ QueueReply(c) \/ QueueFull(c) \/ Ping(c) \/ ReaderEnds(c)
  \/ Release(c) \/ ReleaseMark(c) \/ PutSentinel(c) \/ HandlerReturns(c)

Writer(c) == WriterGet(c) \/ WriterSend(c)

Emit(e) ==
  \/ \E s \in Subs : EmitGet(e, s)
  \/ EmitTest(e) \/ EmitPut(e) \/ EmitFull(e) \/ EmitRow(e)

Next == (\E c \in Conns : Reader(c) \/ Writer(c)) \/ (\E e \in Emits : Emit(e))

Spec == Init /\ [][Next]_vars

(* Every thread that can take a step takes one.  The reader is not required *)
(* to read another frame.                                                   *)
Fairness ==
  /\ \A c \in Conns : WF_vars(Writer(c))
  /\ \A c \in Conns : WF_vars(Release(c) \/ ReleaseMark(c) \/ PutSentinel(c) \/ HandlerReturns(c))

LiveSpec == Spec /\ Fairness

-----------------------------------------------------------------------------
(* Properties *)

(* Every variable holds a value of its kind, and no queue exceeds its size. *)
TypeOK ==
  /\ registry \subseteq Subs /\ closed \subseteq Subs
  /\ owner \in [Subs -> Conns \cup {NoConn}]
  /\ own \in [Conns -> SUBSET Subs]
  /\ \A c \in Conns : Len(queue[c]) <= QueueMax
  /\ pushed \subseteq Emits /\ rows \subseteq Emits

Live == {"reading", "reply", "unsubscribing", "releasing", "marking"}

(* A registered subscription belongs to a connection whose reader still runs, *)
(* and that connection knows it: an ended connection leaves none behind.      *)
NoOrphan ==
  \A s \in registry : owner[s] \in Conns /\ s \in own[owner[s]] /\ reader[owner[s]] \in Live

(* An event waits only in the queue of the connection that subscribed to it. *)
EventsAtOwner ==
  \A c \in Conns : \A i \in 1..Len(queue[c]) :
    queue[c][i][1] = "event" => owner[emit[queue[c][i][2]].sub] = c

(* The history has one row for each push that reached a queue, and none for *)
(* one that did not, once the call has answered.                            *)
PushRowExact ==
  \A e \in Emits : emit[e].pc = "done" =>
    /\ (emit[e].answer = "emitted") <=> (e \in rows)
    /\ (e \in rows) <=> (e \in pushed)

(* Only a step of its own connection removes a subscription. *)
OwnerRemoves ==
  [][\A s \in registry \ registry' : reader'[owner[s]] # reader[owner[s]]]_vars

(* A writer whose connection ended and whose sentinel was queued comes to its end. *)
SentinelStops == \A c \in Conns : (stop[c] = "queued") ~> (writer[c] = "done")

(* listeners/ws.py, emit: a closed subscription is answered "unknown". *)
(* The code does not keep it: README, section 7.                       *)
ClosedIsUnknown == \A e \in late : emit[e].answer # "emitted"

(* server.py, _ws_writer_loop: "Exits on the sentinel or when the peer       *)
(* disconnects": the writer of an ended connection comes to its end.         *)
(* The code does not keep it: README, section 7.                             *)
WriterExits == \A c \in Conns : (reader[c] = "ended") ~> (writer[c] = "done")
=============================================================================
