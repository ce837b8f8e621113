-------------------------- MODULE ConnectionProofs --------------------------
(***************************************************************************)
(* What a provider keeps of its connections.  For any number of WebSocket  *)
(* connections, subscriptions and emit calls, and any size of the queues:  *)
(* no ended connection leaves a subscription behind, only its own          *)
(* connection removes one, an event waits only in the queue of the         *)
(* connection that subscribed, and the history has exactly one row for     *)
(* each push.  For any number of callers of a port, plans of a reply and   *)
(* sizes of a body: a close ends every connection of the port, and a reply *)
(* is as complete as its plan says.                                        *)
(***************************************************************************)
EXTENDS WsSubscriptions, ProviderPort, TLAPS

USE ZenonT(60)

-----------------------------------------------------------------------------
(* The registry                                                            *)

ReaderSteps == Live \cup {"released", "joining", "ended"}

RegistryTypes ==
  /\ registry \subseteq Subs /\ closed \subseteq Subs
  /\ owner \in [Subs -> Conns \cup {NoConn}]
  /\ own \in [Conns -> SUBSET Subs]
  /\ reader \in [Conns -> ReaderSteps]
  /\ target \in [Conns -> Subs \cup {NoSub}]

(* A connection lists only what it registered itself: removing one of its ids *)
(* touches no other connection.                                               *)
OwnIsOwned == \A c \in Conns : \A s \in own[c] : owner[s] = c

(* An id that is popped and not yet marked stays out of the registry, so that *)
(* taking it off the list of its connection makes no orphan.                  *)
PoppedStaysOut ==
  \A c \in Conns : reader[c] \in {"unsubscribing", "marking"} =>
    target[c] \in Subs \ registry /\ owner[target[c]] # NoConn

RegistryInv == RegistryTypes /\ OwnIsOwned /\ PoppedStaysOut /\ NoOrphan

(* The steps that leave the registry and the lists of the connections alone. *)
registryVars == <<registry, closed, owner, reader, target, own>>

(* Before the first frame nothing is registered. *)
LEMMA InitRegistryInv == Init => RegistryInv
BY SMTT(60) DEF Init, RegistryInv, RegistryTypes, ReaderSteps, Live, OwnIsOwned, PoppedStaysOut, NoOrphan

(* A subscribe frame registers a new id under its connection. *)
LEMMA SubscribeRegistry ==
  ASSUME RegistryInv, NEW c \in Conns, NEW s \in Subs, Subscribe(c, s)
  PROVE  RegistryInv'
<1> USE WsAssumption DEF RegistryInv, Subscribe, Fresh, Frame, Goes
<1>1. RegistryTypes'
  BY DEF RegistryTypes, ReaderSteps, Live
<1>2. OwnIsOwned'
  BY SMTT(60) DEF RegistryTypes, OwnIsOwned
<1>3. PoppedStaysOut'
  BY DEF RegistryTypes, PoppedStaysOut
<1>4. NoOrphan'
  BY SMTT(60) DEF RegistryTypes, NoOrphan, Live
<1> QED
  BY <1>1, <1>2, <1>3, <1>4

(* The first half of unregister: the id is popped. *)
LEMMA UnsubscribeRegistry ==
  ASSUME RegistryInv, NEW c \in Conns, NEW s \in Subs, Unsubscribe(c, s)
  PROVE  RegistryInv'
<1> USE WsAssumption DEF RegistryInv, Unsubscribe, MayUnsubscribe, Frame, Goes
<1>1. RegistryTypes'
  BY DEF RegistryTypes, ReaderSteps, Live
<1>2. OwnIsOwned'
  BY DEF RegistryTypes, OwnIsOwned
<1>3. PoppedStaysOut'
  BY DEF RegistryTypes, OwnIsOwned, PoppedStaysOut
<1>4. NoOrphan'
  BY DEF RegistryTypes, NoOrphan, Live
<1> QED
  BY <1>1, <1>2, <1>3, <1>4

(* The second half, of unregister and of release: the popped id is marked and *)
(* leaves the list of its connection.                                         *)
LEMMA MarkRegistry ==
  ASSUME RegistryInv, NEW c \in Conns, MarkClosed(c) \/ ReleaseMark(c)
  PROVE  RegistryInv'
<1> USE WsAssumption DEF RegistryInv, MarkClosed, ReleaseMark, Goes
<1>0. target[c] \in Subs \ registry
  BY DEF PoppedStaysOut
<1>1. RegistryTypes'
  BY SMTT(60), <1>0 DEF RegistryTypes, ReaderSteps, Live
<1>2. OwnIsOwned'
  BY SMTT(60) DEF RegistryTypes, OwnIsOwned
<1>3. PoppedStaysOut'
  BY DEF RegistryTypes, PoppedStaysOut
<1>4. NoOrphan'
  BY SMTT(60), <1>0 DEF RegistryTypes, NoOrphan, Live
<1> QED
  BY <1>1, <1>2, <1>3, <1>4

(* release pops the next id, or ends when the list is empty: then nothing of *)
(* the connection is in the registry.                                        *)
LEMMA ReleaseRegistry ==
  ASSUME RegistryInv, NEW c \in Conns, Release(c)
  PROVE  RegistryInv'
<1> USE WsAssumption DEF RegistryInv
<1>1. CASE own[c] = {}
  <2> USE <1>1 DEF Release, Goes
  <2>1. RegistryTypes' /\ OwnIsOwned' /\ PoppedStaysOut'
    BY DEF RegistryTypes, OwnIsOwned, PoppedStaysOut, ReaderSteps, Live
  <2>2. NoOrphan'
    BY DEF RegistryTypes, NoOrphan, Live
  <2> QED
    BY <2>1, <2>2
<1>2. CASE own[c] # {}
  <2>1. PICK s \in own[c] : registry' = registry \ {s} /\ target' = [target EXCEPT ![c] = s]
    BY <1>2 DEF Release
  <2>2. /\ reader' = [reader EXCEPT ![c] = "marking"] /\ reader[c] = "releasing"
        /\ UNCHANGED <<closed, owner, own>>
    BY <1>2 DEF Release, Goes
  <2>3. s \in Subs /\ owner[s] = c
    BY <2>1 DEF RegistryTypes, OwnIsOwned
  <2>4. RegistryTypes'
    BY <2>1, <2>2, <2>3 DEF RegistryTypes, ReaderSteps, Live
  <2>5. OwnIsOwned'
    BY <2>1, <2>2 DEF OwnIsOwned
  <2>6. PoppedStaysOut'
    BY <2>1, <2>2, <2>3 DEF RegistryTypes, PoppedStaysOut
  <2>7. NoOrphan'
    BY <2>1, <2>2 DEF RegistryTypes, NoOrphan, Live
  <2> QED
    BY <2>4, <2>5, <2>6, <2>7
<1> QED
  BY <1>1, <1>2

(* A step of the reader between two of its loop states: the connection has no *)
(* popped id on hand, and ends only what it has nothing registered under.     *)
Moves(c, to) ==
  /\ reader' = [reader EXCEPT ![c] = to]
  /\ to \notin {"unsubscribing", "marking"}
  /\ reader[c] \in Live => to \in Live
  /\ UNCHANGED <<registry, closed, owner, target, own>>

(* Such a step keeps the registry consistent. *)
LEMMA MoveRegistry ==
  ASSUME RegistryInv, NEW c \in Conns, NEW to \in ReaderSteps, Moves(c, to)
  PROVE  RegistryInv'
<1> USE DEF RegistryInv, Moves
<1>1. RegistryTypes' /\ OwnIsOwned'
  BY DEF RegistryTypes, OwnIsOwned
<1>2. PoppedStaysOut'
  BY DEF RegistryTypes, PoppedStaysOut
<1>3. NoOrphan'
  BY DEF RegistryTypes, NoOrphan
<1> QED
  BY <1>1, <1>2, <1>3

(* Every step keeps the registry consistent with the connections. *)
LEMMA NextRegistryInv == RegistryInv /\ [Next]_vars => RegistryInv'
<1> SUFFICES ASSUME RegistryInv, [Next]_vars PROVE RegistryInv'
  OBVIOUS
<1>1. ASSUME UNCHANGED registryVars PROVE RegistryInv'
  BY <1>1 DEF registryVars, RegistryInv, RegistryTypes, OwnIsOwned, PoppedStaysOut, NoOrphan
<1>2. CASE UNCHANGED vars
  BY <1>1, <1>2 DEF vars, registryVars
<1>3. ASSUME NEW c \in Conns, Reader(c) PROVE RegistryInv'
  <2>1. ASSUME NEW s \in Subs, Subscribe(c, s) \/ Unsubscribe(c, s) PROVE RegistryInv'
    BY <2>1, SubscribeRegistry, UnsubscribeRegistry
  <2>2. CASE MarkClosed(c) \/ ReleaseMark(c)
    BY <2>2, MarkRegistry
  <2>3. Call(c) => Moves(c, "reply")
    BY DEF Moves, Call, Frame, Goes, Live
  <2>4. Silent(c) => Moves(c, "reading")
    BY DEF Moves, Silent, Frame, Goes, Live
  <2>5. QueueReply(c) => Moves(c, "reading")
    BY DEF Moves, QueueReply, Goes, Live
  <2>6. QueueFull(c) => Moves(c, "releasing")
    BY DEF Moves, QueueFull, Goes, Live
  <2>7. Ping(c) => Moves(c, "reading") \/ Moves(c, "releasing")
    BY DEF Moves, Ping, Frame, Goes, Live
  <2>8. ReaderEnds(c) => Moves(c, "releasing")
    BY DEF Moves, ReaderEnds, Goes, Live
  <2>9. CASE Release(c)
    BY <2>9, ReleaseRegistry
  <2>10. PutSentinel(c) => Moves(c, "joining")
    BY DEF Moves, PutSentinel, Goes, Live
  <2>11. HandlerReturns(c) => Moves(c, "ended")
    BY DEF Moves, HandlerReturns, Goes, Live
  <2> QED
    BY <1>3, <2>1, <2>2, <2>3, <2>4, <2>5, <2>6, <2>7, <2>8, <2>9, <2>10, <2>11, MoveRegistry
    DEF Reader, ReaderSteps, Live
<1>4. ASSUME NEW c \in Conns, Writer(c) PROVE RegistryInv'
  BY <1>1, <1>4 DEF Writer, WriterGet, WriterSend, registryVars, conn
<1>5. ASSUME NEW e \in Emits, Emit(e) PROVE RegistryInv'
  BY <1>1, <1>5 DEF Emit, EmitGet, EmitTest, EmitPut, EmitFull, EmitRow, registryVars, conn
<1> QED
  BY <1>2, <1>3, <1>4, <1>5 DEF Next

(* A registered subscription always belongs to a connection whose reader runs *)
(* and whose list has it (listeners/ws.py, register and release).             *)
THEOREM NoOrphanHolds == Spec => []NoOrphan
<1>1. RegistryInv => NoOrphan
  BY DEF RegistryInv
<1> QED
  BY <1>1, InitRegistryInv, NextRegistryInv, PTL DEF Spec

(* What a step may take out of the registry is owned by the connection whose *)
(* reader takes that step.                                                   *)
LEMMA RemovalMovesOwner ==
  ASSUME RegistryInv, [Next]_vars, NEW s \in registry, s \notin registry'
  PROVE  reader'[owner[s]] # reader[owner[s]]
<1> USE DEF RegistryInv
<1>1. PICK c \in Conns : Reader(c)
  BY DEF Next, vars, Writer, WriterGet, WriterSend, Emit, EmitGet, EmitTest, EmitPut, EmitFull, EmitRow
<1>2. CASE Release(c)
  <2>1. own[c] # {} /\ reader[c] = "releasing" /\ reader' = [reader EXCEPT ![c] = "marking"]
    BY <1>2 DEF Release, Goes
  <2>2. PICK t \in own[c] : registry' = registry \ {t}
    BY <1>2, <2>1 DEF Release
  <2>3. s = t /\ owner[s] = c
    BY <2>2 DEF OwnIsOwned
  <2> QED
    BY <2>1, <2>3 DEF RegistryTypes
<1>3. CASE \E t \in Subs : Unsubscribe(c, t)
  <2>1. s \in own[c] /\ reader[c] = "reading" /\ reader' = [reader EXCEPT ![c] = "unsubscribing"]
    BY <1>3 DEF Unsubscribe, MayUnsubscribe, Frame, Goes
  <2> QED
    BY SMTT(60), <2>1 DEF RegistryTypes, OwnIsOwned
<1>4. ~Release(c) /\ ~(\E t \in Subs : Unsubscribe(c, t)) => registry \subseteq registry'
  BY <1>1 DEF Reader, Subscribe, MarkClosed, Call, Silent, QueueReply, QueueFull, Ping, ReaderEnds,
              ReleaseMark, PutSentinel, HandlerReturns
<1> QED
  BY <1>2, <1>3, <1>4

(* Only a step of its own connection removes a subscription (the ownership *)
(* test of unsubscribe and the loop of release in listeners/ws.py).        *)
THEOREM OwnerRemovesHolds == Spec => OwnerRemoves
<1>1. RegistryInv /\ [Next]_vars =>
        [\A s \in registry \ registry' : reader'[owner[s]] # reader[owner[s]]]_vars
  BY RemovalMovesOwner
<1> QED
  BY <1>1, InitRegistryInv, NextRegistryInv, PTL DEF Spec, OwnerRemoves

-----------------------------------------------------------------------------
(* The events                                                              *)

Items == {Reply, Sentinel} \cup {Event(e) : e \in Emits}
EmitSteps == {"new", "got", "put", "row", "done"}

EmitRecords == [pc : EmitSteps, sub : Subs \cup {NoSub}, answer : {"none", "unknown", "full", "emitted"}]

EventTypes ==
  /\ owner \in [Subs -> Conns \cup {NoConn}]
  /\ queue \in [Conns -> Seq(Items)]
  /\ emit \in [Emits -> EmitRecords]
  /\ pushed \subseteq Emits /\ rows \subseteq Emits

(* Between its lookup and its row an emit call works on a subscription with an *)
(* owner, and its step tells whether it has pushed.                            *)
EmitPhase(e) ==
  /\ emit[e].pc \in {"got", "put", "row"} => emit[e].sub \in Subs /\ owner[emit[e].sub] \in Conns
  /\ emit[e].pc \in {"new", "got", "put"} => e \notin pushed /\ e \notin rows
  /\ emit[e].pc = "row" => e \in pushed /\ e \notin rows

EmitPhases == \A e \in Emits : EmitPhase(e)

(* A queued event is of a call that has pushed, to the owner of its subscription. *)
Placed(x, c) ==
  x[1] = "event" =>
    x[2] \in Emits /\ emit[x[2]].pc \in {"row", "done"} /\ owner[emit[x[2]].sub] = c

QueuedPlaced == \A c \in Conns : \A i \in 1..Len(queue[c]) : Placed(queue[c][i], c)

EventInv == EventTypes /\ EmitPhases /\ QueuedPlaced /\ PushRowExact

(* An item put on a queue is its last one, the others stay where they were. *)
LEMMA AppendItem ==
  ASSUME NEW S, NEW q \in Seq(S), NEW x \in S
  PROVE  /\ Append(q, x) \in Seq(S)
         /\ \A i \in 1..Len(Append(q, x)) :
              Append(q, x)[i] = x \/ (i \in 1..Len(q) /\ Append(q, x)[i] = q[i])
BY SMTT(60)

(* What is left of a queue after get() was in it before. *)
LEMMA TailItem ==
  ASSUME NEW S, NEW q \in Seq(S), q # <<>>
  PROVE  /\ Tail(q) \in Seq(S)
         /\ \A i \in 1..Len(Tail(q)) : i + 1 \in 1..Len(q) /\ Tail(q)[i] = q[i + 1]
BY SMTT(60)

(* Nothing is queued before the first frame. *)
LEMMA InitEventInv == Init => EventInv
BY SMTT(60) DEF Init, EventInv, EventTypes, Items, EmitRecords, EmitSteps, EmitPhases, EmitPhase,
   QueuedPlaced, PushRowExact

(* A new subscription has no event yet: the owner of every other one stays. *)
LEMMA SubscribeEvents ==
  ASSUME EventInv, NEW c \in Conns, NEW s \in Subs, Subscribe(c, s)
  PROVE  EventInv'
<1> USE WsAssumption DEF EventInv, Subscribe, Fresh, push
<1>1. EventTypes'
  BY DEF EventTypes
<1>2. EmitPhases'
  BY DEF EventTypes, EmitPhases, EmitPhase
<1>3. QueuedPlaced'
  BY SMTT(60) DEF EventTypes, QueuedPlaced, Placed
<1>4. PushRowExact'
  BY DEF PushRowExact
<1> QED
  BY <1>1, <1>2, <1>3, <1>4

(* A reply or the sentinel goes on the queue of a connection. *)
LEMMA PutEvents ==
  ASSUME EventInv, NEW c \in Conns, NEW x \in {Reply, Sentinel}, PutNowait(c, x),
         UNCHANGED <<owner, emit, pushed, rows>>
  PROVE  EventInv'
<1> USE DEF EventInv
<1>0. x \in Items /\ x[1] # "event" /\ queue[c] \in Seq(Items) /\ queue' = [queue EXCEPT ![c] = Append(queue[c], x)]
  BY SMTT(60) DEF Items, Reply, Sentinel, EventTypes, PutNowait
<1>1. EventTypes' /\ EmitPhases' /\ PushRowExact'
  BY <1>0, AppendItem DEF EventTypes, EmitPhases, EmitPhase, PushRowExact
<1>2. QueuedPlaced'
  <2> SUFFICES ASSUME NEW d \in Conns, NEW i \in 1..Len(queue'[d]) PROVE Placed(queue[d][i], d)'
    BY DEF QueuedPlaced
  <2>1. queue'[d][i] = x \/ (i \in 1..Len(queue[d]) /\ queue'[d][i] = queue[d][i])
    BY SMTT(60), <1>0, AppendItem DEF EventTypes
  <2> QED
    BY SMTT(60), <1>0, <2>1 DEF QueuedPlaced, Placed
<1> QED
  BY <1>1, <1>2

(* The writer takes the head off the queue of its connection. *)
LEMMA GetEvents ==
  ASSUME EventInv, NEW c \in Conns, WriterGet(c)
  PROVE  EventInv'
<1> USE DEF EventInv
<1>0. /\ queue[c] \in Seq(Items) /\ queue[c] # <<>> /\ queue' = [queue EXCEPT ![c] = Tail(queue[c])]
      /\ UNCHANGED <<owner, emit, pushed, rows>>
  BY DEF EventTypes, WriterGet, push
<1>1. EventTypes' /\ EmitPhases' /\ PushRowExact'
  BY <1>0, TailItem DEF EventTypes, EmitPhases, EmitPhase, PushRowExact
<1>2. QueuedPlaced'
  <2> SUFFICES ASSUME NEW d \in Conns, NEW i \in 1..Len(queue'[d]) PROVE Placed(queue[d][i], d)'
    BY DEF QueuedPlaced
  <2>1. \E j \in 1..Len(queue[d]) : queue'[d][i] = queue[d][j]
    BY SMTT(60), <1>0, TailItem DEF EventTypes
  <2> QED
    BY SMTT(60), <1>0, <2>1 DEF QueuedPlaced, Placed
<1> QED
  BY <1>1, <1>2

(* A step of an emit call that queues nothing: only its own record changes,  *)
(* and a call that had pushed keeps its subscription, so that its event stays *)
(* where it belongs.                                                          *)
Advances(e, x) ==
  /\ emit' = [emit EXCEPT ![e] = x]
  /\ x.pc \in {"got", "put"} => x.sub \in Subs /\ owner[x.sub] \in Conns /\ e \notin pushed /\ e \notin rows'
  /\ x.pc \notin {"new", "row"}
  /\ emit[e].pc = "row" => x.pc = "done" /\ x.sub = emit[e].sub
  /\ emit[e].pc # "done"
  /\ x.pc = "done" =>
       (x.answer = "emitted" <=> e \in rows') /\ (e \in rows' <=> e \in pushed)
  /\ rows' \in {rows, rows \cup {e}}
  /\ UNCHANGED <<owner, queue, pushed>>

(* Such a step keeps the events where they belong. *)
LEMMA AdvanceEvents ==
  ASSUME EventInv, NEW e \in Emits, NEW x \in EmitRecords, Advances(e, x)
  PROVE  EventInv'
<1> USE DEF EventInv, Advances
<1>1. EventTypes'
  BY DEF EventTypes
<1>2. EmitPhases'
  <2> SUFFICES ASSUME NEW d \in Emits PROVE EmitPhase(d)'
    BY DEF EmitPhases
  <2>1. EmitPhase(d)
    BY DEF EmitPhases
  <2>2. CASE d = e
    BY <2>2 DEF EventTypes, EmitPhase
  <2>3. CASE d # e
    <3>1. emit'[d] = emit[d] /\ (d \in rows' <=> d \in rows)
      BY <2>3 DEF EventTypes
    <3> QED
      BY <2>1, <3>1 DEF EmitPhase
  <2> QED
    BY <2>2, <2>3
<1>3. QueuedPlaced'
  <2> SUFFICES ASSUME NEW d \in Conns, NEW i \in 1..Len(queue[d]) PROVE Placed(queue[d][i], d)'
    BY DEF QueuedPlaced
  <2>1. Placed(queue[d][i], d)
    BY DEF QueuedPlaced
  <2> QED
    BY <2>1 DEF Placed, EventTypes
<1>4. PushRowExact'
  BY DEF EventTypes, PushRowExact
<1> QED
  BY <1>1, <1>2, <1>3, <1>4

(* The lookup, the test, the full queue and the row are such steps. *)
LEMMA EmitEvents ==
  ASSUME RegistryInv, EventInv, NEW e \in Emits,
         (\E s \in Subs : EmitGet(e, s)) \/ EmitTest(e) \/ EmitFull(e) \/ EmitRow(e)
  PROVE  EventInv'
<1> USE DEF EventInv, EmitTo, Unknown, EmitRecords, EmitSteps, Advances
<1>0. emit[e] \in EmitRecords
  BY DEF EventTypes
<1>1. ASSUME NEW s \in Subs, EmitGet(e, s) PROVE \E x \in EmitRecords : Advances(e, x)
  <2> USE <1>0
  <2>1. CASE s \in registry
    <3> WITNESS [emit[e] EXCEPT !.pc = "got", !.sub = s] \in EmitRecords
    <3> QED
      BY <1>0, <1>1, <2>1 DEF EmitGet, EmitPhases, EmitPhase, RegistryInv, NoOrphan
  <2>2. CASE s \notin registry
    <3> WITNESS Unknown(e) \in EmitRecords
    <3> QED
      BY <1>0, <1>1, <2>2 DEF EmitGet, EmitPhases, EmitPhase
  <2> QED
    BY <2>1, <2>2
<1>2. CASE EmitTest(e)
  BY <1>0, <1>2, AdvanceEvents DEF EmitTest, EmitPhases, EmitPhase
<1>3. CASE EmitFull(e)
  BY <1>0, <1>3, AdvanceEvents DEF EmitFull, EmitPhases, EmitPhase
<1>4. CASE EmitRow(e)
  BY <1>0, <1>4, AdvanceEvents DEF EmitRow, EmitPhases, EmitPhase
<1> QED
  BY <1>1, <1>2, <1>3, <1>4, AdvanceEvents

(* The push: the event goes to the queue of the owner of its subscription. *)
LEMMA PushEvents ==
  ASSUME EventInv, NEW e \in Emits, EmitPut(e)
  PROVE  EventInv'
<1> DEFINE c == owner[emit[e].sub]
<1> USE DEF EventInv
<1>0. /\ emit[e].pc = "put" /\ emit' = [emit EXCEPT ![e] = [emit[e] EXCEPT !.pc = "row"]]
      /\ queue' = [queue EXCEPT ![c] = Append(queue[c], Event(e))]
      /\ pushed' = pushed \cup {e} /\ UNCHANGED <<owner, rows>>
  BY DEF EmitPut, EmitTo, PutNowait
<1>1. emit[e].sub \in Subs /\ c \in Conns /\ queue[c] \in Seq(Items) /\ Event(e) \in Items
  BY <1>0 DEF EmitPhases, EmitPhase, EventTypes, Items
<1>r. emit'[e].pc = "row" /\ emit'[e].sub = emit[e].sub
  BY <1>0 DEF EventTypes, EmitRecords
<1>2. EventTypes'
  <2>1. queue' \in [Conns -> Seq(Items)]
    BY <1>0, <1>1, AppendItem DEF EventTypes
  <2>2. [emit[e] EXCEPT !.pc = "row"] \in EmitRecords
    BY DEF EventTypes, EmitRecords, EmitSteps
  <2> QED
    BY <1>0, <2>1, <2>2 DEF EventTypes
<1>3. EmitPhases'
  <2> SUFFICES ASSUME NEW d \in Emits PROVE EmitPhase(d)'
    BY DEF EmitPhases
  <2>1. EmitPhase(d)
    BY DEF EmitPhases
  <2>2. CASE d = e
    BY <1>0, <1>r, <1>1, <2>1, <2>2 DEF EmitPhase
  <2>3. CASE d # e
    <3>1. emit'[d] = emit[d] /\ (d \in pushed' <=> d \in pushed)
      BY <1>0, <2>3 DEF EventTypes
    <3> QED
      BY <1>0, <2>1, <3>1 DEF EmitPhase
  <2> QED
    BY <2>2, <2>3
<1>4. QueuedPlaced'
  <2> SUFFICES ASSUME NEW d \in Conns, NEW i \in 1..Len(queue'[d]) PROVE Placed(queue[d][i], d)'
    BY DEF QueuedPlaced
  <2>1. (d = c /\ queue'[d][i] = Event(e)) \/ (i \in 1..Len(queue[d]) /\ queue'[d][i] = queue[d][i])
    BY SMTT(60), <1>0, <1>1, AppendItem DEF EventTypes
  <2>2. CASE d = c /\ queue'[d][i] = Event(e)
    <3>1. Event(e)[2] = e
      BY DEF Event
    <3>2. emit'[e].pc = "row" /\ owner'[emit'[e].sub] = d
      BY <1>0, <1>r, <2>2
    <3> QED
      BY <2>2, <3>1, <3>2 DEF Placed
  <2>3. CASE i \in 1..Len(queue[d]) /\ queue'[d][i] = queue[d][i]
    <3>1. Placed(queue[d][i], d)
      BY <2>3 DEF QueuedPlaced
    <3> QED
      BY <1>0, <2>3, <3>1 DEF Placed, EventTypes
  <2> QED
    BY <2>1, <2>2, <2>3
<1>5. PushRowExact'
  BY SMTT(60), <1>0 DEF EventTypes, PushRowExact
<1> QED
  BY <1>2, <1>3, <1>4, <1>5

(* Every step keeps the events where they belong and the rows exact. *)
LEMMA NextEventInv == RegistryInv /\ EventInv /\ [Next]_vars => EventInv'
<1> SUFFICES ASSUME RegistryInv, EventInv, [Next]_vars PROVE EventInv'
  OBVIOUS
<1> DEFINE Same == UNCHANGED <<owner, queue, emit, pushed, rows>>
           Puts(c) == /\ PutNowait(c, Reply) \/ PutNowait(c, Sentinel)
                      /\ UNCHANGED <<owner, emit, pushed, rows>>
<1>1. Same => EventInv'
  BY SMTT(60) DEF EventInv, EventTypes, EmitPhases, EmitPhase, QueuedPlaced, Placed, PushRowExact
<1>2. CASE UNCHANGED vars
  BY <1>1, <1>2 DEF vars
<1>3. ASSUME NEW c \in Conns, Reader(c) PROVE EventInv'
  <2>1. ASSUME NEW s \in Subs, Subscribe(c, s) PROVE EventInv'
    BY <2>1, SubscribeEvents
  <2>2. ASSUME NEW s \in Subs, Unsubscribe(c, s) PROVE Same
    BY <2>2 DEF Unsubscribe, push
  <2>3. MarkClosed(c) \/ Call(c) \/ Silent(c) \/ QueueFull(c) \/ ReaderEnds(c) \/ Release(c)
          \/ ReleaseMark(c) \/ HandlerReturns(c) => Same
    BY DEF MarkClosed, Call, Silent, QueueFull, ReaderEnds, Release, ReleaseMark, HandlerReturns, push
  <2>4. QueueReply(c) \/ Ping(c) \/ PutSentinel(c) => Same \/ Puts(c)
    BY DEF QueueReply, Ping, PutSentinel, push
  <2>5. Puts(c) => EventInv'
    BY PutEvents
  <2> QED
    BY <1>1, <1>3, <2>1, <2>2, <2>3, <2>4, <2>5 DEF Reader
<1>4. ASSUME NEW c \in Conns, Writer(c) PROVE EventInv'
  BY <1>1, <1>4, GetEvents DEF Writer, WriterSend, push
<1>5. ASSUME NEW e \in Emits, Emit(e) PROVE EventInv'
  BY <1>5, EmitEvents, PushEvents DEF Emit
<1> QED
  BY <1>2, <1>3, <1>4, <1>5 DEF Next

(* An event waits only in the queue of the connection that subscribed to it *)
(* (emit in listeners/ws.py pushes onto the queue of the subscription).     *)
THEOREM EventsAtOwnerHolds == Spec => []EventsAtOwner
<1>1. EventInv => EventsAtOwner
  BY DEF EventInv, QueuedPlaced, Placed, EventsAtOwner
<1> QED
  BY <1>1, InitRegistryInv, NextRegistryInv, InitEventInv, NextEventInv, PTL DEF Spec

(* Once an emit call has answered, the history has its row exactly when its *)
(* event reached a queue (emit in listeners/ws.py).                         *)
THEOREM PushRowExactHolds == Spec => []PushRowExact
<1>1. EventInv => PushRowExact
  BY DEF EventInv
<1> QED
  BY <1>1, InitRegistryInv, NextRegistryInv, InitEventInv, NextEventInv, PTL DEF Spec

-----------------------------------------------------------------------------
(* The size of the queues                                                  *)

QueuesSmall == \A c \in Conns : Len(queue[c]) <= QueueMax

(* Whoever puts an item on a queue found room for it. *)
LEMMA NextQueuesSmall == EventInv /\ EventInv' /\ QueuesSmall /\ [Next]_vars => QueuesSmall'
<1> SUFFICES ASSUME EventInv, EventInv', QueuesSmall, [Next]_vars PROVE QueuesSmall'
  OBVIOUS
<1> USE WsAssumption
<1>0. queue \in [Conns -> Seq(Items)] /\ queue' \in [Conns -> Seq(Items)]
  BY DEF EventInv, EventTypes
<1>1. ASSUME NEW c \in Conns, NEW x, PutNowait(c, x) PROVE QueuesSmall'
  BY SMTT(60), <1>0, <1>1 DEF PutNowait, QueuesSmall
<1>2. ASSUME NEW c \in Conns, WriterGet(c) PROVE QueuesSmall'
  <2>1. queue[c] # <<>> /\ queue' = [queue EXCEPT ![c] = Tail(queue[c])]
    BY <1>2 DEF WriterGet
  <2>2. Len(Tail(queue[c])) <= QueueMax
    BY SMTT(60), <1>0, <2>1 DEF QueuesSmall
  <2> QED
    BY <1>0, <2>1, <2>2 DEF QueuesSmall
<1>3. ASSUME NEW e \in Emits, EmitPut(e) PROVE QueuesSmall'
  <2>1. owner[emit[e].sub] \in Conns
    BY <1>3 DEF EventInv, EmitPhases, EmitPhase, EmitPut, EmitTo
  <2> QED
    BY <1>1, <1>3, <2>1 DEF EmitPut
<1>4. UNCHANGED queue => QueuesSmall'
  BY DEF QueuesSmall
<1>5. ASSUME NEW c \in Conns, Reader(c) PROVE UNCHANGED queue \/ \E x : PutNowait(c, x)
  BY <1>5 DEF Reader, Subscribe, Unsubscribe, MarkClosed, Call, Silent, QueueReply, QueueFull, Ping,
              ReaderEnds, Release, ReleaseMark, PutSentinel, HandlerReturns
<1>6. ASSUME NEW c \in Conns, Writer(c) PROVE UNCHANGED queue \/ WriterGet(c)
  BY <1>6 DEF Writer, WriterSend
<1>7. ASSUME NEW e \in Emits, Emit(e) PROVE UNCHANGED queue \/ EmitPut(e)
  BY <1>7 DEF Emit, EmitGet, EmitTest, EmitFull, EmitRow
<1>8. UNCHANGED vars => UNCHANGED queue
  BY DEF vars
<1> QED
  BY <1>1, <1>2, <1>3, <1>4, <1>5, <1>6, <1>7, <1>8 DEF Next

(* Every variable keeps its kind, and no queue grows past the maxsize that   *)
(* _WsHandler gives it (server.py), whoever puts items on it.                *)
THEOREM TypeCorrect == Spec => []TypeOK
<1>1. Init => QueuesSmall
  BY SMTT(60), WsAssumption DEF Init, QueuesSmall
<1>2. RegistryInv /\ EventInv /\ QueuesSmall => TypeOK
  BY DEF RegistryInv, RegistryTypes, EventInv, EventTypes, QueuesSmall, TypeOK
<1> QED
  BY <1>1, <1>2, InitRegistryInv, NextRegistryInv, InitEventInv, NextEventInv, NextQueuesSmall, PTL DEF Spec

-----------------------------------------------------------------------------
(* The connections of a provider port                                      *)

(* The steps of a worker whose connection is recorded. *)
Recorded == {"read", "run", "body", "perform", "write", "rest", "finish"}

PortTypes ==
  /\ closer \in {"idle", "flagged", "clients", "returned", "raised"}
  /\ closed_by_scenario \in BOOLEAN
  /\ clients \subseteq Callers /\ copy \subseteq Callers
  /\ worker \in [Callers -> {"none", "queued", "accepted", "ending", "done"} \cup Recorded]
  /\ sock \in [Callers -> {"open", "shut", "closed", "gone"}]

(* A recorded connection that a close has not ended yet is one that it still has to end. *)
ClientInv ==
  /\ closed_by_scenario <=> closer # "idle"
  /\ closer = "returned" => copy = {}
  /\ after = {}
  /\ \A c \in Callers :
       /\ c \in clients <=> worker[c] \in Recorded
       /\ worker[c] \in {"none", "queued", "accepted"} => sock[c] = "open" /\ c \notin copy
       /\ sock[c] = "closed" => worker[c] = "done"
       /\ sock[c] = "shut" => closed_by_scenario
       /\ closed_by_scenario /\ worker[c] \in Recorded => c \in copy \/ sock[c] # "open"

PortInv == PortTypes /\ ClientInv

-----------------------------------------------------------------------------

(* A port starts with no connection and no close. *)
LEMMA PortInvInit == PortInit => PortInv
BY DEF PortInit, PortInv, PortTypes, ClientInv, Recorded

(* The steps of the serve loop and of a caller. *)
LEMMA ServePort ==
  ASSUME PortInv, NEW c \in Callers, Connect(c) \/ Accept(c) \/ Record(c) \/ CallerGone(c)
  PROVE  PortInv'
<1> USE DEF PortInv, PortTypes, ClientInv, Recorded, server, handler
<1>1. CASE Connect(c) \/ Accept(c)
  BY SMTT(60), <1>1 DEF Connect, Accept, WorkerGoes
<1>2. CASE Record(c)
  BY SMTT(60), <1>2 DEF Record, WorkerGoes
<1>3. CASE CallerGone(c)
  BY <1>3 DEF CallerGone
<1> QED BY <1>1, <1>2, <1>3

(* The steps of close_port. *)
LEMMA ClosePort ==
  ASSUME PortInv, Close
  PROVE  PortInv'
<1> USE DEF PortInv, PortTypes, ClientInv, Recorded, handler
<1>1. CASE CloseFlag
  BY <1>1 DEF CloseFlag
<1>2. CASE CloseListening
  BY <1>2 DEF CloseListening
<1>3. ASSUME NEW c \in Callers, CloseClient(c) PROVE PortInv'
  <2>1. closer = "clients" /\ copy' = copy \ {c} /\ UNCHANGED <<closed_by_scenario, closer, clients, worker, after>>
    BY <1>3 DEF CloseClient
  <2>2. sock' \in [Callers -> {"open", "shut", "closed", "gone"}] /\ sock'[c] # "open"
    BY <1>3 DEF CloseClient
  <2>3. \A d \in Callers : sock'[d] = sock[d] \/ (d = c /\ sock[d] = "open" /\ sock'[d] = "shut")
    BY <1>3 DEF CloseClient
  <2>4. PortTypes'
    BY <2>1, <2>2
  <2>5. worker[c] \notin {"none", "queued", "accepted"}
    BY <1>3 DEF CloseClient
  <2> QED BY <2>1, <2>2, <2>3, <2>4, <2>5
<1>4. CASE CloseReturns
  BY <1>4 DEF CloseReturns
<1>5. CASE ServeStops
  BY <1>5 DEF ServeStops
<1> QED BY <1>1, <1>2, <1>3, <1>4, <1>5 DEF Close

(* A worker that goes on among the recorded steps changes nothing of the clients. *)
LEMMA GoOnPort ==
  ASSUME PortInv, NEW c \in Callers, worker[c] \in Recorded, NEW to \in Recorded,
         worker' = [worker EXCEPT ![c] = to], UNCHANGED <<server, clients, sock, after>>
  PROVE  PortInv'
BY SMTT(60) DEF PortInv, PortTypes, ClientInv, Recorded, server

(* Nothing is written to a client after the close returned. *)
LEMMA WritesPort ==
  ASSUME PortInv, NEW c \in Callers, worker[c] \in Recorded, NEW to \in Recorded, NEW reply, Writes(c, to, reply)
  PROVE  PortInv'
<1>1. after' = after
  BY DEF PortInv, PortTypes, ClientInv, Writes, Lost
<1>2. PICK step \in Recorded : worker' = [worker EXCEPT ![c] = step]
  BY DEF Writes, Recorded
<1> QED BY <1>1, <1>2, GoOnPort DEF Writes

(* Every step of a worker keeps the invariant of the connections. *)
LEMMA WorkPort ==
  ASSUME PortInv, NEW c \in Callers, Work(c)
  PROVE  PortInv'
<1>1. CASE ReadHeaders(c) \/ Run(c) \/ ReadBody(c) \/ PerformHang(c)
  <2>1. worker[c] \in Recorded /\ UNCHANGED <<server, clients, sock, after>>
    BY <1>1 DEF ReadHeaders, Run, ReadBody, PerformHang, WorkerGoes, handler, Recorded
  <2>2. PICK to \in Recorded : worker' = [worker EXCEPT ![c] = to]
    BY <1>1 DEF ReadHeaders, Run, ReadBody, PerformHang, WorkerGoes, Recorded
  <2> QED BY <2>1, <2>2, GoOnPort
<1>2. CASE PerformNoBody(c) \/ PerformHeaders(c) \/ PerformBody(c) \/ PerformRest(c)
  <2>1. worker[c] \in Recorded
    BY <1>2 DEF PerformNoBody, PerformHeaders, PerformBody, PerformRest, Is, Recorded
  <2>2. \E to \in Recorded : \E reply : Writes(c, to, reply)
    <3>1. CASE PerformNoBody(c)
      BY <3>1 DEF PerformNoBody, Recorded
    <3>2. CASE PerformHeaders(c)
      BY <3>2 DEF PerformHeaders, Recorded
    <3>3. CASE PerformBody(c)
      BY <3>3 DEF PerformBody, Recorded
    <3>4. CASE PerformRest(c)
      BY <3>4 DEF PerformRest, Recorded
    <3> QED BY <1>2, <3>1, <3>2, <3>3, <3>4
  <2> QED BY <2>1, <2>2, WritesPort
<1>3. CASE PerformDrop(c)
  <2>1. worker[c] \in Recorded /\ "finish" \in Recorded
    BY <1>3 DEF PerformDrop, Is, Recorded
  <2>2. CASE plan[c][1].at = "before_headers"
    BY <1>3, <2>1, <2>2, GoOnPort DEF PerformDrop, WorkerGoes, handler
  <2>3. CASE plan[c][1].at # "before_headers"
    <3>1. \E reply : Writes(c, "finish", reply)
      BY <1>3, <2>3 DEF PerformDrop
    <3> QED BY <2>1, <3>1, WritesPort
  <2> QED BY <2>2, <2>3
<1>4. CASE Forget(c)
  BY <1>4 DEF Forget, WorkerGoes, PortInv, PortTypes, ClientInv, Recorded, server, handler
<1>5. CASE ShutdownRequest(c)
  BY <1>5 DEF ShutdownRequest, WorkerGoes, PortInv, PortTypes, ClientInv, Recorded, server, handler
<1> QED BY <1>1, <1>2, <1>3, <1>4, <1>5 DEF Work

(* Every step keeps the invariant of the connections. *)
LEMMA PortInvNext == PortInv /\ [PortNext]_portVars => PortInv'
<1> SUFFICES ASSUME PortInv, [PortNext]_portVars PROVE PortInv'
  OBVIOUS
<1>1. CASE UNCHANGED portVars
  BY <1>1 DEF portVars, PortInv, PortTypes, ClientInv
<1>2. CASE PortNext
  BY <1>2, ClosePort, ServePort, WorkPort DEF PortNext
<1> QED BY <1>1, <1>2

(* A row is written on an open port only. *)
LEMMA RowsStep == PortNext => RowsOnOpenPortStep
<1> SUFFICES ASSUME PortNext, portRows' # portRows PROVE ~closed_by_scenario
  BY DEF RowsOnOpenPortStep
<1>1. PICK c \in Callers : Run(c)
  <2>1. ~Close
    BY DEF Close, CloseFlag, CloseListening, CloseClient, CloseReturns, ServeStops, handler
  <2>2. PICK c \in Callers : Connect(c) \/ Accept(c) \/ Record(c) \/ CallerGone(c) \/ Work(c)
    BY <2>1 DEF PortNext
  <2>3. Work(c)
    BY <2>2 DEF Connect, Accept, Record, CallerGone, handler
  <2>4. Run(c)
    BY <2>3 DEF Work, ReadHeaders, ReadBody, PerformHang, PerformNoBody, PerformDrop, PerformHeaders, PerformBody,
                PerformRest, Forget, ShutdownRequest, Writes, handler
  <2> QED BY <2>4
<1> QED BY <1>1 DEF Run, PortIsClosed

(* When close_port has returned, each client socket is ended, or get_request ends it, or its  *)
(* reply was complete; no byte of a reply goes out after that, and a row is written only on a *)
(* port that is not closed (_ProviderHTTPServer.close_port, get_request).                     *)
THEOREM ClosesCorrect == PortSpec => CloseEndsAll
<1>1. PortInv => EveryClientEnded /\ SilentAfterClose
  BY DEF PortInv, PortTypes, ClientInv, Recorded, EveryClientEnded, SilentAfterClose
<1>2. PortInv' => EveryClientEnded' /\ SilentAfterClose'
  BY <1>1, PTL
<1>3. PortInv' /\ [PortNext]_portVars => [EveryClientEnded' /\ SilentAfterClose' /\ RowsOnOpenPortStep]_portVars
  BY <1>2, RowsStep
<1> QED BY <1>3, PortInvInit, PortInvNext, PTL DEF PortSpec, CloseEndsAll

-----------------------------------------------------------------------------
(* The replies                                                             *)

(* The headers and the type of a reply fit its plan. *)
Fitting(p, reply) ==
  /\ \A n \in DOMAIN reply.names : reply.names[n] = 1
  /\ p.chosen \subseteq DOMAIN reply.names
  /\ reply.type = "text/plain" => p.body = "str" /\ p.corruption # "null_body"

(* The bytes of a reply that is over. *)
Over(c) ==
  /\ plan[c][1].action = "drop" => out[c].sent < out[c].declared
  /\ plan[c][1].action = "respond" =>
       \/ out[c].sent = IF plan[c][1].head THEN 0 ELSE out[c].declared
       \/ closed_by_scenario \/ sock[c] = "gone"

(* The bytes of a reply whose body is not written to its end. *)
UnderWay(c) ==
  LET p == plan[c][1]
  IN  /\ p.action = "respond" /\ ~p.head
      /\ out[c].declared = Serialize(p)
      /\ out[c].sent = IF worker[c] = "rest" THEN Half(Serialize(p)) ELSE 0

(* What was written to a connection, by the step of its worker. *)
Told(c) ==
  /\ out[c] = [names |-> out[c].names, type |-> out[c].type, declared |-> out[c].declared, sent |-> out[c].sent]
  /\ plan[c] = <<>> \/ \E p \in Plans : plan[c] = <<p>>
  /\ worker[c] \in {"none", "queued", "accepted", "read", "run", "body"} => plan[c] = <<>> /\ out[c] = Nothing
  /\ worker[c] = "perform" => plan[c] # <<>> /\ out[c] = Nothing
  /\ worker[c] \in {"write", "rest"} => plan[c] # <<>> /\ UnderWay(c)
  /\ out[c] = Nothing \/ (plan[c] # <<>> /\ Fitting(plan[c][1], out[c]))
  /\ worker[c] \in {"finish", "ending", "done"} /\ out[c].declared >= 0 => Over(c)

ReplyInv ==
  /\ plan = [c \in Callers |-> plan[c]] /\ out = [c \in Callers |-> out[c]]
  /\ \A c \in Callers : Told(c)

(* The size of a body is a number. *)
LEMMA SizeType ==
  ASSUME NEW p \in Plans
  PROVE  Serialize(p) \in Nat
BY SMTT(60), PortAssumption DEF Serialize

(* Headers writes each name once. *)
LEMMA HeadersFit ==
  ASSUME NEW p, NEW names
  PROVE  /\ \A n \in DOMAIN Headers(p, names) : Headers(p, names)[n] = 1
         /\ p.chosen \subseteq DOMAIN Headers(p, names)
BY SMTT(60) DEF Headers, OwnHeaders

(* A step elsewhere, or a close, changes nothing of what was told. *)
LEMMA ToldStays ==
  ASSUME NEW c \in Callers, Told(c), worker'[c] = worker[c], plan'[c] = plan[c], out'[c] = out[c],
         sock[c] = "gone" => sock'[c] = "gone", closed_by_scenario => closed_by_scenario'
  PROVE  Told(c)'
BY DEF Told, Over, UnderWay

(* A worker that moves on without a write, to a step of which less is told. *)
LEMMA ToldMoves ==
  ASSUME NEW c \in Callers, Told(c), plan'[c] = plan[c], out'[c] = out[c],
         sock[c] = "gone" => sock'[c] = "gone", closed_by_scenario => closed_by_scenario',
         \/ /\ worker[c] \in {"none", "queued", "accepted", "read", "run"}
            /\ worker'[c] \in {"queued", "accepted", "read", "run", "body", "finish", "done"}
         \/ worker[c] \in {"body", "perform"} /\ worker'[c] = "finish"
         \/ worker[c] \in {"finish", "ending"} /\ worker'[c] \in {"ending", "done"}
  PROVE  Told(c)'
<1>1. CASE worker[c] \in {"finish", "ending"}
  BY <1>1 DEF Told, Over
<1>2. CASE worker[c] \notin {"finish", "ending"}
  <2>1. out[c] = Nothing
    BY <1>2 DEF Told
  <2> QED BY SMTT(60), <1>2, <2>1 DEF Told, Nothing
<1> QED BY <1>1, <1>2

(* A reply as the handler writes it. *)
IsReply(reply) == reply = [names |-> reply.names, type |-> reply.type, declared |-> reply.declared, sent |-> reply.sent]

(* The reply after a write that went out. *)
LEMMA ToldSent ==
  ASSUME NEW c \in Callers, NEW p \in Plans, NEW reply, plan'[c] = <<p>>, out'[c] = reply,
         IsReply(reply), Fitting(p, reply),
         \/ /\ worker'[c] = "finish"
            /\ reply.declared >= 0 /\ p.action = "drop" => reply.sent < reply.declared
            /\ reply.declared >= 0 /\ p.action = "respond" => reply.sent = IF p.head THEN 0 ELSE reply.declared
         \/ /\ worker'[c] \in {"write", "rest"}
            /\ p.action = "respond" /\ ~p.head /\ reply.declared = Serialize(p)
            /\ reply.sent = IF worker'[c] = "rest" THEN Half(Serialize(p)) ELSE 0
  PROVE  Told(c)'
<1>1. plan'[c] # <<>> /\ plan'[c][1] = p
  BY SMTT(60)
<1>2. CASE worker'[c] = "finish"
  BY <1>1, <1>2 DEF Told, Over, IsReply
<1>3. CASE worker'[c] \in {"write", "rest"}
  BY <1>1, <1>3 DEF Told, UnderWay, IsReply
<1> QED BY <1>2, <1>3

(* The reply when a write fails. *)
LEMMA ToldLost ==
  ASSUME NEW c \in Callers, PortInv, Told(c), worker[c] \in {"perform", "write", "rest"}, Lost(c), worker'[c] = "finish",
         UNCHANGED <<plan, out, sock, closed_by_scenario>>
  PROVE  Told(c)'
<1>1. closed_by_scenario \/ sock[c] = "gone"
  BY DEF PortInv, PortTypes, ClientInv, Lost
<1>2. CASE worker[c] = "perform"
  BY SMTT(60), <1>2 DEF Told, Nothing
<1>3. CASE worker[c] \in {"write", "rest"}
  BY <1>1, <1>3 DEF Told, UnderWay, Over
<1> QED BY <1>2, <1>3

(* A step of one worker that keeps what was told to its connection keeps it for all. *)
LEMMA ToldAll ==
  ASSUME ReplyInv, NEW c \in Callers, Told(c)',
         plan' = [d \in Callers |-> plan'[d]], out' = [d \in Callers |-> out'[d]],
         \A d \in Callers \ {c} : worker'[d] = worker[d] /\ plan'[d] = plan[d] /\ out'[d] = out[d] /\ sock'[d] = sock[d],
         closed_by_scenario => closed_by_scenario'
  PROVE  ReplyInv'
<1>1. \A d \in Callers \ {c} : Told(d)'
  BY ToldStays DEF ReplyInv
<1> QED BY <1>1 DEF ReplyInv

(* A write of a worker that performs its plan. *)
LEMMA WritesReply ==
  ASSUME PortInv, ReplyInv, NEW c \in Callers, worker[c] \in {"perform", "write", "rest"},
         NEW p \in Plans, plan[c] = <<p>>, NEW to, NEW reply, Writes(c, to, reply), IsReply(reply), Fitting(p, reply),
         \/ /\ to = "finish"
            /\ reply.declared >= 0 /\ p.action = "drop" => reply.sent < reply.declared
            /\ reply.declared >= 0 /\ p.action = "respond" => reply.sent = IF p.head THEN 0 ELSE reply.declared
         \/ /\ to \in {"write", "rest"}
            /\ p.action = "respond" /\ ~p.head /\ reply.declared = Serialize(p)
            /\ reply.sent = IF to = "rest" THEN Half(Serialize(p)) ELSE 0
  PROVE  ReplyInv'
<1>1. worker \in [Callers -> {"none", "queued", "accepted", "ending", "done"} \cup Recorded]
  BY DEF PortInv, PortTypes
<1>2. UNCHANGED <<closed_by_scenario, sock, plan>>
  BY DEF Writes, server
<1>3. CASE Lost(c)
  <2>1. worker' = [worker EXCEPT ![c] = "finish"] /\ out' = out
    BY <1>3 DEF Writes
  <2>2. Told(c)'
    BY <1>1, <1>2, <1>3, <2>1, ToldLost DEF ReplyInv
  <2> QED BY <1>1, <1>2, <2>1, <2>2, ToldAll DEF ReplyInv
<1>4. CASE ~Lost(c)
  <2>1. worker' = [worker EXCEPT ![c] = to] /\ out' = [out EXCEPT ![c] = reply]
    BY <1>4 DEF Writes
  <2>2. worker'[c] = to /\ out'[c] = reply /\ plan'[c] = <<p>> /\ out' = [d \in Callers |-> out'[d]]
    BY <1>1, <1>2, <2>1 DEF ReplyInv
  <2>3. Told(c)'
    BY <2>2, ToldSent
  <2> QED BY <1>1, <1>2, <2>1, <2>2, <2>3, ToldAll DEF ReplyInv
<1> QED BY <1>3, <1>4

(* A step that performs a plan leaves a reply that fits it. *)
LEMMA PerformReply ==
  ASSUME PortInv, ReplyInv, NEW c \in Callers,
         PerformNoBody(c) \/ PerformDrop(c) \/ PerformHeaders(c) \/ PerformBody(c) \/ PerformRest(c)
  PROVE  ReplyInv'
<1>1. PICK p \in Plans : plan[c] = <<p>>
  BY DEF ReplyInv, Told, PerformNoBody, PerformDrop, PerformHeaders, PerformBody, PerformRest, Is
<1>2. plan[c][1] = p /\ p.size \in Nat /\ p.size < DropSize /\ DropSize \in Nat /\ Serialize(p) \in Nat
  BY SMTT(60), <1>1, SizeType, PortAssumption
<1>3. CASE PerformNoBody(c)
  <2> DEFINE reply == [Nothing EXCEPT !.names = Headers(p, {})]
  <2>1. worker[c] = "perform" /\ Writes(c, "finish", reply)
    BY <1>2, <1>3 DEF PerformNoBody, Is
  <2>2. reply = [names |-> Headers(p, {}), type |-> "none", declared |-> -1, sent |-> 0]
    BY SMTT(60) DEF Nothing
  <2>3. IsReply(reply) /\ Fitting(p, reply) /\ ~(reply.declared >= 0)
    BY SMTT(60), <2>2, HeadersFit DEF IsReply, Fitting
  <2> HIDE DEF reply
  <2> QED BY <1>1, <2>1, <2>3, WritesReply
<1>4. CASE PerformDrop(c)
  <2>1. worker[c] = "perform" /\ p.action = "drop"
    BY <1>2, <1>4 DEF PerformDrop, Is
  <2>2. CASE p.at = "before_headers"
    <3>1. worker' = [worker EXCEPT ![c] = "finish"] /\ UNCHANGED <<closed_by_scenario, sock, plan, out>>
      BY <1>2, <1>4, <2>2 DEF PerformDrop, WorkerGoes, server, handler
    <3>2. worker'[c] = "finish" /\ \A d \in Callers \ {c} : worker'[d] = worker[d]
      BY <3>1 DEF PortInv, PortTypes
    <3>3. Told(c)'
      BY <2>1, <3>1, <3>2, ToldMoves DEF ReplyInv
    <3> QED BY <3>1, <3>2, <3>3, ToldAll DEF ReplyInv
  <2>3. CASE p.at # "before_headers"
    <3> DEFINE reply == [names |-> Headers(p, {"content-type", "content-length"}), type |-> "application/json",
                         declared |-> DropSize, sent |-> IF p.at = "mid_body" THEN p.size ELSE 0]
    <3>1. Writes(c, "finish", reply)
      BY <1>2, <1>4, <2>3 DEF PerformDrop
    <3>2. IsReply(reply) /\ Fitting(p, reply)
      BY SMTT(60), HeadersFit DEF IsReply, Fitting
    <3>3. reply.sent < reply.declared
      BY SMTT(60), <1>2
    <3> HIDE DEF reply
    <3> QED BY <1>1, <2>1, <3>1, <3>2, <3>3, WritesReply
  <2> QED BY <2>2, <2>3
<1>5. CASE PerformHeaders(c)
  <2> DEFINE reply == [names |-> Headers(p, {"content-type", "content-length", "cache-control"}),
                       type |-> ContentType(p), declared |-> Serialize(p), sent |-> 0]
             to == IF Serialize(p) = 0 \/ p.head THEN "finish" ELSE "write"
  <2>1. worker[c] = "perform" /\ p.action = "respond" /\ Writes(c, to, reply)
    BY <1>2, <1>5 DEF PerformHeaders, Is
  <2>2. IsReply(reply) /\ Fitting(p, reply)
    BY SMTT(60), HeadersFit DEF IsReply, Fitting, ContentType
  <2>3. to = "finish" => reply.sent = IF p.head THEN 0 ELSE reply.declared
    OBVIOUS
  <2>4. to # "finish" => to = "write" /\ ~p.head /\ reply.declared = Serialize(p) /\ reply.sent = 0
    OBVIOUS
  <2> HIDE DEF reply, to
  <2> QED BY <1>1, <2>1, <2>2, <2>3, <2>4, WritesReply
<1>6. CASE PerformBody(c) \/ PerformRest(c)
  <2>1. worker[c] \in {"write", "rest"} /\ UnderWay(c) /\ IsReply(out[c]) /\ Fitting(p, out[c])
    <3>1. worker[c] \in {"write", "rest"}
      BY <1>6 DEF PerformBody, PerformRest
    <3>2. UnderWay(c) /\ IsReply(out[c])
      BY <3>1 DEF ReplyInv, Told, IsReply
    <3>3. out[c] # Nothing
      BY SMTT(60), <1>2, <3>2 DEF UnderWay, Nothing
    <3> QED BY <1>2, <3>1, <3>2, <3>3 DEF ReplyInv, Told
  <2>2. p.action = "respond" /\ ~p.head /\ out[c].declared = Serialize(p)
        /\ out[c].sent = IF worker[c] = "rest" THEN Half(Serialize(p)) ELSE 0
    BY <1>2, <2>1 DEF UnderWay
  <2>3. PICK to \in {"rest", "finish"}, n \in {Half(Serialize(p)), Serialize(p)} :
          /\ Writes(c, to, [out[c] EXCEPT !.sent = n])
          /\ n = IF to = "rest" THEN Half(Serialize(p)) ELSE Serialize(p)
    <3>1. CASE PerformBody(c)
      BY <1>2, <3>1 DEF PerformBody
    <3>2. CASE PerformRest(c)
      <4>1. Half(Serialize(p)) + (Serialize(p) - Half(Serialize(p))) = Serialize(p)
        BY SMTT(60), <1>2 DEF Half
      <4>2. worker[c] = "rest" /\ Writes(c, "finish", [out[c] EXCEPT !.sent = out[c].sent + (Serialize(p) - Half(Serialize(p)))])
        BY <1>2, <3>2 DEF PerformRest
      <4> QED BY <2>2, <4>1, <4>2
    <3> QED BY <1>6, <3>1, <3>2
  <2> DEFINE reply == [out[c] EXCEPT !.sent = n]
  <2>4. /\ reply.names = out[c].names /\ reply.type = out[c].type /\ reply.declared = out[c].declared
        /\ reply.sent = n /\ IsReply(reply)
    BY SMTT(60), <2>1 DEF IsReply
  <2>5. Fitting(p, reply)
    BY <2>1, <2>4 DEF Fitting
  <2> HIDE DEF reply
  <2>6. Writes(c, to, reply)
    BY <2>3 DEF reply
  <2> QED BY <1>1, <2>1, <2>2, <2>3, <2>4, <2>5, <2>6, WritesReply
<1> QED BY <1>3, <1>4, <1>5, <1>6

(* The steps that write nothing. *)
LEMMA QuietReply ==
  ASSUME PortInv, ReplyInv, NEW c \in Callers,
         \/ Connect(c) \/ Accept(c) \/ Record(c) \/ CallerGone(c)
         \/ ReadHeaders(c) \/ Run(c) \/ PerformHang(c) \/ Forget(c) \/ ShutdownRequest(c)
  PROVE  ReplyInv'
<1>1. UNCHANGED <<closed_by_scenario, plan, out>>
  BY DEF Connect, Accept, Record, CallerGone, ReadHeaders, Run, PerformHang, Forget, ShutdownRequest, server, handler
<1>2. \A d \in Callers \ {c} : worker'[d] = worker[d] /\ sock'[d] = sock[d]
  BY DEF PortInv, PortTypes, Connect, Accept, Record, CallerGone, ReadHeaders, Run, PerformHang, Forget,
     ShutdownRequest,
         WorkerGoes
<1>3. Told(c)'
  <2>1. sock[c] = "gone" => sock'[c] = "gone"
    BY DEF PortInv, PortTypes, ClientInv, Connect, Accept, Record, CallerGone, ReadHeaders, Run, PerformHang, Forget,
           ShutdownRequest, WorkerGoes
  <2>2. CASE CallerGone(c)
    BY <1>1, <2>1, <2>2, ToldStays DEF ReplyInv, CallerGone
  <2>3. CASE Connect(c) \/ Accept(c) \/ Record(c) \/ ReadHeaders(c) \/ Run(c)
    <3>1. /\ worker[c] \in {"none", "queued", "accepted", "read", "run"}
          /\ worker'[c] \in {"queued", "accepted", "read", "run", "body", "finish", "done"}
      BY <2>3 DEF PortInv, PortTypes, Connect, Accept, Record, ReadHeaders, Run, WorkerGoes
    <3> QED BY <1>1, <2>1, <3>1, ToldMoves DEF ReplyInv
  <2>4. CASE PerformHang(c)
    <3>1. worker[c] = "perform" /\ worker'[c] = "finish"
      BY <2>4 DEF PortInv, PortTypes, PerformHang, WorkerGoes
    <3> QED BY <1>1, <2>1, <3>1, ToldMoves DEF ReplyInv
  <2>5. CASE Forget(c) \/ ShutdownRequest(c)
    <3>1. worker[c] \in {"finish", "ending"} /\ worker'[c] \in {"ending", "done"}
      BY <2>5 DEF PortInv, PortTypes, Forget, ShutdownRequest, WorkerGoes
    <3> QED BY <1>1, <2>1, <3>1, ToldMoves DEF ReplyInv
  <2> QED BY <2>2, <2>3, <2>4, <2>5
<1> QED BY <1>1, <1>2, <1>3, ToldAll DEF ReplyInv

(* The plan comes with the body. *)
LEMMA BodyReply ==
  ASSUME PortInv, ReplyInv, NEW c \in Callers, ReadBody(c)
  PROVE  ReplyInv'
<1>1. worker[c] = "body" /\ UNCHANGED <<closed_by_scenario, sock, out>>
  BY DEF ReadBody, WorkerGoes, server
<1>2. \A d \in Callers \ {c} : worker'[d] = worker[d] /\ plan'[d] = plan[d]
  BY DEF PortInv, PortTypes, ReplyInv, ReadBody, WorkerGoes
<1>3. plan' = [d \in Callers |-> plan'[d]]
  BY DEF ReplyInv, ReadBody
<1>4. CASE worker'[c] = "finish" /\ plan' = plan
  <2>1. Told(c)'
    BY <1>1, <1>4, ToldMoves DEF ReplyInv
  <2> QED BY <1>1, <1>2, <1>4, <2>1, ToldAll DEF ReplyInv
<1>5. ASSUME NEW p \in Plans, worker'[c] = "perform", plan'[c] = <<p>>
      PROVE  ReplyInv'
  <2>1. out[c] = Nothing
    BY <1>1 DEF ReplyInv, Told
  <2>2. Told(c)'
    BY SMTT(60), <1>1, <1>5, <2>1 DEF Told, Nothing
  <2> QED BY <1>1, <1>2, <1>3, <2>2, ToldAll DEF ReplyInv
<1>6. \/ worker'[c] = "finish" /\ plan' = plan
      \/ worker'[c] = "perform" /\ \E p \in Plans : plan'[c] = <<p>>
  BY DEF PortInv, PortTypes, ReplyInv, ReadBody, WorkerGoes
<1> QED BY <1>4, <1>5, <1>6

(* A close changes nothing that was told. *)
LEMMA CloseReply ==
  ASSUME PortInv, ReplyInv, Close
  PROVE  ReplyInv'
<1>1. UNCHANGED <<worker, plan, out>> /\ (closed_by_scenario => closed_by_scenario')
  BY SMTT(60) DEF Close, CloseFlag, CloseListening, CloseClient, CloseReturns, ServeStops, handler
<1>2. \A c \in Callers : sock[c] = "gone" => sock'[c] = "gone"
  BY DEF PortInv, PortTypes, Close, CloseFlag, CloseListening, CloseClient, CloseReturns, ServeStops
<1>3. \A c \in Callers : Told(c)'
  BY <1>1, <1>2, ToldStays DEF ReplyInv
<1> QED BY <1>1, <1>3 DEF ReplyInv

(* Every step keeps what was told to every connection. *)
LEMMA ReplyInvNext == PortInv /\ ReplyInv /\ [PortNext]_portVars => ReplyInv'
<1> SUFFICES ASSUME PortInv, ReplyInv, [PortNext]_portVars PROVE ReplyInv'
  OBVIOUS
<1>1. CASE UNCHANGED portVars
  <2>1. \A c \in Callers : Told(c)'
    BY <1>1, ToldStays DEF portVars, ReplyInv
  <2> QED BY <1>1, <2>1 DEF portVars, ReplyInv
<1>2. CASE PortNext
  BY <1>2, CloseReply, QuietReply, BodyReply, PerformReply DEF PortNext, Work
<1> QED BY <1>1, <1>2

(* A reply that nothing cut is complete exactly when its plan responds, it has each header once *)
(* and every chosen one, and its content type says what is on the wire (the perform method of   *)
(* the HTTP handlers).                                                                          *)
THEOREM RepliesCorrect == PortSpec => []RepliesAsPlanned
<1>1. PortInit => ReplyInv
  BY SMTT(60) DEF PortInit, ReplyInv, Told, Nothing
<1>2. ReplyInv => RepliesAsPlanned
  <2> SUFFICES ASSUME ReplyInv PROVE RepliesAsPlanned
    OBVIOUS
  <2>1. CompleteIffPlanned
    BY DEF ReplyInv, Told, Over, CompleteIffPlanned
  <2>2. HeadersOnce
    BY SMTT(60) DEF ReplyInv, Told, Fitting, HeadersOnce, Nothing
  <2>3. TypeOfWire
    BY SMTT(60) DEF ReplyInv, Told, Fitting, TypeOfWire, Nothing
  <2> QED BY <2>1, <2>2, <2>3 DEF RepliesAsPlanned
<1> QED BY <1>1, <1>2, PortInvInit, PortInvNext, ReplyInvNext, PTL DEF PortSpec
=============================================================================
