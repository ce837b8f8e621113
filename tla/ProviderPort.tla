---------------------------- MODULE ProviderPort ----------------------------
(***************************************************************************)
(* One http provider port while it serves: _ProviderHTTPServer (accept,    *)
(* the record of the client sockets, close_port) and the worker thread of  *)
(* each connection (_HttpListenerHandler: the read, the arrival row, the   *)
(* reply).  HTTP/1.0 is spoken, so a connection carries one request.       *)
(*                                                                         *)
(* The request flow is the choice of a plan (ServeResult).  Of a reply the *)
(* model keeps the header names, the declared length, the content type and *)
(* the count of body bytes sent.                                           *)
(***************************************************************************)
EXTENDS Integers, Sequences

CONSTANTS Callers,     \* connections that callers open
          Plans,     \* ServeResults: action, at, pause, body, size, corruption, head, chosen
          NullSize,  \* bytes of the literal null (4 in the code)
          Cut,       \* bytes that the corruption "truncated" takes off (10)
          DropSize   \* Content-Length that a dropped reply declares (100)

ASSUME PortAssumption ==
  /\ Cut \in Nat /\ NullSize \in Nat /\ DropSize \in Nat
  /\ \A p \in Plans : p.size \in Nat /\ p.size < DropSize

VARIABLES listening,  \* does the listening socket accept?
          closed_by_scenario,
          closer,     \* the step of close_port
          copy,       \* the clients that close_port still has to end
          serving,    \* does the serve loop run?
          clients,    \* _clients
          worker,     \* worker[c]: the step of the connection
          sock,       \* sock[c]: "open", "shut" by close_port, "closed", or "gone"
          plan,       \* plan[c]: the plan of the reply, <<>> before there is one
          out,        \* out[c]: what was written
          portRows,       \* connections with a history row
          after       \* ghost: connections written to after close_port returned

portVars == <<listening, closed_by_scenario, closer, copy, serving, clients, worker, sock, plan, out, portRows, after>>

server == <<listening, closed_by_scenario, closer, copy, serving>>
handler == <<plan, out, portRows, after>>

(* The headers of a reply are a bag: how many times each name is written. *)
NoHeaders == [n \in {} |-> 0]
Nothing == [names |-> NoHeaders, type |-> "none", declared |-> -1, sent |-> 0]

PortInit ==
  /\ listening = TRUE /\ closed_by_scenario = FALSE /\ closer = "idle" /\ copy = {} /\ serving = TRUE
  /\ clients = {} /\ worker = [c \in Callers |-> "none"] /\ sock = [c \in Callers |-> "open"]
  /\ plan = [c \in Callers |-> <<>>] /\ out = [c \in Callers |-> Nothing] /\ portRows = {} /\ after = {}

WorkerGoes(c, from, to) == worker[c] = from /\ worker' = [worker EXCEPT ![c] = to]

-----------------------------------------------------------------------------
(* The serve loop *)

(* A caller connects, and the kernel queues the connection. *)
Connect(c) ==
  /\ listening /\ WorkerGoes(c, "none", "queued")
  /\ UNCHANGED <<server, clients, sock, handler>>

(* super().get_request() *)
Accept(c) ==
  /\ listening /\ serving /\ WorkerGoes(c, "queued", "accepted")
  /\ UNCHANGED <<server, clients, sock, handler>>

(* Mutant of Record: a connection accepted in the moment of the close is kept. *)
RecordAlways(c) ==
  /\ WorkerGoes(c, "accepted", "read") /\ clients' = clients \cup {c}
  /\ UNCHANGED <<server, sock, handler>>

(* get_request: record the socket, or end a connection that the close missed. *)
Record(c) ==
  /\ IF closed_by_scenario
     THEN WorkerGoes(c, "accepted", "done") /\ sock' = [sock EXCEPT ![c] = "closed"] /\ UNCHANGED clients
     ELSE WorkerGoes(c, "accepted", "read") /\ clients' = clients \cup {c} /\ UNCHANGED sock
  /\ UNCHANGED <<server, handler>>

(* The caller goes away. *)
CallerGone(c) ==
  /\ sock[c] = "open" /\ worker[c] \notin {"none", "queued", "accepted", "done"}
  /\ sock' = [sock EXCEPT ![c] = "gone"]
  /\ UNCHANGED <<server, clients, worker, handler>>

-----------------------------------------------------------------------------
(* close_port *)

(* The flag and the copy change together, under the lock.  A call that *)
(* raised is called again.                                             *)
CloseFlag ==
  /\ closer \in {"idle", "raised"}
  /\ closed_by_scenario' = TRUE /\ copy' = clients /\ closer' = "flagged"
  /\ UNCHANGED <<listening, serving, clients, worker, sock, handler>>

(* socket.shutdown and socket.close of the listening socket, or an error of *)
(* the second after the first had its effect.                               *)
CloseListening ==
  /\ closer = "flagged" /\ listening' = FALSE
  /\ closer' \in {"clients", "raised"}
  /\ UNCHANGED <<closed_by_scenario, copy, serving, clients, worker, sock, handler>>

(* client.shutdown: the worker keeps the socket. *)
CloseClient(c) ==
  /\ closer = "clients" /\ c \in copy /\ copy' = copy \ {c}
  /\ sock' = [sock EXCEPT ![c] = IF @ = "open" THEN "shut" ELSE @]
  /\ UNCHANGED <<listening, closed_by_scenario, closer, serving, clients, worker, handler>>

CloseReturns ==
  /\ closer = "clients" /\ copy = {} /\ closer' = "returned"
  /\ UNCHANGED <<listening, closed_by_scenario, copy, serving, clients, worker, sock, handler>>

(* BaseServer.shutdown, on a thread of its own. *)
ServeStops ==
  /\ closer = "returned" /\ serving /\ serving' = FALSE
  /\ UNCHANGED <<listening, closed_by_scenario, closer, copy, clients, worker, sock, handler>>

-----------------------------------------------------------------------------
(* The worker thread *)

(* The request line and the headers.  Bytes that arrived before a shutdown stay *)
(* readable.  A read that fails or times out ends the connection.               *)
ReadHeaders(c) ==
  /\ WorkerGoes(c, "read", "run") \/ WorkerGoes(c, "read", "finish")
  /\ UNCHANGED <<server, clients, sock, handler>>

PortIsClosed == closed_by_scenario

(* _run: nothing is served on a closed port, and the row comes before the body. *)
Run(c) ==
  /\ IF PortIsClosed THEN WorkerGoes(c, "run", "finish") /\ UNCHANGED portRows
     ELSE WorkerGoes(c, "run", "body") /\ portRows' = portRows \cup {c}
  /\ UNCHANGED <<server, clients, sock, plan, out, after>>

(* The body, and the plan that the request flow makes of it; or a read that *)
(* fails.                                                                   *)
ReadBody(c) ==
  /\ \/ WorkerGoes(c, "body", "perform") /\ \E p \in Plans : plan' = [plan EXCEPT ![c] = <<p>>]
     \/ WorkerGoes(c, "body", "finish") /\ UNCHANGED plan
  /\ UNCHANGED <<server, clients, sock, out, portRows, after>>

Is(c, actions) == worker[c] = "perform" /\ plan[c][1].action \in actions

(* close_port shuts both sides of a client socket. *)
Lost(c) == sock[c] # "open"

(* A write on a socket that is not open is an OSError, which ends the worker. *)
Writes(c, to, reply) ==
  /\ IF Lost(c) THEN worker' = [worker EXCEPT ![c] = "finish"] /\ UNCHANGED <<out, after>>
     ELSE /\ worker' = [worker EXCEPT ![c] = to] /\ out' = [out EXCEPT ![c] = reply]
          /\ after' = IF closer = "returned" THEN after \cup {c} ELSE after
  /\ UNCHANGED <<server, clients, sock, plan, portRows>>

(* send_header drops a header of its own whose name was chosen. *)
OwnHeaders(p, names) == names \ p.chosen

(* end_headers writes the chosen headers after the others. *)
Headers(p, names) ==
  LET own == OwnHeaders(p, {"server", "date"} \cup names)
  IN  [n \in own \cup p.chosen |-> (IF n \in own THEN 1 ELSE 0) + (IF n \in p.chosen THEN 1 ELSE 0)]

(* wire.serialize: the size of the body on the wire. *)
Serialize(p) ==
  CASE p.corruption = "null_body" -> NullSize
    [] p.corruption = "empty_response" /\ p.body \in {"dict", "str"} -> 0
    [] p.corruption = "truncated" /\ p.size > Cut -> p.size - Cut
    [] OTHER -> p.size

ContentType(p) ==
  IF p.body = "str" /\ p.corruption # "null_body" THEN "text/plain" ELSE "application/json"

(* hang: thirty seconds, and the connection closes with no byte sent. *)
PerformHang(c) ==
  /\ Is(c, {"hang"}) /\ WorkerGoes(c, "perform", "finish")
  /\ UNCHANGED <<server, clients, sock, handler>>

(* down: a status line and headers, and the connection ends. *)
PerformNoBody(c) ==
  LET p == plan[c][1]
  IN /\ Is(c, {"no_body"})
     /\ Writes(c, "finish", [Nothing EXCEPT !.names = Headers(p, {})])

(* _drop: at most a part of what the headers promise. *)
PerformDrop(c) ==
  LET p == plan[c][1]
  IN /\ Is(c, {"drop"})
     /\ IF p.at = "before_headers"
        THEN WorkerGoes(c, "perform", "finish") /\ UNCHANGED <<server, clients, sock, handler>>
        ELSE Writes(c, "finish", [names |-> Headers(p, {"content-type", "content-length"}),
                                  type |-> "application/json", declared |-> DropSize,
                                  sent |-> IF p.at = "mid_body" THEN p.size ELSE 0])

(* The status line and the headers of a reply.  The length is that of the bytes *)
(* after the corruption, for a HEAD too.                                        *)
PerformHeaders(c) ==
  LET p == plan[c][1]
  IN /\ Is(c, {"respond"})
     /\ Writes(c, IF Serialize(p) = 0 \/ p.head THEN "finish" ELSE "write",
               [names |-> Headers(p, {"content-type", "content-length", "cache-control"}),
                type |-> ContentType(p), declared |-> Serialize(p), sent |-> 0])

Half(n) == n \div 2

(* The body in one write, or the first half of a reply that is held in its middle. *)
PerformBody(c) ==
  LET p == plan[c][1]
      n == Serialize(p)
  IN /\ worker[c] = "write"
     /\ IF p.pause = "mid_body" THEN Writes(c, "rest", [out[c] EXCEPT !.sent = Half(n)])
        ELSE Writes(c, "finish", [out[c] EXCEPT !.sent = n])

(* Mutant of PerformRest: the rest starts a byte late. *)
PerformRestLate(c) ==
  LET n == Serialize(plan[c][1])
  IN worker[c] = "rest" /\ Writes(c, "finish", [out[c] EXCEPT !.sent = @ + (n - Half(n) - 1)])

(* The rest of it after the hold. *)
PerformRest(c) ==
  LET n == Serialize(plan[c][1])
  IN worker[c] = "rest" /\ Writes(c, "finish", [out[c] EXCEPT !.sent = @ + (n - Half(n))])

(* shutdown_request: the record goes first, the socket after it. *)
Forget(c) ==
  /\ WorkerGoes(c, "finish", "ending") /\ clients' = clients \ {c}
  /\ UNCHANGED <<server, sock, handler>>

ShutdownRequest(c) ==
  /\ WorkerGoes(c, "ending", "done") /\ sock' = [sock EXCEPT ![c] = IF @ = "gone" THEN @ ELSE "closed"]
  /\ UNCHANGED <<server, clients, handler>>

Work(c) ==
  \/ ReadHeaders(c) \/ Run(c) \/ ReadBody(c)
  \/ PerformHang(c) \/ PerformNoBody(c) \/ PerformDrop(c) \/ PerformHeaders(c)
  \/ PerformBody(c) \/ PerformRest(c) \/ Forget(c) \/ ShutdownRequest(c)

Close == CloseFlag \/ CloseListening \/ (\E c \in Callers : CloseClient(c)) \/ CloseReturns \/ ServeStops

PortNext ==
  \/ Close
  \/ \E c \in Callers : Connect(c) \/ Accept(c) \/ Record(c) \/ CallerGone(c) \/ Work(c)

PortSpec == PortInit /\ [][PortNext]_portVars

(* The threads of the server run; a caller need not do anything. *)
PortLiveSpec == PortSpec /\ \A c \in Callers : WF_portVars(Record(c)) /\ WF_portVars(Work(c))

-----------------------------------------------------------------------------
(* Properties *)

(* A closed port has no open connection: when close_port returns, each client *)
(* socket is ended, or it was accepted in that moment and get_request ends    *)
(* it, or its reply was complete and it is being taken down.                  *)
EveryClientEnded ==
  closer = "returned" =>
    \A c \in Callers : sock[c] = "open" => worker[c] \in {"none", "queued", "accepted", "ending", "done"}

(* A closed port answers nothing: no byte of a reply goes out after close_port *)
(* returned.                                                                   *)
SilentAfterClose == after = {}

(* A caller that received every byte the headers declared received a planned   *)
(* reply, and a planned reply that no close and no absent caller cut is        *)
(* received in full.                                                           *)
CompleteIffPlanned ==
  \A c \in Callers :
    worker[c] = "done" /\ plan[c] # <<>> /\ sock[c] = "closed" /\ out[c].declared >= 0 =>
      /\ plan[c][1].action = "drop" => out[c].sent < out[c].declared
      /\ plan[c][1].action = "respond" /\ ~closed_by_scenario =>
           out[c].sent = IF plan[c][1].head THEN 0 ELSE out[c].declared

(* A reply holds each header once, and every chosen header. *)
HeadersOnce ==
  \A c \in Callers : out[c].names # NoHeaders =>
    /\ \A n \in DOMAIN out[c].names : out[c].names[n] = 1
    /\ plan[c][1].chosen \subseteq DOMAIN out[c].names

(* The content type says what is on the wire: a prose body is text, and JSON   *)
(* is what the literal null is sent as.                                        *)
TypeOfWire ==
  \A c \in Callers : out[c].type = "text/plain" =>
    plan[c][1].body = "str" /\ plan[c][1].corruption # "null_body"

(* A row is written only for a request that the port read before it closed: a  *)
(* step that adds a row does so on an open port.                               *)
RowsOnOpenPortStep == portRows' # portRows => ~closed_by_scenario

(* When close_port returns, each client socket is ended, or get_request    *)
(* ends it, or its reply was complete and it is being taken down; no byte  *)
(* of a reply goes out after that; and a row is written only for a request *)
(* that the port read before it closed.                                    *)
CloseEndsAll == [][EveryClientEnded' /\ SilentAfterClose' /\ RowsOnOpenPortStep]_portVars

(* A caller that received every byte the headers declared received a       *)
(* planned reply, and a planned reply that nothing cut is received in full; *)
(* it has each header once, every chosen header among them, and a content  *)
(* type that says what is on the wire.                                     *)
RepliesAsPlanned == CompleteIffPlanned /\ HeadersOnce /\ TypeOfWire

(* Every connection that was accepted ends, after a close too. *)
WorkersEnd == \A c \in Callers : (worker[c] = "accepted") ~> (worker[c] = "done")
=============================================================================
