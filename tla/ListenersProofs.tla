--------------------------- MODULE ListenersProofs --------------------------
(***************************************************************************)
(* The rows that the HTTP listeners and the gRPC handler write tell the    *)
(* request and the reply, for any number of threads, calls and requests.   *)
(***************************************************************************)
EXTENDS HttpListeners, GrpcCall, TLAPS

USE ZenonT(60)

-----------------------------------------------------------------------------
(* The HTTP listeners *)

(* A row finds its request, and its label tells the reply. *)
RowOk(k) ==
  /\ CallersId(k.request) # NoId /\ k.request.body \in {"object", "none"} /\ k.label # "parse_error" =>
       k.request_id = CallersId(k.request)
  /\ k.label = "success" => ~k.reply.error /\ (k.request.interface \in Counted => Is2xx(k.reply.status))
  /\ k.label = "not_found" => k.request.interface = "rest" /\ do_OPTIONS(k.request.path) \cap {k.request.verb} = {}

(* A set of positions in the route table that is not empty has a least one: the CHOOSE of *)
(* Template takes a route that matches.                                                   *)
LEMMA HasLeast ==
  ASSUME NEW H \in SUBSET (1..7), H # {}
  PROVE  \E i \in H : \A j \in H : i <= j
<1>1. CASE 1 \in H
  BY SMTT(60), <1>1
<1>2. CASE 2 \in H /\ 1 \notin H
  BY SMTT(60), <1>2
<1>3. CASE 3 \in H /\ 1 \notin H /\ 2 \notin H
  BY SMTT(60), <1>3
<1>4. CASE 4 \in H /\ 1 \notin H /\ 2 \notin H /\ 3 \notin H
  BY SMTT(60), <1>4
<1>5. CASE 5 \in H /\ 1 \notin H /\ 2 \notin H /\ 3 \notin H /\ 4 \notin H
  BY SMTT(60), <1>5
<1>6. CASE 6 \in H /\ 1 \notin H /\ 2 \notin H /\ 3 \notin H /\ 4 \notin H /\ 5 \notin H
  BY SMTT(60), <1>6
<1>7. CASE 7 \in H /\ 1 \notin H /\ 2 \notin H /\ 3 \notin H /\ 4 \notin H /\ 5 \notin H /\ 6 \notin H
  BY SMTT(60), <1>7
<1>8. 1 \in H \/ 2 \in H \/ 3 \in H \/ 4 \in H \/ 5 \in H \/ 6 \in H \/ 7 \in H
  <2>1. PICK x \in H : TRUE
    OBVIOUS
  <2>2. x = 1 \/ x = 2 \/ x = 3 \/ x = 4 \/ x = 5 \/ x = 6 \/ x = 7
    BY SMTT(60)
  <2> QED BY <2>2
<1> QED BY <1>1, <1>2, <1>3, <1>4, <1>5, <1>6, <1>7, <1>8

(* No route matches the verb and the path of a request that has no template. *)
LEMMA NotRouted ==
  ASSUME NEW verb \in {"GET", "HEAD", "POST", "PUT", "DELETE"}, NEW path, Template(verb, path).verb = NoRoute.verb
  PROVE  do_OPTIONS(path) \cap {verb} = {}
<1> DEFINE hits == {i \in DOMAIN REST_METHOD_DEFAULTS :
                      REST_METHOD_DEFAULTS[i].verb = _ROUTE_VERB(verb) /\ _compile_route(REST_METHOD_DEFAULTS[i], path)}
           first == CHOOSE i \in hits : \A j \in hits : i <= j
<1>1. DOMAIN REST_METHOD_DEFAULTS = 1..7 /\ \A i \in 1..7 : REST_METHOD_DEFAULTS[i].verb \in {"GET", "POST"}
  BY SMTT(60) DEF REST_METHOD_DEFAULTS, OtherRoutes, LatestBlock, BlockAt, Route
<1>2. hits # {} => first \in hits
  <2>1. hits \in SUBSET (1..7)
    BY <1>1
  <2> HIDE DEF hits
  <2> QED BY <2>1, HasLeast
<1>3. hits = {}
  <2>1. hits # {} => Template(verb, path).verb \in {"GET", "POST"}
    <3>1. hits # {} => Template(verb, path) = REST_METHOD_DEFAULTS[first]
      BY DEF Template
    <3> QED BY <1>1, <1>2, <3>1
  <2> QED BY <2>1 DEF NoRoute, Route
<1>4. _ROUTE_VERB(verb) \notin allowed_verbs(path)
  <2>1. \A x \in Routes : \E i \in DOMAIN REST_METHOD_DEFAULTS : REST_METHOD_DEFAULTS[i] = x
    BY DEF Routes
  <2> QED BY <1>3, <2>1 DEF allowed_verbs
<1>5. allowed_verbs(path) \subseteq {"GET", "POST"}
  <2>1. \A x \in Routes : \E i \in DOMAIN REST_METHOD_DEFAULTS : REST_METHOD_DEFAULTS[i] = x
    BY DEF Routes
  <2> QED BY SMTT(60), <1>1, <2>1 DEF allowed_verbs
<1> QED BY <1>4, <1>5 DEF do_OPTIONS, _ROUTE_VERB

(* The chain's reply carries the id of the request, where it carries one. *)
LEMMA ContentId ==
  ASSUME NEW r \in Requests, NEW m, NEW id, NEW s
  PROVE  LET reply == build_content(r, Parsed(m, id), s)
         IN  /\ r.interface = "rest" => reply.id = NoId
             /\ r.interface = "tendermintrpc" => reply.id = id
             /\ r.interface = "jsonrpc" /\ id # NoId => reply.id = id
<1> DEFINE p == Parsed(m, id)
           of == CASE r.interface = "rest" -> NoId
                   [] r.interface = "jsonrpc" /\ p.id = NoId -> Counter(1)
                   [] OTHER -> p.id
           reply == build_content(r, p, s)
<1>1. p.id = id
  BY DEF Parsed
<1>2. /\ r.interface = "rest" => of = NoId
      /\ r.interface = "tendermintrpc" => of = id
      /\ r.interface = "jsonrpc" /\ id # NoId => of = id
  BY <1>1
<1> HIDE DEF of, p
<1>3. \/ reply = Reply(s.status, TRUE, of) \/ reply = Reply(s.status, FALSE, of) \/ reply = Reply(200, FALSE, of)
      \/ reply = Reply(404, FALSE, NoId) /\ r.interface = "rest"
      \/ reply = Reply(200, TRUE, of)
  BY DEF build_content, of
<1>4. reply.id = of \/ (reply.id = NoId /\ r.interface = "rest")
  BY SMTT(60), <1>3 DEF Reply
<1> QED BY <1>2, <1>4 DEF p

(* What the label of an answer says of the reply: success only for a reply without an error, *)
(* not_found only for a path whose verb OPTIONS does not allow.                              *)
LEMMA Labelled ==
  ASSUME NEW r \in Requests, NEW p, NEW reply, r.interface = "rest" => p.method = Template(r.verb, r.path).verb
  PROVE  LET label == success_label(r, p, reply)
         IN  /\ label = "success" => ~reply.error /\ (r.interface \in Counted => Is2xx(reply.status))
             /\ label = "not_found" => r.interface = "rest" /\ do_OPTIONS(r.path) \cap {r.verb} = {}
             /\ label # "parse_error"
<1>1. LabelOfBody(reply) \in {"error", "success"} /\ (LabelOfBody(reply) = "success" => ~reply.error)
  BY DEF LabelOfBody
<1>2. CASE r.interface = "rest"
  <2>1. success_label(r, p, reply) = RestLabel(p, reply)
    BY <1>2 DEF success_label
  <2>2. CASE reply.status = 404 /\ p.method = NoRoute.verb
    <3>1. RestLabel(p, reply) = "not_found"
      BY <2>2 DEF RestLabel
    <3>2. r.verb \in {"GET", "HEAD", "POST", "PUT", "DELETE"}
      BY <1>2, HttpAssumption
    <3>3. do_OPTIONS(r.path) \cap {r.verb} = {}
      BY SMTT(60), <1>2, <2>2, <3>2, NotRouted
    <3> QED BY <1>2, <2>1, <3>1, <3>3
  <2>3. CASE ~(reply.status = 404 /\ p.method = NoRoute.verb) /\ ~Is2xx(reply.status)
    BY <2>1, <2>3 DEF RestLabel
  <2>4. CASE ~(reply.status = 404 /\ p.method = NoRoute.verb) /\ Is2xx(reply.status)
    BY <1>1, <2>1, <2>4 DEF RestLabel
  <2> QED BY <2>2, <2>3, <2>4
<1>3. CASE r.interface = "tendermintrpc"
  BY <1>1, <1>3 DEF success_label, TendermintLabel
<1>4. CASE r.interface = "jsonrpc"
  BY <1>1, <1>4 DEF success_label, Counted
<1> QED BY <1>2, <1>3, <1>4, HttpAssumption

(* The row of an answered request: it has the caller's id, and its label tells the reply. *)
LEMMA AnsweredOk ==
  ASSUME NEW r \in Requests, NEW m, NEW id, NEW s,
         CallersId(r) # NoId /\ r.body \in {"object", "none"} => id = CallersId(r),
         r.interface = "rest" => m = Template(r.verb, r.path).verb
  PROVE  LET k == Answered(r, Parsed(m, id), s)
         IN  RowOk(k) /\ k.pc = "done" /\ k.request = r /\ (r.interface \in Counted => k.request_id = id)
<1> DEFINE p == Parsed(m, id)
           k == Answered(r, p, s)
           canned == r.interface = "jsonrpc" /\ s.kind = "staged body"
           fault == s.kind \in {"rate_limit", "error"}
<1>1. p.id = id /\ p.method = m
  BY DEF Parsed
<1>2. k.pc = "done" /\ k.request = r
  BY DEF Answered
<1>3. CASE canned
  <2>1. k.reply = Reply(s.status, FALSE, NoId) /\ k.request_id = p.id
    BY <1>3 DEF Answered
  <2>3. k.label = IF Is2xx(s.status) THEN "success" ELSE "error"
    BY <1>3 DEF Answered
  <2> HIDE DEF k
  <2>2. ~k.reply.error
    BY SMTT(60), <2>1 DEF Reply
  <2>4. r.interface \notin Counted
    BY <1>3 DEF Counted
  <2>5. RowOk(k)
    BY <1>1, <1>2, <2>1, <2>2, <2>3, <2>4 DEF RowOk
  <2> QED BY <1>2, <2>4, <2>5 DEF k
<1>4. CASE ~canned /\ fault
  <2>1. k.request_id = p.id /\ k.label = s.kind
    BY <1>4 DEF Answered
  <2> QED BY <1>1, <1>2, <1>4, <2>1 DEF RowOk
<1>5. CASE ~canned /\ ~fault
  <2> DEFINE reply == build_content(r, p, s)
  <2>1. k.reply = reply /\ k.request_id = request_id(p, reply) /\ k.label = success_label(r, p, reply)
    BY <1>5 DEF Answered
  <2>2. /\ r.interface = "rest" => reply.id = NoId
        /\ r.interface = "tendermintrpc" => reply.id = id
        /\ r.interface = "jsonrpc" /\ id # NoId => reply.id = id
    BY SMTT(60), ContentId
  <2>3. /\ success_label(r, p, reply) = "success" => ~reply.error /\ (r.interface \in Counted => Is2xx(reply.status))
        /\ success_label(r, p, reply) = "not_found" => r.interface = "rest" /\ do_OPTIONS(r.path) \cap {r.verb} = {}
    BY <1>1, Labelled
  <2> HIDE DEF reply, p
  <2>4. id # NoId \/ r.interface \in Counted => request_id(p, reply) = id
    BY <1>1, <2>2, HttpAssumption DEF request_id, Counted
  <2> QED BY <1>2, <2>1, <2>3, <2>4 DEF RowOk, p
<1> QED BY <1>3, <1>4, <1>5

-----------------------------------------------------------------------------
(* The threads *)

(* A thread that waits for an id has a request with no id of its own, on an interface that counts. *)
Waits(t) ==
  LET k == thread[t]
  IN  /\ k.request \in Requests /\ k.request.interface \in Counted /\ CallersId(k.request) = NoId
      /\ k.request.interface = "rest" => k.parsed.method = Template(k.request.verb, k.request.path).verb

(* The ids that the simulator gave are the ones up to its counter. *)
Given(t) ==
  LET k == thread[t]
  IN  k.request.interface \in Counted /\ CallersId(k.request) = NoId /\ k.request_id # NoId =>
        \E n \in Nat : k.request_id = Counter(n) /\ n <= _ID[k.request.interface]

ThreadInv(t) ==
  \/ thread[t].pc = "idle"
  \/ thread[t].pc = "wants" /\ Waits(t)
  \/ /\ thread[t].pc = "locked" /\ Waits(t)
     /\ _ID_LOCK[Interface(t)] = t /\ thread[t].next = _ID[Interface(t)] + 1
  \/ thread[t].pc = "done" /\ RowOk(thread[t]) /\ thread[t].request \in Requests /\ Given(t)

HttpInv ==
  /\ thread = [t \in Threads |-> thread[t]] /\ _ID \in [Counted -> Nat] /\ _ID_LOCK = [i \in Counted |-> _ID_LOCK[i]]
  /\ \A t \in Threads : ThreadInv(t)
  /\ IdsDistinct

(* The invariant holds when no request has come. *)
LEMMA HttpInvInit == Init => HttpInv
BY SMTT(60) DEF Init, HttpInv, ThreadInv, Idle, IdsDistinct, Done

(* What reading makes of a request: it is read, or waits for an id, or is refused. *)
IsParsed(r, p) ==
  /\ p.kind = "parsed" /\ p = Parsed(p.method, p.id)
  /\ CallersId(r) # NoId /\ r.body \in {"object", "none"} => p.id = CallersId(r)
  /\ r.interface \in Counted => p.id = CallersId(r)
  /\ r.interface = "rest" => p.method = Template(r.verb, r.path).verb

IsWaiting(r, p) ==
  /\ p.kind = "wants id" /\ r.interface \in Counted /\ CallersId(r) = NoId
  /\ r.interface = "rest" => p.method = Template(r.verb, r.path).verb

(* A request that is read with its caller's id is a parsed one. *)
LEMMA ReadsParsed ==
  ASSUME NEW r, NEW m, NEW id,
         CallersId(r) # NoId /\ r.body \in {"object", "none"} => id = CallersId(r),
         r.interface \in Counted => id = CallersId(r),
         r.interface = "rest" => m = Template(r.verb, r.path).verb
  PROVE  IsParsed(r, Parsed(m, id))
BY DEF IsParsed, Parsed

(* A request that is read without an id, on an interface that counts, waits for one. *)
LEMMA ReadsWaiting ==
  ASSUME NEW r, NEW m, r.interface \in Counted, CallersId(r) = NoId,
         r.interface = "rest" => m = Template(r.verb, r.path).verb
  PROVE  IsWaiting(r, Wants(m))
BY DEF IsWaiting, Wants

(* Every request is read, or waits for an id, or is refused; only an array is refused as a *)
(* batch.                                                                                  *)
LEMMA ReadOk ==
  ASSUME NEW r \in Requests
  PROVE  \/ IsParsed(r, parse_request(r))
         \/ IsWaiting(r, parse_request(r))
         \/ parse_request(r).kind = "parse_error"
         \/ parse_request(r).kind = "batch" /\ r.body = "array"
<1>1. CASE r.interface = "rest"
  <2>1. parse_request(r) = ParseRest(r) /\ CallersId(r) = _caller_request_id(r)
    BY <1>1 DEF parse_request, CallersId, _caller_request_id
  <2>2. CASE CallersId(r) = NoId
    <3>1. parse_request(r) = Wants(Template(r.verb, r.path).verb)
      BY <2>1, <2>2 DEF ParseRest
    <3> QED BY SMTT(60), <1>1, <2>2, <3>1, ReadsWaiting DEF Counted
  <2>3. CASE CallersId(r) # NoId
    <3>1. parse_request(r) = Parsed(Template(r.verb, r.path).verb, CallersId(r))
      BY <2>1, <2>3 DEF ParseRest
    <3> QED BY <3>1, ReadsParsed
  <2> QED BY <2>2, <2>3
<1>2. CASE r.interface = "tendermintrpc"
  <2>1. parse_request(r) = ParseTendermint(r)
    BY <1>2 DEF parse_request
  <2>2. CASE r.verb = "GET"
    <3>1. CallersId(r) = NoId
      BY <1>2, <2>2 DEF CallersId
    <3>2. parse_request(r) = Direct("parse_error", 400) \/ parse_request(r) = Wants(UriMethod(r.path))
      BY <2>1, <2>2 DEF ParseTendermint
    <3>3. Direct("parse_error", 400).kind = "parse_error"
      BY DEF Direct
    <3>4. IsWaiting(r, Wants(UriMethod(r.path)))
      BY SMTT(60), <1>2, <3>1, ReadsWaiting DEF Counted
    <3> QED BY <3>2, <3>3, <3>4
  <2>3. CASE r.verb = "POST"
    <3>1. CallersId(r) = r.id
      BY <1>2, <2>3 DEF CallersId
    <3>2. parse_request(r) = Direct("parse_error", 400) \/ parse_request(r) = Parsed(r.method, r.id)
      BY <2>1, <2>3 DEF ParseTendermint
    <3>3. Direct("parse_error", 400).kind = "parse_error"
      BY DEF Direct
    <3>4. IsParsed(r, Parsed(r.method, r.id))
      BY <1>2, <3>1, ReadsParsed
    <3> QED BY <3>2, <3>3, <3>4
  <2> QED BY <1>2, <2>2, <2>3, HttpAssumption
<1>3. CASE r.interface = "jsonrpc"
  <2>1. parse_request(r) = ParseJsonRpc(r) /\ CallersId(r) = r.id /\ r.interface \notin Counted /\ r.body # "none"
    BY <1>3, HttpAssumption DEF parse_request, CallersId, Counted
  <2>2. CASE r.body = "object"
    <3>1. \E m : parse_request(r) = Parsed(m, r.id)
      BY <2>1, <2>2 DEF ParseJsonRpc
    <3> QED BY <1>3, <2>1, <3>1, ReadsParsed
  <2>3. CASE r.body # "object"
    <3>1. \/ parse_request(r) = Direct("batch", 200) /\ r.body = "array"
          \/ parse_request(r) = Parsed("unknown", NoId)
      BY <2>1, <2>3 DEF ParseJsonRpc
    <3>2. Direct("batch", 200).kind = "batch"
      BY DEF Direct
    <3>3. IsParsed(r, Parsed("unknown", NoId))
      BY <1>3, <2>1, <2>3, ReadsParsed
    <3> QED BY SMTT(60), <3>1, <3>2, <3>3
  <2> QED BY <2>2, <2>3
<1> QED BY <1>1, <1>2, <1>3, HttpAssumption

(* A thread that changes, beside the others. *)
LEMMA HttpMoves ==
  ASSUME HttpInv, NEW t \in Threads, NEW x, thread' = [thread EXCEPT ![t] = x], UNCHANGED <<_ID, _ID_LOCK>>,
         thread[t].pc \notin {"locked", "done"}, ThreadInv(t)',
         x.pc = "done" /\ CallersId(x.request) = NoId /\ x.request.interface \in Counted => x.request_id = NoId
  PROVE  HttpInv'
<1>1. thread' = [u \in Threads |-> thread'[u]] /\ thread'[t] = x /\ \A u \in Threads \ {t} : thread'[u] = thread[u]
  BY DEF HttpInv
<1>2. \A u \in Threads \ {t} : ThreadInv(u)'
  BY SMTT(60), <1>1 DEF HttpInv, ThreadInv, Waits, Given, Interface
<1>3. IdsDistinct'
  BY SMTT(60), <1>1 DEF HttpInv, IdsDistinct, Done
<1> QED BY <1>1, <1>2, <1>3 DEF HttpInv

(* Reading a request keeps the invariant. *)
LEMMA HttpReads ==
  ASSUME HttpInv, NEW t \in Threads, NEW r \in Requests, NEW s, Read(t, r, s)
  PROVE  HttpInv'
<1> DEFINE p == parse_request(r)
<1>1. thread[t] = Idle /\ UNCHANGED <<_ID, _ID_LOCK>>
  BY DEF Read
<1>2. thread[t].pc = "idle"
  BY SMTT(60), <1>1 DEF Idle
<1>3. CASE IsParsed(r, p)
  <2> DEFINE x == Answered(r, p, s)
  <2>1. thread' = [thread EXCEPT ![t] = x]
    BY <1>3 DEF Read, IsParsed
  <2>2. /\ RowOk(x) /\ x.pc = "done" /\ x.request = r
        /\ r.interface \in Counted => x.request_id = CallersId(r)
    <3> HIDE DEF p
    <3> QED BY SMTT(60), <1>3, AnsweredOk DEF IsParsed
  <2> HIDE DEF x
  <2>3. thread'[t] = x
    BY <2>1 DEF HttpInv
  <2>4. ThreadInv(t)'
    BY <2>2, <2>3 DEF ThreadInv, Given
  <2> QED BY <1>1, <1>2, <2>1, <2>2, <2>4, HttpMoves
<1>4. CASE IsWaiting(r, p)
  <2> DEFINE x == [pc |-> "wants", request |-> r, staged |-> s, parsed |-> p]
  <2>1. thread' = [thread EXCEPT ![t] = x]
    BY <1>4 DEF Read, IsWaiting
  <2>2. x.pc = "wants" /\ x.request = r /\ x.parsed = p
    OBVIOUS
  <2> HIDE DEF x, p
  <2>3. thread'[t] = x
    BY <2>1 DEF HttpInv
  <2>4. ThreadInv(t)'
    BY <1>4, <2>2, <2>3 DEF ThreadInv, Waits, IsWaiting
  <2> QED BY <1>1, <1>2, <2>1, <2>2, <2>4, HttpMoves
<1>5. CASE p.kind = "parse_error" \/ (p.kind = "batch" /\ r.body = "array")
  <2> DEFINE x == Refused(r, p, s)
  <2>1. thread' = [thread EXCEPT ![t] = x]
    BY <1>5 DEF Read
  <2>2. x.pc = "done" /\ x.request = r /\ x.request_id = NoId /\ (x.label = "parse_error" \/ (x.label = "error" /\ r.body = "array"))
    BY <1>5 DEF Refused
  <2> HIDE DEF x
  <2>3. thread'[t] = x
    BY <2>1 DEF HttpInv
  <2>4. ThreadInv(t)'
    BY <2>2, <2>3 DEF ThreadInv, Given, RowOk
  <2> QED BY <1>1, <1>2, <2>1, <2>2, <2>4, HttpMoves
<1> QED BY <1>3, <1>4, <1>5, ReadOk

(* Taking the lock of the counter keeps the invariant: no other thread holds it on this *)
(* interface.                                                                           *)
LEMMA HttpLocks ==
  ASSUME HttpInv, NEW t \in Threads, TakeLock(t)
  PROVE  HttpInv'
<1> DEFINE i == thread[t].request.interface
           x == [pc |-> "locked", request |-> thread[t].request, staged |-> thread[t].staged,
                 parsed |-> thread[t].parsed, next |-> _ID[i] + 1]
<1>1. /\ thread[t].pc = "wants" /\ _ID_LOCK[i] = "none" /\ _ID' = _ID
      /\ _ID_LOCK' = [_ID_LOCK EXCEPT ![i] = t] /\ thread' = [thread EXCEPT ![t] = x]
  BY DEF TakeLock, LockFree, Interface
<1>2. Waits(t) /\ i \in Counted
  BY <1>1 DEF HttpInv, ThreadInv, Waits
<1>3. x.pc = "locked" /\ x.request = thread[t].request /\ x.parsed = thread[t].parsed /\ x.next = _ID[i] + 1
  OBVIOUS
<1> HIDE DEF x
<1>4. /\ thread' = [u \in Threads |-> thread'[u]] /\ thread'[t] = x /\ \A u \in Threads \ {t} : thread'[u] = thread[u]
      /\ _ID_LOCK' = [j \in Counted |-> _ID_LOCK'[j]] /\ _ID_LOCK'[i] = t
      /\ \A j \in Counted \ {i} : _ID_LOCK'[j] = _ID_LOCK[j]
  BY <1>1, <1>2 DEF HttpInv
<1>5. ThreadInv(t)'
  BY <1>1, <1>2, <1>3, <1>4 DEF ThreadInv, Waits, Interface
<1>6. ASSUME NEW u \in Threads \ {t} PROVE ThreadInv(u)'
  <2>1. ThreadInv(u) /\ thread'[u] = thread[u]
    BY <1>4 DEF HttpInv
  <2>2. thread[u].pc = "locked" => Interface(u) # i
    BY <1>1, <2>1, HttpAssumption DEF ThreadInv
  <2> QED BY <1>1, <1>4, <2>1, <2>2 DEF ThreadInv, Waits, Given, Interface
<1>7. IdsDistinct'
  BY SMTT(60), <1>3, <1>4 DEF HttpInv, IdsDistinct, Done
<1> QED BY <1>1, <1>4, <1>5, <1>6, <1>7 DEF HttpInv

(* Taking the next id keeps the invariant: it is above every id given before, so the ids stay *)
(* distinct.                                                                                  *)
LEMMA HttpCounts ==
  ASSUME HttpInv, NEW t \in Threads, _next_request_id(t)
  PROVE  HttpInv'
<1> DEFINE k == thread[t]
           i == k.request.interface
           x == Answered(k.request, Parsed(k.parsed.method, Counter(k.next)), k.staged)
<1>1. /\ k.pc = "locked" /\ _ID' = [_ID EXCEPT ![i] = k.next] /\ _ID_LOCK' = [_ID_LOCK EXCEPT ![i] = "none"]
      /\ thread' = [thread EXCEPT ![t] = x]
  BY DEF _next_request_id, Interface
<1>2. Waits(t) /\ i \in Counted /\ _ID_LOCK[i] = t /\ k.next = _ID[i] + 1
  BY <1>1 DEF HttpInv, ThreadInv, Waits, Interface
<1>3. RowOk(x) /\ x.pc = "done" /\ x.request = k.request /\ x.request_id = Counter(k.next)
  BY SMTT(60), <1>2, AnsweredOk DEF Waits
<1> HIDE DEF x
<1>4. /\ thread' = [u \in Threads |-> thread'[u]] /\ thread'[t] = x /\ \A u \in Threads \ {t} : thread'[u] = thread[u]
      /\ _ID_LOCK' = [j \in Counted |-> _ID_LOCK'[j]] /\ \A j \in Counted \ {i} : _ID_LOCK'[j] = _ID_LOCK[j]
  BY <1>1, <1>2 DEF HttpInv
<1>5. /\ _ID[i] \in Nat /\ k.next \in Nat /\ _ID' \in [Counted -> Nat] /\ _ID'[i] = _ID[i] + 1
      /\ \A j \in Counted \ {i} : _ID'[j] = _ID[j]
  BY SMTT(60), <1>1, <1>2 DEF HttpInv
<1>6. ThreadInv(t)'
  BY SMTT(60), <1>2, <1>3, <1>4, <1>5 DEF ThreadInv, Given, Waits
<1>7. ASSUME NEW u \in Threads \ {t} PROVE ThreadInv(u)'
  <2>1. ThreadInv(u) /\ thread'[u] = thread[u]
    BY <1>4 DEF HttpInv
  <2>2. thread[u].pc = "locked" => Interface(u) # i
    BY <1>2, <2>1 DEF ThreadInv
  <2>3. CASE thread[u].pc # "done"
    BY SMTT(60), <1>4, <1>5, <2>1, <2>2, <2>3 DEF ThreadInv, Waits, Interface
  <2>4. CASE thread[u].pc = "done"
    <3>1. Given(u)
      BY <2>1, <2>4 DEF ThreadInv
    <3>2. \A j \in Counted : _ID[j] \in Nat /\ _ID'[j] \in Nat /\ _ID[j] <= _ID'[j]
      BY SMTT(60), <1>5 DEF HttpInv
    <3>3. Given(u)'
      BY SMTT(60), <2>1, <3>1, <3>2 DEF Given
    <3> QED BY <2>1, <2>4, <3>3 DEF ThreadInv
  <2> QED BY <2>3, <2>4
<1>8. ASSUME NEW u \in Threads \ {t}, thread[u].pc = "done", thread[u].request.interface = i,
             CallersId(thread[u].request) = NoId, thread[u].request_id # NoId
      PROVE  thread[u].request_id # Counter(k.next)
  <2>1. PICK n \in Nat : thread[u].request_id = Counter(n) /\ n <= _ID[i]
    BY <1>2, <1>8 DEF HttpInv, ThreadInv, Given
  <2>2. n # k.next
    BY SMTT(60), <1>2, <1>5, <2>1
  <2> QED BY SMTT(60), <2>1, <2>2 DEF Counter
<1>9. IdsDistinct'
  BY SMTT(60), <1>3, <1>4, <1>8 DEF HttpInv, IdsDistinct, Done
<1> QED BY <1>4, <1>5, <1>6, <1>7, <1>9 DEF HttpInv

(* Every step of a listener keeps the invariant. *)
LEMMA HttpInvNext == HttpInv /\ [Next]_vars => HttpInv'
<1> SUFFICES ASSUME HttpInv, [Next]_vars PROVE HttpInv'
  OBVIOUS
<1>1. CASE UNCHANGED vars
  BY <1>1 DEF vars, HttpInv, ThreadInv, Waits, Given, Interface, IdsDistinct, Done
<1> QED BY <1>1, HttpReads, HttpLocks, HttpCounts DEF Next, Serve

(* Every row is found by the id its caller sent, the ids that rest.py and tendermint.py give *)
(* themselves are distinct, and a row's label tells the reply, for any number of threads and *)
(* any requests.                                                                             *)
THEOREM RowsFound == Spec => []RowFindsRequest
<1>1. HttpInv => RowFindsRequest
  <2> SUFFICES ASSUME HttpInv PROVE RowFindsRequest
    OBVIOUS
  <2>1. \A t \in Threads : Done(t) => RowOk(thread[t])
    BY DEF HttpInv, ThreadInv, Done
  <2>2. FoundByItsId /\ LabelTellsReply
    BY <2>1 DEF RowOk, FoundByItsId, LabelTellsReply
  <2> QED BY <2>2 DEF HttpInv, RowFindsRequest
<1> QED BY <1>1, HttpInvInit, HttpInvNext, PTL DEF Spec

-----------------------------------------------------------------------------
(* The gRPC handler *)

(* What the gRPC plan and row of a served request have to do with each other. *)
Agree(label, latency, plan) ==
  /\ plan.body.code # "null"
  /\ plan.body.kind = "reply" <=> label = "success"
  /\ latency = plan.latency /\ latency \in Nat
  /\ plan.action = "hang" => latency = 0

(* The shape of a row. *)
IsRow(row) ==
  row = [label |-> row.label, latency |-> row.latency, request_id |-> row.request_id, grpc_status |-> row.grpc_status]

(* The invariant of one call that was made. *)
CallInv(k) ==
  /\ k = [pc |-> k.pc, row |-> k.row, plan |-> k.plan, staged |-> k.staged, waited |-> k.waited]
  /\ IsRow(k.row)
  /\ k.pc \in {"wait", "metadata", "answered", "aborted", "gone", "failed"}
  /\ Agree(k.row.label, k.row.latency, k.plan)
  /\ k.row.grpc_status = "null" <=> k.pc \in {"wait", "metadata", "gone", "failed"}
  /\ k.pc = "answered" => k.plan.body.kind = "reply"
  /\ k.pc = "aborted" => k.plan.body.kind # "reply"
  /\ k.pc \in {"metadata", "answered", "aborted"} /\ k.plan.action # "hang" => k.waited = k.plan.latency

GrpcInv ==
  /\ call = [c \in Calls |-> call[c]]
  /\ \A c \in Calls : Made(c) => CallInv(call[c])

(* A status has a name. *)
LEMMA StatusNamed ==
  ASSUME NEW m, NEW n
  PROVE  _status_name(m, n) # "null"
BY DEF _status_name, StatusNames, ByValue

(* The answer before a corruption. *)
LEMMA BuiltAgrees ==
  ASSUME NEW method, NEW s \in StagedCalls
  PROVE  /\ s.mode = "up" => Agree(GrpcLabel(s), s.latency, build_success(method, s))
         /\ s.mode \in {"hang", "drop", "rate_limit", "error"} => Agree(s.mode, GrpcFault(s).latency, GrpcFault(s))
         /\ s.mode = "method_down" => Agree("down", GrpcFault(s).latency, GrpcFault(s))
<1>1. s.latency \in Nat
  BY GrpcAssumption
<1>2. s.mode = "up" => Agree(GrpcLabel(s), s.latency, build_success(method, s))
  BY <1>1, StatusNamed DEF Agree, GrpcLabel, build_success, GrpcPlan, GrpcStatus, GrpcReply
<1>3. s.mode \in {"hang", "drop", "rate_limit", "error"} => Agree(s.mode, GrpcFault(s).latency, GrpcFault(s))
  BY <1>1, StatusNamed DEF Agree, GrpcFault, GrpcPlan, GrpcStatus
<1>4. s.mode = "method_down" => Agree("down", GrpcFault(s).latency, GrpcFault(s))
  BY <1>1 DEF Agree, GrpcFault, GrpcPlan, GrpcStatus
<1> QED BY <1>2, <1>3, <1>4

(* The shape of a plan. *)
IsPlan(plan) == plan = [action |-> plan.action, body |-> plan.body, latency |-> plan.latency]

(* A corruption changes the body of a reply and neither the label nor the wait. *)
LEMMA CorruptAgrees ==
  ASSUME NEW plan, NEW label, NEW s, IsPlan(plan), Agree(label, plan.latency, plan)
  PROVE  Agree(corrupt(plan, label, s).label, plan.latency, corrupt(plan, label, s).plan)
BY DEF IsPlan, Agree, corrupt, GrpcStatus

(* A built answer has the fields of a plan. *)
LEMMA BuiltIsPlan ==
  ASSUME NEW method, NEW s
  PROVE  /\ IsPlan(build_success(method, s))
         /\ s.mode \in {"hang", "drop", "rate_limit", "error", "method_down"} => IsPlan(GrpcFault(s))
BY DEF IsPlan, build_success, GrpcFault, GrpcPlan

(* The plan and the row of a call that is served agree. *)
LEMMA ServedAgrees ==
  ASSUME NEW method, NEW s \in StagedCalls
  PROVE  Agree(serve(method, s).label, serve(method, s).latency, serve(method, s).plan)
<1>1. s.mode \in {"up", "down", "method_down", "hang", "drop", "rate_limit", "error"} /\ s.latency \in Nat
  BY GrpcAssumption
<1>2. CASE s.mode = "down"
  BY <1>2 DEF serve, Agree, GrpcPlan, GrpcStatus, RowLatency
<1>3. CASE s.mode = "method_down"
  <2>1. serve(method, s) = [plan |-> GrpcFault(s), label |-> "down", latency |-> GrpcFault(s).latency]
    BY <1>3 DEF serve, RowLatency
  <2> QED BY SMTT(60), <1>3, <2>1, BuiltAgrees
<1>4. CASE s.mode = "up"
  <2> DEFINE p == build_success(method, s)
  <2>1. serve(method, s) = [plan |-> corrupt(p, GrpcLabel(s), s).plan,
                            label |-> corrupt(p, GrpcLabel(s), s).label, latency |-> p.latency]
    BY <1>4 DEF serve, RowLatency
  <2>2. p.latency = s.latency
    BY DEF build_success, GrpcPlan
  <2>3. Agree(GrpcLabel(s), p.latency, p) /\ IsPlan(p)
    BY <1>4, <2>2, BuiltAgrees, BuiltIsPlan
  <2> HIDE DEF p
  <2> QED BY SMTT(60), <2>1, <2>3, CorruptAgrees
<1>5. CASE s.mode \in {"hang", "drop", "rate_limit", "error"}
  <2> DEFINE p == GrpcFault(s)
  <2>1. serve(method, s) = [plan |-> corrupt(p, s.mode, s).plan,
                            label |-> corrupt(p, s.mode, s).label, latency |-> p.latency]
    BY <1>5 DEF serve, RowLatency
  <2>3. Agree(s.mode, p.latency, p) /\ IsPlan(p)
    BY <1>5, BuiltAgrees, BuiltIsPlan
  <2> HIDE DEF p
  <2> QED BY SMTT(60), <2>1, <2>3, CorruptAgrees
<1> QED BY <1>1, <1>2, <1>3, <1>4, <1>5

(* Ended keeps the invariant of a call whose row has no status yet. *)
LEMMA EndedKeeps ==
  ASSUME NEW pc \in {"wait", "metadata", "send", "failed"}, NEW row, NEW plan, NEW s, NEW waited,
         IsRow(row), row.grpc_status = "null", Agree(row.label, row.latency, plan),
         pc \in {"metadata", "send"} /\ plan.action # "hang" => waited = plan.latency
  PROVE  CallInv(Ended(pc, row, plan, s, waited))
<1>1. CASE pc # "send"
  BY <1>1 DEF CallInv, Ended
<1>2. CASE pc = "send"
  <2> DEFINE new == [row EXCEPT !.grpc_status = plan.body.code]
  <2>1. IsRow(new) /\ new.label = row.label /\ new.latency = row.latency /\ new.grpc_status = plan.body.code
    BY SMTT(60) DEF IsRow
  <2>2. Agree(new.label, new.latency, plan) /\ plan.body.code # "null"
    BY <2>1 DEF Agree
  <2>3. Ended(pc, row, plan, s, waited) = [pc |-> IF plan.body.kind = "reply" THEN "answered" ELSE "aborted",
                                           row |-> new, plan |-> plan, staged |-> s, waited |-> waited]
    BY <1>2 DEF Ended
  <2> HIDE DEF new
  <2> QED BY SMTT(60), <1>2, <2>1, <2>2, <2>3 DEF CallInv
<1> QED BY <1>1, <1>2

(* Every step of a call keeps the invariant. *)
LEMMA GrpcStep == GrpcInv /\ [GrpcNext]_grpcVars => GrpcInv'
<1> SUFFICES ASSUME GrpcInv, [GrpcNext]_grpcVars PROVE GrpcInv'
  OBVIOUS
<1>1. ASSUME NEW c \in Calls, NEW k, call' = [call EXCEPT ![c] = k], CallInv(k)
      PROVE  GrpcInv'
  BY <1>1 DEF GrpcInv, Made
<1>2. ASSUME NEW c \in Calls, NEW method, NEW address, NEW s \in StagedCalls, PerformCall(c, method, address, s)
      PROVE  GrpcInv'
  <2> DEFINE out == serve(method, s)
             row == GrpcRow(method, address, out)
  <2>1. Agree(row.label, row.latency, out.plan) /\ IsRow(row) /\ row.grpc_status = "null"
    BY ServedAgrees DEF GrpcRow, IsRow
  <2>2. FirstAwait(s, out.plan) \in {"wait", "metadata", "send", "failed"}
    BY DEF FirstAwait
  <2>3. FirstAwait(s, out.plan) \in {"metadata", "send"} /\ out.plan.action # "hang" => 0 = out.plan.latency
    BY SMTT(60), <2>1 DEF FirstAwait, Agree
  <2>4. call' = [call EXCEPT ![c] = Ended(FirstAwait(s, out.plan), row, out.plan, s, 0)]
    BY <1>2 DEF PerformCall
  <2> HIDE DEF row, out
  <2> QED BY <1>1, <2>1, <2>2, <2>3, <2>4, EndedKeeps
<1>3. ASSUME NEW c \in Calls, WakeCall(c)
      PROVE  GrpcInv'
  <2>1. CallInv(call[c]) /\ call[c].row.grpc_status = "null"
    BY <1>3 DEF WakeCall, GrpcInv, Made, CallInv
  <2>2. PICK next \in {"metadata", "send"} :
          call' = [call EXCEPT ![c] = Ended(next, call[c].row, call[c].plan, call[c].staged,
                                             IF call[c].plan.action = "hang" THEN HANG_S ELSE call[c].plan.latency)]
    BY <1>3 DEF WakeCall
  <2> QED BY <1>1, <2>1, <2>2, EndedKeeps DEF CallInv
<1>4. ASSUME NEW c \in Calls, SendMetadata(c)
      PROVE  GrpcInv'
  <2>1. CallInv(call[c]) /\ call[c].row.grpc_status = "null" /\ call[c].pc = "metadata"
    BY <1>4 DEF SendMetadata, GrpcInv, Made, CallInv
  <2>2. call' = [call EXCEPT ![c] = Ended("send", call[c].row, call[c].plan, call[c].staged, call[c].waited)]
    BY <1>4 DEF SendMetadata
  <2> QED BY <1>1, <2>1, <2>2, EndedKeeps DEF CallInv
<1>5. ASSUME NEW c \in Calls, GoAway(c)
      PROVE  GrpcInv'
  <2>1. CallInv(call[c]) /\ call[c].pc \in {"wait", "metadata"} /\ call' = [call EXCEPT ![c] = [call[c] EXCEPT !.pc = "gone"]]
    BY <1>5 DEF GoAway, GrpcInv, Made
  <2> DEFINE k == [call[c] EXCEPT !.pc = "gone"]
  <2>2. CallInv(k)
    BY SMTT(60), <2>1 DEF CallInv
  <2> HIDE DEF k
  <2> QED BY <1>1, <2>1, <2>2 DEF k
<1>6. CASE UNCHANGED grpcVars
  BY <1>6 DEF grpcVars, GrpcInv, Made
<1> QED BY <1>2, <1>3, <1>4, <1>5, <1>6 DEF GrpcNext

(* The row of a gRPC call has a status exactly when the call was answered or aborted, and its *)
(* label and latency are those of the plan that was performed (listeners/grpc.py), for any    *)
(* calls and scenarios.                                                                       *)
THEOREM GrpcRowsCorrect == GrpcSpec => []GrpcRowExact
<1>1. GrpcInit => GrpcInv
  BY SMTT(60) DEF GrpcInit, GrpcInv, Made, NotMade
<1>2. GrpcInv => GrpcRowExact
  BY DEF GrpcInv, CallInv, Agree, GrpcRowExact, NullInThreeCases, StatusTellsReply, LatencyTold
<1> QED BY <1>1, <1>2, GrpcStep, PTL DEF GrpcSpec

=============================================================================
