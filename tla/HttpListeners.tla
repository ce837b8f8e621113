--------------------------- MODULE HttpListeners ----------------------------
(***************************************************************************)
(* What the REST, Tendermint RPC and JSON-RPC listeners put into the       *)
(* request flow (provider_simulator/listeners/rest.py, tendermint.py and   *)
(* jsonrpc.py): how a request is read, its request id, its route, its      *)
(* reply and the label of its row; and the OPTIONS of a REST port.         *)
(*                                                                         *)
(* A path is the sequence of its segments, a trailing slash an empty last  *)
(* one.  A body is its shape with the method and the id it carries.  What  *)
(* a chain says is left out but for its status and whether it is an error. *)
(* RequestFlow has the order of the flow and the scenario's own changes.   *)
(***************************************************************************)
EXTENDS Naturals, Sequences

CONSTANTS Threads,    \* the handler threads, one request each
          Requests,   \* the requests that may come, see MCListeners
          Staged      \* what the scenario stages for a request: [kind, status]

ASSUME HttpAssumption ==
  /\ "none" \notin Threads
  /\ \A r \in Requests :
       \/ r.interface = "rest" /\ r.verb \in {"GET", "HEAD", "POST", "PUT", "DELETE"}
       \/ r.interface = "tendermintrpc" /\ r.verb \in {"GET", "POST"}
       \/ r.interface = "jsonrpc" /\ r.verb = "POST" /\ r.body # "none"

VARIABLES _ID,        \* _ID[i]: the last id that the simulator gave on interface i
          _ID_LOCK,   \* _ID_LOCK[i]: the thread that holds the lock, or "none"
          thread      \* thread[t]: where it stands, its request, its reply and its row

vars == <<_ID, _ID_LOCK, thread>>

Counted == {"rest", "tendermintrpc"}

-----------------------------------------------------------------------------
(* The routes of REST.                                                     *)

Param == "{}"
Base == <<"cosmos", "base", "tendermint", "v1beta1">>
Route(verb, segments) == [verb |-> verb, segments |-> segments]

LatestBlock == Route("GET", Base \o <<"blocks", "latest">>)
BlockAt == Route("GET", Base \o <<"blocks", Param>>)
OtherRoutes ==
  <<Route("GET", Base \o <<"node_info">>), Route("GET", <<"cosmos", "bank", "v1beta1", "balances", Param>>),
    Route("GET", <<"cosmos", "staking", "v1beta1", "validators">>),
    Route("POST", <<"cosmos", "tx", "v1beta1", "simulate">>), Route("POST", <<"cosmos", "tx", "v1beta1", "txs">>)>>

(* Mutant of REST_METHOD_DEFAULTS: the route with the parameter comes first. *)
ParamFirst == <<BlockAt, LatestBlock>> \o OtherRoutes

(* In the order in which they are tried. *)
REST_METHOD_DEFAULTS == <<LatestBlock, BlockAt>> \o OtherRoutes

(* A path whose last segment is empty ends with a slash. *)
EndsWithSlash(path) == path # <<>> /\ path[Len(path)] = ""
Bare(path) == IF EndsWithSlash(path) THEN SubSeq(path, 1, Len(path) - 1) ELSE path

(* A parameter takes one segment that is not empty; one slash may follow. *)
_compile_route(route, path) ==
  \E p \in {path, Bare(path)} :
    /\ Len(p) = Len(route.segments)
    /\ \A i \in DOMAIN p : route.segments[i] = p[i] \/ (route.segments[i] = Param /\ p[i] # "")

_ROUTE_VERB(verb) == IF verb = "HEAD" THEN "GET" ELSE verb

NoRoute == Route("none", <<>>)
Template(verb, path) ==
  LET hits == {i \in DOMAIN REST_METHOD_DEFAULTS :
                 REST_METHOD_DEFAULTS[i].verb = _ROUTE_VERB(verb) /\ _compile_route(REST_METHOD_DEFAULTS[i], path)}
  IN  IF hits = {} THEN NoRoute ELSE REST_METHOD_DEFAULTS[CHOOSE i \in hits : \A j \in hits : i <= j]

(* The verbs registered for a path. *)
Routes == {REST_METHOD_DEFAULTS[i] : i \in DOMAIN REST_METHOD_DEFAULTS}
allowed_verbs(path) == {r.verb : r \in {x \in Routes : _compile_route(x, path)}}

(* What OPTIONS allows; nothing is its 404. *)
do_OPTIONS(path) ==
  LET allowed == allowed_verbs(path)
  IN  IF allowed = {} THEN {}
      ELSE allowed \cup {"OPTIONS"} \cup {v \in {"HEAD"} : "GET" \in allowed}

-----------------------------------------------------------------------------
(* Reading a request: what parse_request returns, or the reply it raises.  *)

None == "none"
NoId == <<>>
Counter(n) == <<"number", n>>
Parsed(method, id) == [kind |-> "parsed", method |-> method, id |-> id]
Wants(method) == [kind |-> "wants id", method |-> method, id |-> NoId]
Direct(label, status) == [kind |-> label, method |-> label, id |-> NoId, status |-> status]

(* The query parameter wins over the header; an empty one is none. *)
_caller_request_id(r) == IF r.query_id # NoId THEN r.query_id ELSE r.header_id

(* The method of a parsed REST request is the verb of its route. *)
ParseRest(r) ==
  IF _caller_request_id(r) = NoId THEN Wants(Template(r.verb, r.path).verb)
                                  ELSE Parsed(Template(r.verb, r.path).verb, _caller_request_id(r))

(* The method of a URI: its path with no slash around it. *)
UriMethod(path) ==
  LET segments == SelectSeq(path, LAMBDA s : s # "")
  IN  CASE segments = <<>> -> None [] Len(segments) = 1 -> Head(segments) [] OTHER -> "a/path"

ParseTendermint(r) ==
  CASE r.verb = "GET" -> IF UriMethod(r.path) = None THEN Direct("parse_error", 400) ELSE Wants(UriMethod(r.path))
    [] r.verb # "GET" /\ (r.body # "object" \/ r.method = None) -> Direct("parse_error", 400)
    [] OTHER -> Parsed(r.method, r.id)

(* A body that is no object is a request that asks for nothing; a batch is refused. *)
ParseJsonRpc(r) ==
  CASE r.body = "array"  -> Direct("batch", 200)
    [] r.body = "object" -> Parsed(IF r.method = None THEN "unknown" ELSE r.method, r.id)
    [] OTHER             -> Parsed("unknown", NoId)

parse_request(r) ==
  CASE r.interface = "rest"          -> ParseRest(r)
    [] r.interface = "tendermintrpc" -> ParseTendermint(r)
    [] r.interface = "jsonrpc"       -> ParseJsonRpc(r)

-----------------------------------------------------------------------------
(* The reply and the row.                                                  *)

Reply(status, error, id) == [status |-> status, error |-> error, id |-> id]

(* The body of a fault: a bare object on REST, an envelope with the id on the others; a
   JSON-RPC rate limit is plain text, and an error there with no id has id 1. *)
RestFault(s) == Reply(s.status, TRUE, NoId)
TendermintFault(p, s) == Reply(s.status, TRUE, p.id)
JsonRpcFault(p, s) ==
  IF s.kind = "rate_limit" THEN Reply(s.status, FALSE, NoId)
                           ELSE Reply(s.status, TRUE, IF p.id = NoId THEN Counter(1) ELSE p.id)
build_fault(r, p, s) ==
  CASE r.interface = "rest"          -> RestFault(s)
    [] r.interface = "tendermintrpc" -> TendermintFault(p, s)
    [] r.interface = "jsonrpc"       -> JsonRpcFault(p, s)

(* The chain's success reply (chains/lava.py; external: the data of the chains). A request
   with no id is answered as id 1 on JSON-RPC. *)
Known(r, p) == IF r.interface = "rest" THEN p.method # NoRoute.verb ELSE p.method = "status"
build_content(r, p, s) ==
  LET id == CASE r.interface = "rest" -> NoId
              [] r.interface = "jsonrpc" /\ p.id = NoId -> Counter(1)
              [] OTHER -> p.id
  IN  CASE s.kind = "staged error" -> Reply(s.status, TRUE, id)
        [] s.kind = "staged body"  -> Reply(s.status, FALSE, id)
        [] s.kind \notin {"staged error", "staged body"} /\ Known(r, p) -> Reply(200, FALSE, id)
        [] OTHER -> IF r.interface = "rest" THEN Reply(404, FALSE, NoId) ELSE Reply(200, TRUE, id)

Is2xx(status) == status \in 200..299

(* The label of a success-path reply: JSON-RPC reads the body alone. *)
LabelOfBody(reply) == IF reply.error THEN "error" ELSE "success"

RestLabel(p, reply) ==
  CASE reply.status = 404 /\ p.method = NoRoute.verb                   -> "not_found"
    [] ~Is2xx(reply.status) /\ ~(reply.status = 404 /\ p.method = NoRoute.verb) -> "error"
    [] OTHER -> LabelOfBody(reply)

TendermintLabel(reply) == IF ~Is2xx(reply.status) THEN "error" ELSE LabelOfBody(reply)

success_label(r, p, reply) ==
  CASE r.interface = "rest"          -> RestLabel(p, reply)
    [] r.interface = "tendermintrpc" -> TendermintLabel(reply)
    [] r.interface = "jsonrpc"       -> LabelOfBody(reply)

(* The id of the row: the one of the reply, or else the one of the request. *)
request_id(p, reply) == IF reply.id # NoId THEN reply.id ELSE p.id

(* The rest of Listener.serve, from the parsed request on. JSON-RPC alone takes a staged
   body as the whole reply, which its status labels. *)
Answered(r, p, s) ==
  LET canned == r.interface = "jsonrpc" /\ s.kind = "staged body"
      fault == s.kind \in {"rate_limit", "error"}
      reply == CASE canned -> Reply(s.status, FALSE, NoId) [] fault -> build_fault(r, p, s) [] OTHER -> build_content(r, p, s)
      label == CASE canned -> IF Is2xx(s.status) THEN "success" ELSE "error"
                 [] fault  -> s.kind
                 [] OTHER  -> success_label(r, p, reply)
  IN  [pc |-> "done", request |-> r, staged |-> s, reply |-> reply, suppress_body |-> r.interface = "rest" /\ r.verb = "HEAD",
       label |-> label, request_id |-> IF fault \/ canned THEN p.id ELSE request_id(p, reply)]

Refused(r, p, s) ==
  [pc |-> "done", request |-> r, staged |-> s, reply |-> Reply(p.status, TRUE, NoId), suppress_body |-> FALSE,
   label |-> IF p.kind = "batch" THEN "error" ELSE p.kind, request_id |-> NoId]

-----------------------------------------------------------------------------

Idle == [pc |-> "idle"]
Init ==
  /\ _ID = [i \in Counted |-> 0]
  /\ _ID_LOCK = [i \in Counted |-> "none"]
  /\ thread = [t \in Threads |-> Idle]

Read(t, r, s) ==
  /\ thread[t] = Idle
  /\ LET p == parse_request(r)
     IN  thread' = [thread EXCEPT ![t] =
           CASE p.kind = "parsed"   -> Answered(r, p, s)
             [] p.kind = "wants id" -> [pc |-> "wants", request |-> r, staged |-> s, parsed |-> p]
             [] OTHER               -> Refused(r, p, s)]
  /\ UNCHANGED <<_ID, _ID_LOCK>>

Interface(t) == thread[t].request.interface

(* Mutant of LockFree: nobody waits. *)
LockAlways(i) == TRUE

LockFree(i) == _ID_LOCK[i] = "none"

(* _next_request_id: lock, read, write and unlock. *)
TakeLock(t) ==
  /\ thread[t].pc = "wants" /\ LockFree(Interface(t))
  /\ _ID_LOCK' = [_ID_LOCK EXCEPT ![Interface(t)] = t]
  /\ thread' = [thread EXCEPT ![t] = [pc |-> "locked", request |-> @.request, staged |-> @.staged, parsed |-> @.parsed,
                                       next |-> _ID[Interface(t)] + 1]]
  /\ UNCHANGED _ID

_next_request_id(t) ==
  /\ thread[t].pc = "locked"
  /\ LET k == thread[t]
     IN  /\ _ID' = [_ID EXCEPT ![Interface(t)] = k.next]
         /\ thread' = [thread EXCEPT ![t] = Answered(k.request, Parsed(k.parsed.method, Counter(k.next)), k.staged)]
  /\ _ID_LOCK' = [_ID_LOCK EXCEPT ![Interface(t)] = "none"]

(* The handler threads serve requests under what is staged. *)
Serve(threads, requests, staged) ==
  \E t \in threads :
    \/ \E r \in requests, s \in staged : Read(t, r, s)
    \/ TakeLock(t)
    \/ _next_request_id(t)

Next == Serve(Threads, Requests, Staged)

Spec == Init /\ [][Next]_vars

-----------------------------------------------------------------------------

Done(t) == thread[t].pc = "done"
OfRest(t) == Done(t) /\ thread[t].request.interface = "rest"

(* The id that the caller put where its interface has one.                                 *)
CallersId(r) ==
  CASE r.interface = "rest" -> IF r.query_id # NoId THEN r.query_id ELSE r.header_id
    [] r.interface = "tendermintrpc" -> IF r.verb = "POST" THEN r.id ELSE NoId
    [] r.interface = "jsonrpc" -> r.id

(* A request that was read is found in the history under the id its caller chose, whatever *)
(* reply it got: a fault, a staged reply, a 404 or the chain's.                            *)
FoundByItsId ==
  \A t \in Threads :
    Done(t) /\ CallersId(thread[t].request) # NoId /\ thread[t].request.body \in {"object", "none"} /\ thread[t].label # "parse_error" =>
      thread[t].request_id = CallersId(thread[t].request)

(* Two requests with no id of their own never share one, on threads that run at once.      *)
IdsDistinct ==
  \A t, u \in Threads :
    /\ t # u /\ Done(t) /\ Done(u) /\ thread[t].request.interface = thread[u].request.interface
    /\ thread[t].request.interface \in Counted
    /\ \A v \in {t, u} : CallersId(thread[v].request) = NoId /\ thread[v].request_id # NoId
    => thread[t].request_id # thread[u].request_id

(* The path of a literal route is served by that route, though a route with a parameter    *)
(* matches it too; one slash after it changes nothing, and two match no route.             *)
LiteralWins ==
  \A t \in Threads : OfRest(t) =>
    LET path == thread[t].request.path
        bare == Bare(path)
        verb == IF thread[t].request.verb = "HEAD" THEN "GET" ELSE thread[t].request.verb
    IN  /\ Route(verb, bare) \in Routes => Template(verb, path) = Route(verb, bare)
        /\ EndsWithSlash(bare) => Template(verb, path) = NoRoute

(* A HEAD is answered as the GET of its path would be, with the body withheld.             *)
HeadIsGet ==
  \A t \in Threads : OfRest(t) /\ thread[t].request.verb = "HEAD" =>
    LET r == [thread[t].request EXCEPT !.verb = "GET"]
        get == Answered(r, [parse_request(r) EXCEPT !.id = thread[t].request_id], thread[t].staged)
    IN  thread[t].suppress_body /\ thread[t].reply = get.reply /\ thread[t].label = get.label

(* OPTIONS allows exactly the verbs that are served on a path.                             *)
AllowExact ==
  \A t \in Threads : OfRest(t) /\ thread[t].staged.kind = "none" =>
    (thread[t].reply.status # 404 <=> thread[t].request.verb \in do_OPTIONS(thread[t].request.path))

(* A row says success only for a reply that carries no error, on REST and Tendermint only   *)
(* inside 2xx, and not_found only for a path that the simulator does not serve.            *)
LabelTellsReply ==
  \A t \in Threads : Done(t) =>
    LET k == thread[t]
    IN  /\ k.label = "success" => ~k.reply.error /\ (k.request.interface \in Counted => Is2xx(k.reply.status))
        /\ k.label = "not_found" => k.request.interface = "rest" /\ do_OPTIONS(k.request.path) \cap {k.request.verb} = {}

(* The row of a request that was read carries the id that its caller chose or, if there is *)
(* none, an id that no other request gets; its label tells the reply.                      *)
RowFindsRequest == FoundByItsId /\ IdsDistinct /\ LabelTellsReply
=============================================================================
