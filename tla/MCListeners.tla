---------------------------- MODULE MCListeners -----------------------------
(***************************************************************************)
(* What the listeners do with one request: the HTTP listeners for REST,    *)
(* Tendermint and JSON-RPC, and the gRPC handler; and the transactions     *)
(* that a Sui provider remembers.  A behaviour is about one part; the      *)
(* others stay in their initial state.                                     *)
(***************************************************************************)
EXTENDS HttpListeners, GrpcCall, SuiTransactions, SequencesExt

CONSTANT Parts   \* the parts under test: "http", "ids", "grpc", "sui"

VARIABLE part

-----------------------------------------------------------------------------
(* HTTP: requests on every route, near misses, and bodies of every shape.  *)

Request(interface, verb, path, query_id, header_id, sent, method, id) ==
  [interface |-> interface, verb |-> verb, path |-> path, query_id |-> query_id, header_id |-> header_id,
   body |-> sent, method |-> method, id |-> id]
Mine == <<"text", "mine">>
Other == <<"text", "other">>

(* A parameter filled with each of these, one of which is the name of a literal route. *)
Filled(segments, x) == [i \in DOMAIN segments |-> IF segments[i] = Param THEN x ELSE segments[i]]
Paths ==
  LET full == {Filled(r.segments, x) : r \in Routes, x \in {"7", "latest"}}
  IN  UNION {{p, Front(p), p \o <<"">>, p \o <<"", "">>, Front(p) \o <<"">>, p \o <<"more">>} : p \in full}

RestRequests(verbs, paths, ids) ==
  {Request("rest", v, p, q, h, "none", "none", NoId) : v \in verbs, p \in paths, q \in ids, h \in {NoId, Other}}
RpcRequests ==
  {Request("tendermintrpc", "GET", p, NoId, NoId, "none", "none", NoId) :
     p \in {<<>>, <<"">>, <<"status">>, <<"status", "">>, <<"nope">>, <<"a", "b">>}}
  \cup {Request(i, "POST", <<>>, NoId, NoId, b, m, id) : i \in {"tendermintrpc", "jsonrpc"},
          b \in {"empty", "not json", "array", "scalar", "object"}, m \in {"none", "status", "nope"}, id \in {NoId, Mine, Counter(1)}}

AllRequests ==
  RestRequests({"GET", "HEAD", "POST"}, Paths, {NoId, Mine}) \cup RestRequests({"PUT", "DELETE"}, {LatestBlock.segments, <<"nope">>}, {NoId, Mine})
  \cup RpcRequests
AllStaged == {[kind |-> "none", status |-> 200]}
              \cup [kind : {"rate_limit", "error", "staged error", "staged body"}, status : {200, 500}]

(* Requests with no id, for threads that run at once. *)
FewRequests ==
  {r \in RestRequests({"GET"}, {LatestBlock.segments, <<"nope">>}, {NoId}) \cup RpcRequests : r.verb = "GET"}
FewStaged == {s \in AllStaged : s.kind \in {"none", "error"}}

-----------------------------------------------------------------------------
(* gRPC: every fault, staged content and corruption.                       *)

StagedOf(modes, contents, messages, codes) ==
  [mode : modes, content : contents, error_message : messages, error_code : codes,
   corruption : {"none", "wrong_type", "truncated", "missing_field"}, latency : {0, 5},
   reply_headers : BOOLEAN, drop_at : {"before_headers", "mid_body"}]

Modes == {"up", "down", "method_down", "hang", "drop", "rate_limit", "error"}
GrpcStaged == StagedOf(Modes, {"stub", "fits", "misfit", "error"}, {"text"}, {5, 32000})
             \cup StagedOf({"error", "up"}, {"error"}, {"NOT_FOUND"}, {13})

SuiSymmetry == Permutations(SuiRequests) \cup Permutations(Digests)

-----------------------------------------------------------------------------

InitParts == Init /\ GrpcInit /\ SuiInit /\ part \in Parts

NextPart ==
  /\ \/ part = "http" /\ Serve({"t"}, Requests, Staged) /\ UNCHANGED <<grpcVars, suiVars>>
     \/ part = "ids" /\ Serve(Threads, FewRequests, FewStaged) /\ UNCHANGED <<grpcVars, suiVars>>
     \/ part = "grpc" /\ GrpcNext /\ UNCHANGED <<vars, suiVars>>
     \/ part = "sui" /\ SuiNext /\ UNCHANGED <<vars, grpcVars>>
  /\ UNCHANGED part

SpecParts == InitParts /\ [][NextPart]_<<part, vars, grpcVars, suiVars>>

(* A path that a literal route names gets that route though a pattern matches it too; HEAD *)
(* is answered as GET is; OPTIONS allows exactly the verbs that are served on the path.    *)
RoutesExact == LiteralWins /\ HeadIsGet /\ AllowExact
=============================================================================
