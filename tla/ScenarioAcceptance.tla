------------------------ MODULE ScenarioAcceptance --------------------------
(***************************************************************************)
(* What POST /scenario accepts (control_api.py) and what the configuration *)
(* of a provider refuses by itself (domain/scenario.py).  A POST merges its *)
(* fields over the stored ones, so the rules that protect a test from a    *)
(* fault that is stored and does nothing have to hold after any sequence   *)
(* of POSTs, resets and sweeps, and not only for one request.              *)
(*                                                                         *)
(* A value keeps what a rule tells apart: a number is 0, 1 or -1, a filter *)
(* is its JSON shape and its items, a set of chosen headers is the kinds of *)
(* its names.  The fields that no rule reads (error_code, error_message,   *)
(* http_status, missing_field, blocks_behind, drop_at, rate_limit_body)    *)
(* are left out.                                                           *)
(***************************************************************************)
EXTENDS Integers, Sequences, FiniteSets

CONSTANTS Providers,   \* providers of the registry
          Endpoints,   \* Endpoints[p]: set of [interface, transport, port]
          Quirks,      \* Quirks[p]: the quirk fields of the chain of p
          Gated,       \* ports with a running listener (ControlApi.port_gates)
          Shapes,      \* the JSON shapes a POST gives to a filter
          Menus        \* bound: what the POSTs of one behaviour name, each a record of
                       \*   providers, fields (given) and the number of fields of one POST (keys)

TRANSPORTS == {"http", "ws", "http2"}
_NEEDS_A_REQUEST == {"fail_first_n", "error_probability", "latency_ms", "corruption_mode", "pause_at"}
_GRAPHQL_ONLY_FIELDS == {"rate_limit_style", "error_body", "unreadable_reply"}
_MODES_THAT_NEVER_REACH_A_PAUSE == {"down", "hang", "drop_connection", "port_closed"}

(* A filter, or a set of chosen headers: JSON null, the shape the field    *)
(* expects ("right"), another value that Python iterates ("iterable": an   *)
(* object where a list is expected), or one that it does not ("number").   *)
Null == [shape |-> "null", items |-> {}]

(* ScenarioConfig with every field at its default. *)
Default ==
  [mode |-> "success", then_mode |-> "success", latency_ms |-> 0, error_probability |-> 0,
   fail_first_n |-> 0, corruption_mode |-> "none", pause_at |-> "none", pause_ms |-> 0,
   rate_limit_style |-> "status", error_body |-> "none", unreadable_reply |-> "none",
   responses |-> "none", logs_lag_mode |-> "none", transports |-> Null, ports |-> Null,
   reply_headers |-> Null, reply_trailers |-> Null]

Fields == DOMAIN Default
QuirkFields == {"logs_lag_mode"}

PortsOf(p) == {e.port : e \in Endpoints[p]}
Interfaces(p) == {e.interface : e \in Endpoints[p]}

VARIABLES stored,    \* stored[p]: the scenario and the quirks of p
          counted,   \* providers whose fail counter is above zero
          post,      \* the POST that holds port_lock
          old,       \* providers not written for longer than the time-to-live
          menu       \* what the POSTs of this behaviour name; it never changes

vars == <<stored, counted, post, old, menu>>

(* The values a POST may give each field: the ones the rules tell apart. *)
Lists(items) == {[shape |-> s, items |-> i] : s \in Shapes, i \in items} \cup {Null}
Values(f) ==
  CASE f = "mode" -> {"success", "down", "port_closed", "a typo", "unhashable"}
    [] f = "then_mode" -> {"success", "error", "port_closed"}
    [] f \in {"latency_ms", "error_probability", "fail_first_n", "pause_ms"} -> {0, 1, -1}
    [] f = "corruption_mode" -> {"none", "truncated", "invalid_json", "invalid_proto", "a typo"}
    [] f = "pause_at" -> {"none", "mid_body", "before_headers"}
    [] f = "rate_limit_style" -> {"status", "body", "a typo"}
    [] f = "error_body" -> {"none", "chosen"}
    [] f = "unreadable_reply" -> {"none", "chosen", "no status"}
    [] f = "responses" -> {"none", "mode", "mode error", "mode typo", "body", "body and mode", "status 301", "pairs"}
    [] f = "logs_lag_mode" -> {"none", "empty", "a typo"}
    [] f = "transports" -> Lists({{}, {"http"}, {"ws", "http2"}, {"grpc"}})
    [] f = "ports" -> Lists({{}} \cup {{q} : q \in UNION {PortsOf(p) : p \in menu.providers}})
    [] f \in {"reply_headers", "reply_trailers"} ->
         Lists({{}, {"plain"}, {"framing"}, {"library"}, {"plain", "binary"}})

(* before is stored as the POST found it. *)
Idle == [pc |-> "idle", todo |-> <<>>, staged |-> <<>>, answer |-> 200, before |-> <<>>]

(* The fields of one block: at most n of them, each with one of its values. *)
Named(f) == {<<f, v>> : v \in Values(f)}
Chosen(d) == {c \in [d -> UNION {Named(f) : f \in d}] : \A f \in d : c[f][1] = f}
Updates(n) ==
  UNION {{[f \in d |-> c[f][2]] : c \in Chosen(d)} : d \in {d \in SUBSET menu.given : Cardinality(d) <= n}}

(* A block is its key and its fields.  Stranger is a key that the registry *)
(* does not know, that has no ":", or whose block is not an object.        *)
Stranger == "stranger"
Block(p, u) == [key |-> p, fields |-> u]

ASSUME ScenarioAssumption ==
  /\ Stranger \notin Providers /\ Shapes \subseteq {"right", "iterable", "number"}
  /\ \A m \in Menus : m.providers \subseteq Providers /\ m.given \subseteq Fields

Init ==
  /\ stored = [p \in Providers |-> Default]
  /\ counted = {}
  /\ post = Idle
  /\ old = {}
  /\ menu \in Menus

-----------------------------------------------------------------------------
(* One field of a block *)

(* _bad_enum.  A JSON array or object is not hashable, so the look-up in    *)
(* the set of allowed values raises a TypeError that nothing catches.       *)
_bad_enum(f, v) ==
  \/ f \in {"mode", "corruption_mode", "logs_lag_mode"} /\ v = "a typo"
  \/ f = "pause_at" /\ v = "before_headers"
  \/ f = "then_mode" /\ v = "port_closed"

_bad_number(f, v) ==
  f \in {"latency_ms", "error_probability", "fail_first_n", "pause_ms"} /\ v < 0

(* _normalise_responses: a per-method error, port_closed or unknown mode, a *)
(* body with a mode, and a status neither 2xx nor an error are refused.     *)
_normalise_responses(v) == v \notin {"mode error", "mode typo", "body and mode", "status 301"}

(* What the loop over the fields of a block says of one of them: 200, 400,  *)
(* or 0 for an exception that leaves the handler without an answer.         *)
FieldAnswer(p, f, v) ==
  CASE f = "responses" -> IF _normalise_responses(v) THEN 200 ELSE 400
    [] f \in QuirkFields \ Quirks[p] -> 400
    [] f = "mode" /\ v = "unhashable" -> 0
    [] OTHER -> IF _bad_enum(f, v) \/ _bad_number(f, v) THEN 400 ELSE 200

-----------------------------------------------------------------------------
(* IntrospectiveConfig.update: the fields of u replace those of s. *)
update(s, u) == [f \in Fields |-> IF f \in DOMAIN u THEN u[f] ELSE s[f]]

(* The rules of the control API.  s is the stored scenario, u the fields of *)
(* the block; a rule that reads "effectively" reads u merged over s.        *)

(* Mutant of Effective: a rule reads the fields of the POST alone. *)
EffectiveNew(s, u) == update(Default, u)

Effective(s, u) == update(s, u)

Asks(u, f, vs) == f \in DOMAIN u /\ u[f] \in vs

Admits(filter, x) == filter.shape = "null" \/ x \in filter.items
targets(e, ep) == Admits(e.transports, ep.transport) /\ Admits(e.ports, ep.port)
Targeted(p, e) == {ep \in Endpoints[p] : targets(e, ep)}

IsList(filter) == filter.shape \in {"null", "right"}

_a_filter_scenario_config_refuses(e) ==
  ~IsList(e.transports) \/ ~IsList(e.ports) \/ (e.ports.shape = "right" /\ e.ports.items = {})

_ports_the_provider_does_not_serve(p, u) ==
  "ports" \in DOMAIN u /\ u.ports.shape = "right" /\ ~(u.ports.items \subseteq PortsOf(p))

_a_pause_no_named_port_can_serve(p, e) ==
  /\ e.pause_at # "none" /\ e.ports.shape = "right" /\ e.ports.items # {}
  /\ ~\E ep \in Endpoints[p] : ep.transport = "http" /\ ep.port \in e.ports.items

Writers(f) == IF f = "reply_trailers" THEN {"http2"} ELSE TRANSPORTS

_chosen_metadata_no_endpoint_can_send(p, e, f) ==
  /\ e[f].shape = "right" /\ e[f].items # {}
  /\ ~_a_filter_scenario_config_refuses(e)
  /\ ~\E ep \in Targeted(p, e) : ep.transport \in Writers(f)

_an_invalid_json_no_endpoint_can_apply(p, u) ==
  Asks(u, "corruption_mode", {"invalid_json"}) /\ Interfaces(p) = {"grpc"}

_an_invalid_proto_no_endpoint_can_apply(p, u) ==
  Asks(u, "corruption_mode", {"invalid_proto"}) /\ "grpc" \notin Interfaces(p)

_a_graphql_field_no_endpoint_can_apply(p, u) ==
  /\ "graphql" \notin Interfaces(p)
  /\ \E f \in _GRAPHQL_ONLY_FIELDS \cap DOMAIN u : u[f] # Default[f]

_a_canned_body_no_endpoint_can_serve(p, u) ==
  /\ Asks(u, "responses", {"body"})
  /\ "grpc" \in Interfaces(p)
  /\ Interfaces(p) \cap {"jsonrpc", "graphql", "tendermintrpc"} = {}

Refused(p, s, u) ==
  \/ _ports_the_provider_does_not_serve(p, u)
  \/ _a_pause_no_named_port_can_serve(p, Effective(s, u))
  \/ \E f \in {"reply_headers", "reply_trailers"} :
       _chosen_metadata_no_endpoint_can_send(p, Effective(s, u), f)
  \/ _an_invalid_json_no_endpoint_can_apply(p, u)
  \/ _an_invalid_proto_no_endpoint_can_apply(p, u)
  \/ _a_graphql_field_no_endpoint_can_apply(p, u)
  \/ _a_canned_body_no_endpoint_can_serve(p, u)

(* The answer to a block whose port would not really close. *)
_a_port_closed_that_cannot_happen(p, e) ==
  CASE e.mode # "port_closed" \/ _a_filter_scenario_config_refuses(e) -> 200
    [] Targeted(p, e) = {} -> 400
    [] ~({ep.port : ep \in Targeted(p, e)} \subseteq Gated) -> 409
    [] \E f \in _NEEDS_A_REQUEST : e[f] # Default[f] -> 400
    [] OTHER -> 200

-----------------------------------------------------------------------------
(* ScenarioConfig._validate, which reads the fields of one update alone *)

_validate_transports(u) ==
  "transports" \in DOMAIN u => u.transports.items \subseteq TRANSPORTS

(* Iterating a number raises a TypeError, which is not a ValueError. *)
Raises(u) == "transports" \in DOMAIN u /\ u.transports.shape = "number"

_validate_ports(u) ==
  "ports" \in DOMAIN u => \/ u.ports.shape = "null"
                          \/ u.ports.shape = "right" /\ u.ports.items # {}

_validate_pause(u) ==
  /\ Asks(u, "pause_at", {"mid_body"}) =>
       /\ ~Asks(u, "mode", _MODES_THAT_NEVER_REACH_A_PAUSE)
       /\ "transports" \in DOMAIN u => Admits(u.transports, "http")
  /\ ~(Asks(u, "pause_ms", {1}) /\ Asks(u, "pause_at", {"none"}))

_validate_rate_limit_style(u) == ~Asks(u, "rate_limit_style", {"a typo"})

_validate_unreadable_reply(u) == ~Asks(u, "unreadable_reply", {"no status"})

(* The names a reply cannot carry as chosen: those that frame an HTTP reply *)
(* (reply_headers only), those of the gRPC library, those that carry bytes. *)
OwnedNames(f) ==
  {"library", "binary"} \cup (IF f = "reply_headers" THEN {"framing"} ELSE {})

_validate_chosen(u, f) ==
  f \in DOMAIN u =>
    \/ u[f].shape = "null"
    \/ /\ u[f].shape = "right" /\ u[f].items \cap OwnedNames(f) = {}
       /\ (f = "reply_trailers" /\ u[f].items # {} /\ "transports" \in DOMAIN u)
            => Admits(u.transports, "http2")

_validate(u) ==
  /\ _validate_transports(u) /\ _validate_ports(u) /\ _validate_pause(u)
  /\ _validate_rate_limit_style(u) /\ _validate_unreadable_reply(u)
  /\ _validate_chosen(u, "reply_headers") /\ _validate_chosen(u, "reply_trailers")

-----------------------------------------------------------------------------
(* POST /scenario *)

(* The answers the fields of a block draw; the first bad one in the order  *)
(* of the caller ends the request.                                         *)
FieldAnswers(p, u) == {FieldAnswer(p, f, u[f]) : f \in DOMAIN u} \ {200}

(* What the checks make of a block whose fields are good one by one. *)
BlockAnswer(p, s, u) ==
  LET closing == _a_port_closed_that_cannot_happen(p, Effective(s, u))
  IN CASE Refused(p, s, u) -> 400
       [] ~Refused(p, s, u) /\ closing # 200 -> closing
       [] OTHER -> IF Raises(u) THEN 0 ELSE IF _validate(u) THEN 200 ELSE 400

Begun(blocks) == [Idle EXCEPT !.pc = "checking", !.todo = blocks, !.before = stored]

(* apply_scenario takes port_lock.  A request names one block or two. *)
Arrive ==
  /\ post.pc = "idle"
  /\ \E p \in menu.providers, u \in Updates(menu.keys) :
       \/ post' = Begun(<<Block(p, u)>>)
       \/ \E k \in (menu.providers \cup {Stranger}) \ {p}, w \in Updates(menu.keys - Cardinality(DOMAIN u)) :
            post' = Begun(<<Block(p, u), Block(k, w)>>)
  /\ UNCHANGED <<stored, counted, old, menu>>

Answer(n) == post' = [post EXCEPT !.pc = "answered", !.answer = n, !.todo = <<>>]

Stage(p, u) == post' = [post EXCEPT !.todo = Tail(@), !.staged = Append(@, Block(p, u))]

(* One turn of the first loop: a block is refused, or staged. *)
CheckBlock ==
  /\ post.pc = "checking" /\ post.todo # <<>>
  /\ LET p == Head(post.todo).key
         u == Head(post.todo).fields
     IN \/ p = Stranger /\ Answer(400)
        \/ p # Stranger /\ \E n \in FieldAnswers(p, u) : Answer(n)
        \/ /\ p # Stranger /\ FieldAnswers(p, u) = {}
           /\ LET n == BlockAnswer(p, stored[p], u)
              IN \/ n = 200 /\ Stage(p, u)
                 \/ n # 200 /\ Answer(n)
  /\ UNCHANGED <<stored, counted, old, menu>>

(* One turn of the second loop.  A fail_first_n restarts the counter. *)
StartWriting ==
  /\ post.pc = "checking" /\ post.todo = <<>>
  /\ post' = [post EXCEPT !.pc = "writing", !.todo = post.staged]
  /\ UNCHANGED <<stored, counted, old, menu>>
WriteBlock ==
  /\ post.pc = "writing" /\ post.todo # <<>>
  /\ LET p == Head(post.todo).key
         u == Head(post.todo).fields
     IN /\ counted' = IF "fail_first_n" \in DOMAIN u THEN counted \ {p} ELSE counted
        /\ stored' = [stored EXCEPT ![p] = update(@, u)]
        /\ old' = old \ {p}
  /\ post' = [post EXCEPT !.todo = Tail(@)]
  /\ UNCHANGED menu

(* _settle_ports: 500 when a port with a gate did not reach its state. *)
Settle ==
  /\ post.pc = "writing" /\ post.todo = <<>>
  /\ \/ Answer(200)
     \/ /\ \E i \in DOMAIN post.staged : PortsOf(post.staged[i].key) \cap Gated # {}
        /\ Answer(500)
  /\ UNCHANGED <<stored, counted, old, menu>>

(* The answer leaves the handler and port_lock is free. *)
Done ==
  /\ post.pc = "answered" /\ post' = Idle
  /\ UNCHANGED <<stored, counted, old, menu>>

-----------------------------------------------------------------------------
(* The other writers, and a request that reads *)

(* A targeted request under a fail_first_n advances the counter. *)
Request(p) ==
  /\ stored[p].fail_first_n > 0 /\ p \notin counted
  /\ counted' = counted \cup {p}
  /\ UNCHANGED <<stored, post, old, menu>>

(* Mutant of LockFree: a reset or a sweep does not take port_lock. *)
LockFreeAlways == TRUE

(* with port_lock *)
LockFree == post.pc = "idle"

(* The scenario part of _perform_reset over its scope: one pool, or all. *)
Reset ==
  /\ LockFree
  /\ \E ps \in {Providers} \cup {{p} : p \in Providers} :
       /\ stored' = [p \in Providers |-> IF p \in ps THEN Default ELSE stored[p]]
       /\ counted' = counted \ ps
  /\ UNCHANGED <<post, old, menu>>

(* IntrospectiveConfig.reset of the scenario, which holds no quirk. *)
ScenarioReset(s) == [f \in Fields |-> IF f \in QuirkFields THEN s[f] ELSE Default[f]]

(* One pass of the time-to-live sweep. *)
Sweep ==
  /\ LockFree /\ old # {}
  /\ stored' = [p \in Providers |-> IF p \in old /\ stored[p].mode # "success"
                                   THEN ScenarioReset(stored[p]) ELSE stored[p]]
  /\ UNCHANGED <<counted, post, old, menu>>

(* Time passes. *)
Age(p) ==
  /\ post.pc = "idle" /\ p \notin old /\ stored[p] # Default
  /\ old' = old \cup {p}
  /\ UNCHANGED <<stored, counted, post, menu>>

Next ==
  \/ Arrive \/ CheckBlock \/ StartWriting \/ WriteBlock \/ Settle \/ Done
  \/ Reset \/ Sweep
  \/ \E p \in Providers : Request(p) \/ Age(p)

Spec == Init /\ [][Next]_vars

(* The daemon of the sweep is a loop that never ends. *)
LiveSpec == Spec /\ WF_vars(Sweep)

-----------------------------------------------------------------------------
(* Properties *)

(* When a POST returns, each provider it named holds every field it gave:   *)
(* no reset and no sweep comes between the first check and the answer.  A   *)
(* POST that is refused, or that gets no answer, has changed no provider.   *)
AnsweredIsStored ==
  post.pc = "answered" =>
    IF post.answer \in {200, 500}
      THEN \A i \in DOMAIN post.staged :
             LET b == post.staged[i] IN \A f \in DOMAIN b.fields : stored[b.key][f] = b.fields[f]
      ELSE stored = post.before

(* After any sequence of POSTs, resets and sweeps, a stored port_closed     *)
(* closes at least one port, each port it names has a listener to stop, and *)
(* no field that needs a request is set beside it.                          *)
ClosedCanHappen ==
  \A p \in Providers : stored[p].mode = "port_closed" =>
    /\ Targeted(p, stored[p]) # {}
    /\ \A ep \in Targeted(p, stored[p]) : ep.port \in Gated
    /\ \A f \in _NEEDS_A_REQUEST : stored[p][f] = Default[f]

(* A stored pause with a ports filter names an address that performs it,    *)
(* and stored headers or trailers reach an endpoint that writes them, even  *)
(* when the filter moved in a later POST.                                   *)
ChosenReachesAWriter ==
  \A p \in Providers :
    /\ stored[p].pause_at # "none" /\ stored[p].ports.shape # "null" =>
         \E ep \in Endpoints[p] : ep.transport = "http" /\ ep.port \in stored[p].ports.items
    /\ \A f \in {"reply_headers", "reply_trailers"} : stored[p][f].items # {} =>
         \E ep \in Targeted(p, stored[p]) : ep.transport \in Writers(f)

(* A stored corruption, GraphQL field or canned body has an interface of    *)
(* the provider that reads it.                                              *)
StoredHasAReader ==
  \A p \in Providers :
    /\ stored[p].corruption_mode = "invalid_json" => Interfaces(p) # {"grpc"}
    /\ stored[p].corruption_mode = "invalid_proto" => "grpc" \in Interfaces(p)
    /\ (\E f \in _GRAPHQL_ONLY_FIELDS : stored[p][f] # Default[f]) => "graphql" \in Interfaces(p)
    /\ stored[p].responses = "body" => Interfaces(p) \cap {"jsonrpc", "graphql", "tendermintrpc"} # {}
                                      \/ "grpc" \notin Interfaces(p)

(* The type of the state. *)
TypeOK ==
  /\ DOMAIN stored = Providers /\ \A p \in Providers : DOMAIN stored[p] = Fields
  /\ counted \subseteq Providers /\ old \subseteq Providers
  /\ post.pc \in {"idle", "checking", "writing", "answered"} /\ post.answer \in {0, 200, 400, 409, 500}

(* After any sequence of POSTs, resets and sweeps, a stored port_closed     *)
(* closes at least one port, each port it names has a listener to stop, and *)
(* no field that needs a request is set beside it; stored pauses, headers   *)
(* and trailers reach an endpoint that performs them; and a stored          *)
(* corruption or canned body has an interface that reads it.                *)
StoredCanHappen == TypeOK /\ ClosedCanHappen /\ ChosenReachesAWriter /\ StoredHasAReader

(* Every POST gets an answer: a bad value is refused with a 400 and does    *)
(* not drop the connection of the caller.                                   *)
(* The code does not keep it: README, section 7.                            *)
EveryPostAnswered == post.pc = "answered" => post.answer # 0

(* A provider that nobody writes for the time-to-live goes back to the      *)
(* defaults of its scenario, as the daemon of the sweep never ends.         *)
(* The code does not keep it: README, section 7.                            *)
StaleIsReverted ==
  \A p \in Providers : p \in old ~> p \notin old \/ stored[p] = ScenarioReset(stored[p])
=============================================================================
