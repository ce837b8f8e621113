--------------------------- MODULE ScenarioProofs ----------------------------
(***************************************************************************)
(* What POST /scenario stores, for any registry and any sequence of POSTs, *)
(* resets and sweeps.  ScenarioInv follows the two loops of a POST under   *)
(* port_lock; AllFit says that every stored scenario can happen.           *)
(***************************************************************************)
EXTENDS ScenarioAcceptance, TLAPS

USE ZenonT(60)

-----------------------------------------------------------------------------

(* The fields that are a filter or a set of chosen headers. *)
ListFields == {"transports", "ports", "reply_headers", "reply_trailers"}
NullOrRight(v) == v = Null \/ v.shape = "right"

(* ClosedCanHappen, ChosenReachesAWriter and StoredHasAReader for one *)
(* provider p and its stored scenario s.                              *)
Closes(p, s) ==
  s.mode = "port_closed" =>
    /\ Targeted(p, s) # {}
    /\ \A ep \in Targeted(p, s) : ep.port \in Gated
    /\ \A f \in _NEEDS_A_REQUEST : s[f] = Default[f]

Writes(p, s) ==
  /\ s.pause_at # "none" /\ s.ports.shape # "null" =>
       \E ep \in Endpoints[p] : ep.transport = "http" /\ ep.port \in s.ports.items
  /\ \A f \in {"reply_headers", "reply_trailers"} : s[f].items # {} =>
       \E ep \in Targeted(p, s) : ep.transport \in Writers(f)

Reads(p, s) ==
  /\ s.corruption_mode = "invalid_json" => Interfaces(p) # {"grpc"}
  /\ s.corruption_mode = "invalid_proto" => "grpc" \in Interfaces(p)
  /\ (\E f \in _GRAPHQL_ONLY_FIELDS : s[f] # Default[f]) => "graphql" \in Interfaces(p)
  /\ s.responses = "body" => Interfaces(p) \cap {"jsonrpc", "graphql", "tendermintrpc"} # {}
                                      \/ "grpc" \notin Interfaces(p)

(* What makes them inductive: a stored filter is null or a list, never  *)
(* another value that Python iterates, and a stored ports filter is not *)
(* empty.                                                               *)
Listed(s) ==
  /\ DOMAIN s = Fields
  /\ \A f \in ListFields : NullOrRight(s[f])
  /\ s.ports = Null \/ s.ports.items # {}

(* A stored scenario that can happen. *)
Fits(p, s) == Listed(s) /\ Closes(p, s) /\ Writes(p, s) /\ Reads(p, s)

(* An update names known fields, and gives a filter one of the shapes. *)
GoodUpdate(u) == DOMAIN u \subseteq Fields /\ \A f \in DOMAIN u : f \in ListFields => u[f] = Null \/ u[f].shape \in Shapes

(* Every block a POST may hold. *)
Every == UNION {{[f \in d |-> c[f][2]] : c \in Chosen(d)} : d \in SUBSET menu.given}
BlockSet == {Block(k, u) : k \in Providers \cup {Stranger}, u \in Every}

(* The fields of every block are good ones. *)
LEMMA GoodEvery ==
  ASSUME menu \in Menus, NEW u \in Every
  PROVE  GoodUpdate(u)
<1>1. PICK d \in SUBSET menu.given : \E c \in Chosen(d) : u = [f \in d |-> c[f][2]]
  BY DEF Every
<1>2. PICK c \in Chosen(d) : u = [f \in d |-> c[f][2]]
  BY <1>1
<1>3. DOMAIN u = d /\ d \subseteq Fields
  BY <1>2, ScenarioAssumption
<1>4. ASSUME NEW f \in d PROVE u[f] \in Values(f)
  <2>1. PICK g \in d : c[f] \in Named(g)
    BY SMTT(60), <1>2, <1>4 DEF Chosen
  <2>2. c[f][1] = f
    BY <1>2, <1>4 DEF Chosen
  <2>3. PICK v \in Values(g) : c[f] = <<g, v>>
    BY <2>1 DEF Named
  <2> QED
    BY SMTT(60), <1>2, <1>4, <2>2, <2>3
<1>5. ASSUME NEW f \in ListFields, NEW v \in Values(f) PROVE v = Null \/ v.shape \in Shapes
  <2>1. \E items : v \in Lists(items)
    BY <1>5 DEF Values, ListFields
  <2> QED
    BY SMTT(60), <2>1 DEF Lists
<1> QED
  BY <1>3, <1>4, <1>5 DEF GoodUpdate

(* The defaults of ScenarioConfig can happen at every provider. *)
LEMMA DefaultFits == ASSUME NEW p PROVE Fits(p, Default)
<1>1. Listed(Default)
  BY SMTT(60) DEF Listed, Default, Fields, ListFields, NullOrRight
<1> QED
  BY SMTT(60), <1>1 DEF Fits, Closes, Writes, Reads, Default, Null, _GRAPHQL_ONLY_FIELDS

(* A block that draws 200 passed every rule. *)
LEMMA AcceptedBlock ==
  ASSUME NEW p, NEW s, NEW u, BlockAnswer(p, s, u) = 200
  PROVE  /\ ~Refused(p, s, u) /\ _validate(u) /\ ~Raises(u)
         /\ _a_port_closed_that_cannot_happen(p, Effective(s, u)) = 200
  BY SMTT(60) DEF BlockAnswer

(* The heart of the proof: IntrospectiveConfig.update of a scenario that *)
(* can happen, with a block that the rules accept, can happen. A rule    *)
(* that reads only the fields of the POST would not carry this step. It  *)
(* needs the hypothesis on the shapes, since an object where a list is   *)
(* expected passes the rules (README, section 7).                        *)
LEMMA UpdateFits ==
  ASSUME "iterable" \notin Shapes, NEW p, NEW s, Fits(p, s), NEW u, GoodUpdate(u), BlockAnswer(p, s, u) = 200
  PROVE  Fits(p, update(s, u))
<1> DEFINE e == update(s, u)
<1>1. /\ DOMAIN e = Fields
      /\ \A f \in Fields : e[f] = IF f \in DOMAIN u THEN u[f] ELSE s[f]
  BY DEF update
<1>2. ~Refused(p, s, u) /\ _validate(u) /\ ~Raises(u) /\ _a_port_closed_that_cannot_happen(p, e) = 200
  BY AcceptedBlock DEF Effective
<1>s. \A z \in Shapes : z \in {"right", "number"}
  BY ScenarioAssumption
<1>f. ListFields \subseteq Fields /\ _GRAPHQL_ONLY_FIELDS \subseteq Fields
      /\ {"mode", "pause_at", "corruption_mode", "responses"} \subseteq Fields
  BY DEF ListFields, _GRAPHQL_ONLY_FIELDS, Fields, Default
<1> HIDE DEF e
<1>3. Listed(e)
  <2>1. ASSUME NEW f \in ListFields, f \in DOMAIN u PROVE NullOrRight(u[f])
    <3>1. u[f] = Null \/ u[f].shape \in {"right", "number"}
      <4>1. u[f] = Null \/ u[f].shape \in Shapes
        BY SMTT(60), <2>1 DEF GoodUpdate
      <4> QED
        BY SMTT(60), <1>s, <4>1
    <3>2. u[f].shape # "number"
      BY SMTT(60), <1>2, <2>1, <3>1 DEF ListFields, _validate, _validate_ports, _validate_chosen, Raises, Null
    <3> QED
      BY <3>1, <3>2 DEF NullOrRight
  <2>2. ASSUME NEW f \in ListFields PROVE NullOrRight(e[f])
    BY SMTT(60), <1>1, <1>f, <2>1 DEF Fits, Listed
  <2>3. e.ports = Null \/ e.ports.items # {}
    <3>1. CASE "ports" \in DOMAIN u
      BY <1>1, <1>2, <1>f, <2>1, <3>1 DEF _validate, _validate_ports, ListFields, NullOrRight
    <3>2. CASE "ports" \notin DOMAIN u
      BY SMTT(60), <1>1, <1>f, <3>2 DEF Fits, Listed, ListFields
    <3> QED
      BY <3>1, <3>2
  <2> QED
    BY <1>1, <2>2, <2>3 DEF Listed
<1>4. ~_a_filter_scenario_config_refuses(e)
  BY SMTT(60), <1>3 DEF Listed, ListFields, NullOrRight, Null, _a_filter_scenario_config_refuses, IsList
<1>5. Closes(p, e)
  BY SMTT(60), <1>2, <1>4 DEF _a_port_closed_that_cannot_happen, Closes
<1>6. Writes(p, e)
  <2>1. ~_a_pause_no_named_port_can_serve(p, e)
        /\ \A f \in {"reply_headers", "reply_trailers"} : ~_chosen_metadata_no_endpoint_can_send(p, e, f)
    BY <1>2 DEF Refused, Effective, e
  <2>2. e.ports.shape # "null" => e.ports.shape = "right" /\ e.ports.items # {}
    BY SMTT(60), <1>3 DEF Listed, ListFields, NullOrRight, Null
  <2>3. \A f \in {"reply_headers", "reply_trailers"} : e[f].items # {} => e[f].shape = "right"
    BY SMTT(60), <1>3 DEF Listed, ListFields, NullOrRight, Null
  <2> QED
    BY <1>4, <2>1, <2>2, <2>3 DEF Writes, _a_pause_no_named_port_can_serve, _chosen_metadata_no_endpoint_can_send
<1>7. Reads(p, e)
  <2>1. Reads(p, s)
    BY DEF Fits
  <2>2. /\ e.corruption_mode = "invalid_json" => Interfaces(p) # {"grpc"}
        /\ e.corruption_mode = "invalid_proto" => "grpc" \in Interfaces(p)
    BY <1>1, <1>2, <1>f, <2>1 DEF Reads, Refused, Asks, _an_invalid_json_no_endpoint_can_apply,
       _an_invalid_proto_no_endpoint_can_apply
  <2>3. (\E f \in _GRAPHQL_ONLY_FIELDS : e[f] # Default[f]) => "graphql" \in Interfaces(p)
    BY SMTT(60), <1>1, <1>2, <1>f, <2>1 DEF Reads, Refused, _a_graphql_field_no_endpoint_can_apply
  <2>4. e.responses = "body" => Interfaces(p) \cap {"jsonrpc", "graphql", "tendermintrpc"} # {}
                                      \/ "grpc" \notin Interfaces(p)
    BY SMTT(60), <1>1, <1>2, <1>f, <2>1 DEF Reads, Refused, Asks, _a_canned_body_no_endpoint_can_serve
  <2> QED
    BY <2>2, <2>3, <2>4 DEF Reads
<1> QED
  BY <1>3, <1>5, <1>6, <1>7 DEF Fits, e

(* IntrospectiveConfig.reset leaves a scenario that can happen. *)
LEMMA SweptFits ==
  ASSUME NEW p, NEW s PROVE Fits(p, ScenarioReset(s))
<1> DEFINE e == ScenarioReset(s)
<1>1. DOMAIN e = Fields /\ \A f \in Fields \ {"logs_lag_mode"} : e[f] = Default[f]
  BY DEF ScenarioReset, QuirkFields
<1>2. {"mode", "pause_at", "ports", "reply_headers", "reply_trailers", "corruption_mode", "responses", "transports",
       "rate_limit_style", "error_body", "unreadable_reply"} \subseteq Fields \ {"logs_lag_mode"}
  BY DEF Fields, Default
<1> HIDE DEF e
<1>3. /\ e.mode = "success" /\ e.pause_at = "none" /\ e.ports = Null /\ e.reply_headers = Null
      /\ e.reply_trailers = Null /\ e.corruption_mode = "none" /\ e.responses = "none" /\ e.transports = Null
  BY <1>1, <1>2 DEF Default
<1> QED
  BY SMTT(60), <1>1, <1>2, <1>3
     DEF e, Fits, Listed, ListFields, NullOrRight, Closes, Writes, Reads, Null, _GRAPHQL_ONLY_FIELDS

(* The blocks of a POST have keys of their own. *)
Distinct(blocks) == \A i, j \in DOMAIN blocks : i # j => blocks[i].key # blocks[j].key
Apart(blocks, others) == \A i \in DOMAIN blocks, j \in DOMAIN others : blocks[i].key # others[j].key

(* A block that was checked against the scenario the POST found; one that *)
(* is still to be written; one that is written.                           *)
Passed(b) == b.key \in Providers /\ BlockAnswer(b.key, post.before[b.key], b.fields) = 200
Kept(b) == stored[b.key] = post.before[b.key]
Written(b) == stored[b.key] = update(post.before[b.key], b.fields)
(* The blocks written so far. *)
Offset == Len(post.staged) - Len(post.todo)

(* The type of the POST that holds port_lock. *)
PostTypes ==
  /\ menu \in Menus
  /\ DOMAIN stored = Providers /\ counted \subseteq Providers /\ old \subseteq Providers
  /\ DOMAIN post = {"pc", "todo", "staged", "answer", "before"}
  /\ post.pc \in {"idle", "checking", "writing", "answered"} /\ post.answer \in {0, 200, 400, 409, 500}
  /\ post.todo \in Seq(BlockSet) /\ post.staged \in Seq(BlockSet)

(* While the first loop runs nothing is stored, so each staged block was *)
(* checked against the scenario the POST found.                          *)
Checking ==
  post.pc = "checking" =>
    /\ stored = post.before
    /\ Distinct(post.staged) /\ Distinct(post.todo) /\ Apart(post.staged, post.todo)
    /\ \A i \in DOMAIN post.staged : Passed(post.staged[i])

(* While the second loop runs, the staged blocks before the offset are *)
(* written and the others are not.                                     *)
Writing ==
  post.pc = "writing" =>
    /\ Offset \in Nat /\ \A j \in DOMAIN post.todo : post.todo[j] = post.staged[Offset + j]
    /\ Distinct(post.staged) /\ \A i \in DOMAIN post.staged : Passed(post.staged[i])
    /\ \A i \in DOMAIN post.staged : IF i <= Offset THEN Written(post.staged[i]) ELSE Kept(post.staged[i])

(* An answered POST wrote all its blocks, or nothing. *)
Answered ==
  post.pc = "answered" =>
    IF post.answer \in {200, 500} THEN \A i \in DOMAIN post.staged : Written(post.staged[i])
                                  ELSE stored = post.before

(* Every stored scenario can happen. *)
AllFit == \A p \in Providers : Fits(p, stored[p])

ScenarioInv == PostTypes /\ Checking /\ Writing /\ Answered

(* What is known of a block. *)
LEMMA BlockFacts ==
  ASSUME menu \in Menus, NEW b \in BlockSet
  PROVE  DOMAIN b = {"key", "fields"} /\ b.key \in Providers \cup {Stranger} /\ GoodUpdate(b.fields)
<1>1. PICK k \in Providers \cup {Stranger}, u \in Every : b = Block(k, u)
  BY SMTT(60) DEF BlockSet
<1>2. GoodUpdate(u)
  BY GoodEvery
<1> QED
  BY <1>1, <1>2 DEF Block

(* The answers of the checks. *)
LEMMA AnswerFacts ==
  ASSUME NEW p, NEW s, NEW u
  PROVE  BlockAnswer(p, s, u) \in {0, 200, 400, 409} /\ FieldAnswers(p, u) \subseteq {0, 400}
<1>1. _a_port_closed_that_cannot_happen(p, Effective(s, u)) \in {200, 400, 409}
  BY SMTT(60) DEF _a_port_closed_that_cannot_happen
<1>2. \A f, v : FieldAnswer(p, f, v) \in {0, 200, 400}
  BY SMTT(60) DEF FieldAnswer
<1> QED
  BY SMTT(60), <1>1, <1>2 DEF BlockAnswer, FieldAnswers

(* The registry starts with no POST. *)
LEMMA ScenarioInit == Init => ScenarioInv
<1> SUFFICES ASSUME Init PROVE ScenarioInv
  OBVIOUS
<1>2. post = Idle /\ menu \in Menus /\ stored = [p \in Providers |-> Default] /\ counted = {} /\ old = {}
  BY DEF Init
<1>3. PostTypes
  BY SMTT(60), <1>2 DEF PostTypes, Idle
<1> QED
  BY <1>2, <1>3 DEF ScenarioInv, Checking, Writing, Answered, Idle

(* The blocks of a behaviour do not change. *)
LEMMA BlockSetSame == UNCHANGED menu => BlockSet' = BlockSet
<1> SUFFICES ASSUME UNCHANGED menu PROVE BlockSet' = BlockSet
  OBVIOUS
<1>1. \A d : Chosen(d)' = Chosen(d)
  BY SMTT(60) DEF Chosen, Named, Values, Lists, PortsOf
<1> QED
  BY SMTT(60), <1>1 DEF BlockSet, Every, Block

(* A bound on the number of fields takes blocks away only. *)
LEMMA UpdatesInEvery == \A n : Updates(n) \subseteq Every
  BY SMTT(60) DEF Updates, Every

(* A POST arrives with blocks of distinct keys. *)
LEMMA ArriveKeeps == ScenarioInv /\ Arrive => ScenarioInv'
<1> SUFFICES ASSUME ScenarioInv, Arrive PROVE ScenarioInv'
  OBVIOUS
<1>0. UNCHANGED <<stored, counted, old, menu>>
  BY DEF Arrive
<1>1. PICK blocks \in Seq(BlockSet) : post' = Begun(blocks) /\ Distinct(blocks)
  <2>1. PICK p \in menu.providers, u \in Updates(menu.keys) :
       \/ post' = Begun(<<Block(p, u)>>)
       \/ \E k \in (menu.providers \cup {Stranger}) \ {p}, w \in Updates(menu.keys - Cardinality(DOMAIN u)) :
            post' = Begun(<<Block(p, u), Block(k, w)>>)
    BY DEF Arrive
  <2>2. menu.providers \subseteq Providers
    BY SMTT(60), ScenarioAssumption DEF ScenarioInv, PostTypes
  <2>3. Block(p, u) \in BlockSet /\ Block(p, u).key = p
    BY SMTT(60), <2>1, <2>2, UpdatesInEvery DEF BlockSet, Block
  <2>4. CASE post' = Begun(<<Block(p, u)>>)
    <3>1. <<Block(p, u)>> \in Seq(BlockSet) /\ Distinct(<<Block(p, u)>>)
      BY SMTT(60), <2>3 DEF Distinct
    <3> QED
      BY <2>4, <3>1
  <2>5. ASSUME NEW k \in (menu.providers \cup {Stranger}) \ {p}, NEW w \in Updates(menu.keys - Cardinality(DOMAIN u)),
               post' = Begun(<<Block(p, u), Block(k, w)>>)
        PROVE  \E blocks \in Seq(BlockSet) : post' = Begun(blocks) /\ Distinct(blocks)
    <3>1. Block(k, w) \in BlockSet /\ Block(k, w).key = k
      BY SMTT(60), <2>2, UpdatesInEvery DEF BlockSet, Block
    <3>2. <<Block(p, u), Block(k, w)>> \in Seq(BlockSet)
      BY SMTT(60), <2>3, <3>1
    <3>3. Distinct(<<Block(p, u), Block(k, w)>>)
      BY SMTT(60), <2>3, <2>5, <3>1 DEF Distinct
    <3> QED
      BY <2>5, <3>2, <3>3
  <2> QED
    BY <2>1, <2>4, <2>5
<1>2. /\ post'.pc = "checking" /\ post'.todo = blocks /\ post'.staged = <<>> /\ post'.answer = 200
      /\ post'.before = stored /\ DOMAIN post' = {"pc", "todo", "staged", "answer", "before"}
  BY <1>1 DEF Begun, Idle
<1>3. PostTypes'
  BY SMTT(60), <1>0, <1>2, BlockSetSame DEF ScenarioInv, PostTypes
<1>4. Checking'
  BY SMTT(60), <1>0, <1>1, <1>2 DEF Checking, Distinct, Apart
<1> QED
  BY <1>0, <1>2, <1>3, <1>4 DEF ScenarioInv, Writing, Answered

(* The first block moves from todo to staged and the keys stay apart. *)
LEMMA Moved ==
  ASSUME NEW S, NEW a \in Seq(S), NEW t \in Seq(S), t # <<>>, Distinct(a), Distinct(t), Apart(a, t)
  PROVE  Distinct(Append(a, Head(t))) /\ Distinct(Tail(t)) /\ Apart(Append(a, Head(t)), Tail(t))
<1>1. /\ Len(a) \in Nat /\ DOMAIN a = 1..Len(a) /\ Len(t) \in Nat /\ Len(t) >= 1 /\ DOMAIN t = 1..Len(t)
      /\ Head(t) = t[1] /\ Head(t) \in S
  BY SMTT(60)
<1>2. /\ DOMAIN Append(a, Head(t)) = 1..(Len(a) + 1) /\ Append(a, Head(t))[Len(a) + 1] = t[1]
      /\ \A i \in 1..Len(a) : Append(a, Head(t))[i] = a[i]
  BY SMTT(60), <1>1
<1>3. /\ DOMAIN Tail(t) = 1..(Len(t) - 1) /\ \A j \in 1..(Len(t) - 1) : Tail(t)[j] = t[j + 1]
  BY SMTT(60), <1>1
<1> DEFINE a2 == Append(a, Head(t))
           t2 == Tail(t)
<1>4. \A j \in DOMAIN t2 : j + 1 \in DOMAIN t /\ j + 1 # 1 /\ t2[j] = t[j + 1]
  BY SMTT(60), <1>1, <1>3
<1>5. \A i \in DOMAIN a2 : (i \in DOMAIN a /\ a2[i] = a[i]) \/ (i = Len(a) + 1 /\ a2[i] = t[1])
  BY SMTT(60), <1>1, <1>2
<1>6. 1 \in DOMAIN t
  BY SMTT(60), <1>1
<1> HIDE DEF a2, t2
<1>7. Distinct(t2)
  <2> SUFFICES ASSUME NEW i \in DOMAIN t2, NEW j \in DOMAIN t2, i # j PROVE t2[i].key # t2[j].key
    BY DEF Distinct
  <2>1. i + 1 # j + 1
    BY SMTT(60), <1>1, <1>3 DEF t2
  <2> QED
    BY <1>4, <2>1 DEF Distinct
<1>8. Distinct(a2)
  BY <1>5, <1>6 DEF Distinct, Apart
<1>9. Apart(a2, t2)
  BY SMTT(60), <1>4, <1>5, <1>6 DEF Distinct, Apart
<1> QED
  BY <1>7, <1>8, <1>9 DEF a2, t2

(* A POST that is refused has stored nothing. *)
LEMMA AnswerKeeps ==
  ASSUME ScenarioInv, NEW n \in {0, 400, 409}, post.pc = "checking", Answer(n), UNCHANGED <<stored, counted, old, menu>>
  PROVE  ScenarioInv'
<1>1. /\ post'.pc = "answered" /\ post'.todo = <<>> /\ post'.staged = post.staged /\ post'.answer = n
      /\ post'.before = post.before /\ DOMAIN post' = {"pc", "todo", "staged", "answer", "before"}
  BY SMTT(60) DEF Answer, ScenarioInv, PostTypes
<1>2. PostTypes'
  BY SMTT(60), <1>1, BlockSetSame DEF ScenarioInv, PostTypes
<1> QED
  BY SMTT(60), <1>1, <1>2 DEF ScenarioInv, Checking, Writing, Answered

(* The first loop stages a block that passed. *)
LEMMA StageKeeps ==
  ASSUME ScenarioInv, post.pc = "checking", post.todo # <<>>, UNCHANGED <<stored, counted, old, menu>>,
         Head(post.todo).key # Stranger, Stage(Head(post.todo).key, Head(post.todo).fields),
         BlockAnswer(Head(post.todo).key, stored[Head(post.todo).key], Head(post.todo).fields) = 200
  PROVE  ScenarioInv'
<1> DEFINE b == Head(post.todo)
<1>0. post.todo \in Seq(BlockSet) /\ post.staged \in Seq(BlockSet) /\ menu \in Menus
  BY DEF ScenarioInv, PostTypes
<1>1. b \in BlockSet /\ b = post.todo[1]
  BY SMTT(60), <1>0
<1>2. b = Block(b.key, b.fields) /\ b.key \in Providers
  BY SMTT(60), <1>0, <1>1, BlockFacts DEF BlockSet, Block
<1> HIDE DEF b
<1>3. /\ post'.pc = "checking" /\ post'.todo = Tail(post.todo) /\ post'.staged = Append(post.staged, b)
      /\ post'.answer = post.answer /\ post'.before = post.before
      /\ DOMAIN post' = {"pc", "todo", "staged", "answer", "before"}
  BY <1>2 DEF Stage, ScenarioInv, PostTypes, b
<1>4. post'.todo \in Seq(BlockSet) /\ post'.staged \in Seq(BlockSet)
  BY SMTT(60), <1>0, <1>1, <1>3
<1>5. PostTypes'
  BY SMTT(60), <1>3, <1>4, BlockSetSame DEF ScenarioInv, PostTypes
<1>6. Checking'
  <2>1. /\ stored = post.before /\ Distinct(post.staged) /\ Distinct(post.todo) /\ Apart(post.staged, post.todo)
        /\ \A i \in DOMAIN post.staged : Passed(post.staged[i])
    BY DEF ScenarioInv, Checking
  <2>2. Distinct(post'.staged) /\ Distinct(post'.todo) /\ Apart(post'.staged, post'.todo)
    BY SMTT(60), <1>0, <1>3, <2>1, Moved DEF b
  <2>3. Passed(b)
    BY <1>2, <2>1 DEF Passed, b
  <2>4. \A i \in DOMAIN post'.staged : (i \in DOMAIN post.staged /\ post'.staged[i] = post.staged[i]) \/ post'.staged[i] = b
    BY SMTT(60), <1>0, <1>1, <1>3
  <2>5. \A i \in DOMAIN post'.staged : Passed(post'.staged[i])
    BY SMTT(60), <2>1, <2>3, <2>4
  <2>6. (\A i \in DOMAIN post.staged : Passed(post.staged[i]))'
    BY SMTT(60), <1>3, <2>5 DEF Passed
  <2> QED
    BY <1>3, <2>1, <2>2, <2>6 DEF Checking, Distinct, Apart
<1> QED
  BY <1>3, <1>5, <1>6 DEF ScenarioInv, Writing, Answered

(* One turn of the first loop keeps the invariant. *)
LEMMA CheckBlockKeeps == ScenarioInv /\ CheckBlock => ScenarioInv'
<1> SUFFICES ASSUME ScenarioInv, CheckBlock PROVE ScenarioInv'
  OBVIOUS
<1> DEFINE p == Head(post.todo).key
           u == Head(post.todo).fields
<1>1. post.pc = "checking" /\ post.todo # <<>> /\ UNCHANGED <<stored, counted, old, menu>>
  BY DEF CheckBlock
<1>2. CASE \E n \in {0, 400, 409} : Answer(n)
  BY SMTT(60), <1>1, <1>2, AnswerKeeps
<1>3. CASE p # Stranger /\ BlockAnswer(p, stored[p], u) = 200 /\ Stage(p, u)
  BY <1>1, <1>3, StageKeeps
<1>4. FieldAnswers(p, u) \subseteq {0, 400} /\ BlockAnswer(p, stored[p], u) \in {0, 200, 400, 409}
  BY SMTT(60), AnswerFacts
<1>5. (\E n \in {0, 400, 409} : Answer(n)) \/ (p # Stranger /\ BlockAnswer(p, stored[p], u) = 200 /\ Stage(p, u))
  BY SMTT(60), <1>4 DEF CheckBlock
<1> QED
  BY <1>2, <1>3, <1>5

(* The second loop starts with nothing written. *)
LEMMA StartWritingKeeps == ScenarioInv /\ StartWriting => ScenarioInv'
<1> SUFFICES ASSUME ScenarioInv, StartWriting PROVE ScenarioInv'
  OBVIOUS
<1>1. /\ post.pc = "checking" /\ post.todo = <<>> /\ UNCHANGED <<stored, counted, old, menu>>
      /\ post'.pc = "writing" /\ post'.todo = post.staged /\ post'.staged = post.staged /\ post'.answer = post.answer
      /\ post'.before = post.before /\ DOMAIN post' = {"pc", "todo", "staged", "answer", "before"}
  BY DEF StartWriting, ScenarioInv, PostTypes
<1>2. PostTypes'
  BY SMTT(60), <1>1, BlockSetSame DEF ScenarioInv, PostTypes
<1>3. Len(post.staged) \in Nat /\ DOMAIN post.staged = 1..Len(post.staged)
  BY SMTT(60) DEF ScenarioInv, PostTypes
<1>4. Offset' = 0
  BY SMTT(60), <1>1, <1>3 DEF Offset
<1>5. Writing'
  BY SMTT(60), <1>1, <1>3, <1>4 DEF ScenarioInv, Checking, Writing, Passed, Kept, Distinct
<1> QED
  BY <1>1, <1>2, <1>5 DEF ScenarioInv, Checking, Answered

(* One block less to do is one more written. *)
LEMMA OneMore ==
  \A m, k \in Nat : k >= 1 /\ m - k \in Nat => (m - k) + 1 \in 1..m /\ m - (k - 1) = (m - k) + 1
  BY SMTT(60)

(* The block the second loop writes passed the checks, and its provider *)
(* still has the scenario the POST found: neither a reset nor the sweep *)
(* gets port_lock.                                                      *)
LEMMA WriteFacts ==
  ASSUME ScenarioInv, WriteBlock
  PROVE  /\ Offset \in Nat /\ Offset + 1 \in DOMAIN post.staged /\ Offset' = Offset + 1
         /\ Head(post.todo) = post.staged[Offset + 1] /\ Passed(Head(post.todo)) /\ Head(post.todo) \in BlockSet
         /\ stored' = [stored EXCEPT ![Head(post.todo).key] = update(post.before[Head(post.todo).key], Head(post.todo).fields)]
         /\ stored[Head(post.todo).key] = post.before[Head(post.todo).key]
<1>1. post.pc = "writing" /\ post.todo # <<>> /\ post.todo \in Seq(BlockSet) /\ post.staged \in Seq(BlockSet)
  BY DEF WriteBlock, ScenarioInv, PostTypes
<1>2. /\ Head(post.todo) = post.todo[1] /\ 1 \in DOMAIN post.todo /\ Head(post.todo) \in BlockSet
      /\ Len(post.todo) >= 1 /\ Len(post.todo) \in Nat /\ Len(post.staged) \in Nat
      /\ DOMAIN post.staged = 1..Len(post.staged) /\ Len(Tail(post.todo)) = Len(post.todo) - 1
  BY SMTT(60), <1>1
<1>3. Offset \in Nat /\ Head(post.todo) = post.staged[Offset + 1]
  <2>1. Offset \in Nat /\ \A j \in DOMAIN post.todo : post.todo[j] = post.staged[Offset + j]
    BY <1>1 DEF ScenarioInv, Writing
  <2> QED
    BY <1>2, <2>1
<1>4. post'.todo = Tail(post.todo) /\ post'.staged = post.staged
  BY DEF WriteBlock, ScenarioInv, PostTypes
<1>5. Offset + 1 \in DOMAIN post.staged /\ Offset' = Offset + 1
  <2>2. Offset = Len(post.staged) - Len(post.todo) /\ Offset' = Len(post.staged) - (Len(post.todo) - 1)
    BY <1>2, <1>4 DEF Offset
  <2> QED
    BY <1>2, <1>3, <2>2, OneMore
<1>6. Passed(Head(post.todo)) /\ Kept(Head(post.todo))
  <2>1. ~(Offset + 1 <= Offset)
    BY SMTT(60), <1>3
  <2> QED
    BY <1>1, <1>3, <1>5, <2>1 DEF ScenarioInv, Writing
<1>7. stored' = [stored EXCEPT ![Head(post.todo).key] = update(stored[Head(post.todo).key], Head(post.todo).fields)]
  BY DEF WriteBlock
<1> QED
  BY <1>2, <1>3, <1>5, <1>6, <1>7 DEF Kept

(* One turn of the second loop keeps the invariant. *)
LEMMA WriteBlockKeeps == ScenarioInv /\ WriteBlock => ScenarioInv'
<1> SUFFICES ASSUME ScenarioInv, WriteBlock PROVE ScenarioInv'
  OBVIOUS
<1> DEFINE b == Head(post.todo)
<1>1. /\ post.pc = "writing" /\ post.todo # <<>> /\ UNCHANGED menu /\ post.todo \in Seq(BlockSet)
      /\ post'.pc = "writing" /\ post'.todo = Tail(post.todo) /\ post'.staged = post.staged
      /\ post'.answer = post.answer /\ post'.before = post.before
      /\ DOMAIN post' = {"pc", "todo", "staged", "answer", "before"}
  BY DEF WriteBlock, ScenarioInv, PostTypes
<1>2. counted' \subseteq counted /\ old' \subseteq old
  BY DEF WriteBlock
<1>3. /\ Offset \in Nat /\ Offset + 1 \in DOMAIN post.staged /\ Offset' = Offset + 1
      /\ b = post.staged[Offset + 1] /\ Passed(b)
      /\ stored' = [stored EXCEPT ![b.key] = update(post.before[b.key], b.fields)]
  BY WriteFacts
<1> HIDE DEF b
<1>4. DOMAIN stored = Providers /\ DOMAIN stored' = Providers /\ b.key \in Providers
  BY <1>3 DEF ScenarioInv, PostTypes, Passed
<1>5. PostTypes'
  BY SMTT(60), <1>1, <1>2, <1>4, BlockSetSame DEF ScenarioInv, PostTypes
<1>6. /\ Distinct(post.staged) /\ \A i \in DOMAIN post.staged : Passed(post.staged[i])
      /\ \A i \in DOMAIN post.staged : IF i <= Offset THEN Written(post.staged[i]) ELSE Kept(post.staged[i])
      /\ \A j \in DOMAIN post.todo : post.todo[j] = post.staged[Offset + j]
  BY <1>1 DEF ScenarioInv, Writing
<1>7. \A j \in DOMAIN post'.todo : post'.todo[j] = post'.staged[Offset' + j]
  <2>1. \A j \in DOMAIN Tail(post.todo) : j + 1 \in DOMAIN post.todo /\ Tail(post.todo)[j] = post.todo[j + 1]
    BY SMTT(60), <1>1
  <2>2. DOMAIN Tail(post.todo) \subseteq Nat
    BY SMTT(60), <1>1
  <2>3. \A j \in Nat : Offset + (j + 1) = (Offset + 1) + j
    BY SMTT(60), <1>3
  <2> QED
    <3> SUFFICES ASSUME NEW j \in DOMAIN Tail(post.todo) PROVE Tail(post.todo)[j] = post.staged[(Offset + 1) + j]
      BY <1>1, <1>3
    <3>1. Tail(post.todo)[j] = post.staged[Offset + (j + 1)]
      BY <1>6, <2>1
    <3> QED
      BY <3>1, <2>2, <2>3
<1>8. ASSUME NEW i \in DOMAIN post.staged
      PROVE  IF i <= Offset + 1 THEN Written(post.staged[i])' ELSE Kept(post.staged[i])'
  <2>1. DOMAIN post.staged \subseteq Nat
    BY SMTT(60) DEF ScenarioInv, PostTypes
  <2>2. CASE i = Offset + 1
    <3>1. post.staged[i] = b /\ i <= Offset + 1
      BY SMTT(60), <1>3, <2>2
    <3>2. stored'[b.key] = update(post.before[b.key], b.fields)
      BY <1>3, <1>4
    <3> QED
      BY <1>1, <3>1, <3>2 DEF Written, update
  <2>3. CASE i # Offset + 1
    <3>1. post.staged[i].key # b.key
      BY <1>3, <1>6, <2>3 DEF Distinct
    <3>2. stored'[post.staged[i].key] = stored[post.staged[i].key]
      BY <1>3, <1>4, <1>6, <3>1 DEF Passed
    <3>3. i <= Offset + 1 <=> i <= Offset
      BY SMTT(60), <1>3, <2>1, <2>3
    <3> QED
      BY <1>1, <1>6, <3>2, <3>3 DEF Written, Kept, update
  <2> QED
    BY <2>2, <2>3
<1>9. Writing'
  BY SMTT(60), <1>1, <1>3, <1>6, <1>7, <1>8 DEF Writing, Distinct, Passed
<1> QED
  BY <1>1, <1>5, <1>9 DEF ScenarioInv, Checking, Answered

(* The POST is answered when each block is written. *)
LEMMA SettleKeeps == ScenarioInv /\ Settle => ScenarioInv'
<1> SUFFICES ASSUME ScenarioInv, Settle PROVE ScenarioInv'
  OBVIOUS
<1>1. /\ post.pc = "writing" /\ post.todo = <<>> /\ UNCHANGED <<stored, counted, old, menu>>
      /\ post'.pc = "answered" /\ post'.todo = <<>> /\ post'.staged = post.staged /\ post'.answer \in {200, 500}
      /\ post'.before = post.before /\ DOMAIN post' = {"pc", "todo", "staged", "answer", "before"}
  <2>1. PICK n \in {200, 500} : Answer(n)
    BY SMTT(60) DEF Settle
  <2>2. DOMAIN post = {"pc", "todo", "staged", "answer", "before"}
    BY SMTT(60) DEF ScenarioInv, PostTypes
  <2> QED
    BY SMTT(60), <2>1, <2>2 DEF Settle, Answer
<1>2. PostTypes'
  BY SMTT(60), <1>1, BlockSetSame DEF ScenarioInv, PostTypes
<1>3. \A i \in DOMAIN post.staged : i <= Offset
  <2>1. post.staged \in Seq(BlockSet)
    BY DEF ScenarioInv, PostTypes
  <2>2. Offset = Len(post.staged)
    BY SMTT(60), <1>1, <2>1 DEF Offset
  <2> QED
    BY SMTT(60), <2>1, <2>2
<1>4. \A i \in DOMAIN post.staged : Written(post.staged[i])
  BY SMTT(60), <1>1, <1>3 DEF ScenarioInv, Writing
<1>5. (\A i \in DOMAIN post.staged : Written(post.staged[i]))'
  BY SMTT(60), <1>1, <1>4 DEF Written, update
<1> QED
  BY <1>1, <1>2, <1>5 DEF ScenarioInv, Checking, Writing, Answered

(* A reset, a sweep and the end of a POST leave no POST. *)
LEMMA IdleKeeps ==
  ASSUME ScenarioInv, post'.pc = "idle", DOMAIN stored' = Providers, counted' \subseteq Providers, old' \subseteq Providers,
         UNCHANGED menu, post' = Idle \/ UNCHANGED post
  PROVE  ScenarioInv'
<1>1. /\ DOMAIN post' = {"pc", "todo", "staged", "answer", "before"} /\ post'.answer \in {0, 200, 400, 409, 500}
      /\ post'.todo \in Seq(BlockSet) /\ post'.staged \in Seq(BlockSet)
  <2>1. CASE post' = Idle
    BY SMTT(60), <2>1 DEF Idle
  <2>2. CASE UNCHANGED post
    BY SMTT(60), <2>2 DEF ScenarioInv, PostTypes
  <2> QED
    BY <2>1, <2>2
<1>2. PostTypes'
  BY SMTT(60), <1>1, BlockSetSame DEF ScenarioInv, PostTypes
<1> QED
  BY <1>2 DEF ScenarioInv, Checking, Writing, Answered

(* A request and the time leave the POST and what is stored alone. *)
LEMMA OthersKeep ==
  ASSUME ScenarioInv, UNCHANGED <<stored, post, menu>>, counted' \subseteq Providers, old' \subseteq Providers
  PROVE  ScenarioInv'
<1>1. PostTypes'
  BY SMTT(60), BlockSetSame DEF ScenarioInv, PostTypes
<1>2. Offset' = Offset
  BY DEF Offset
<1>3. Checking'
  BY SMTT(60) DEF ScenarioInv, Checking, Passed, Distinct, Apart
<1>4. Writing'
  BY SMTT(60), <1>2 DEF ScenarioInv, Writing, Passed, Kept, Written, update, Distinct
<1>5. Answered'
  BY SMTT(60) DEF ScenarioInv, Answered, Written, update
<1> QED
  BY <1>1, <1>3, <1>4, <1>5 DEF ScenarioInv

(* Every step keeps the invariant. *)
LEMMA ScenarioKept == ScenarioInv /\ [Next]_vars => ScenarioInv'
<1> SUFFICES ASSUME ScenarioInv, [Next]_vars PROVE ScenarioInv'
  OBVIOUS
<1>0. DOMAIN stored = Providers /\ counted \subseteq Providers /\ old \subseteq Providers
  BY DEF ScenarioInv, PostTypes
<1>1. CASE Done
  BY <1>0, <1>1, IdleKeeps DEF Done, Idle
<1>2. CASE Reset
  BY <1>0, <1>2, IdleKeeps DEF Reset, LockFree
<1>3. CASE Sweep
  BY <1>0, <1>3, IdleKeeps DEF Sweep, LockFree
<1>4. ASSUME NEW p \in Providers, Request(p) PROVE ScenarioInv'
  BY <1>0, <1>4, OthersKeep DEF Request
<1>5. ASSUME NEW p \in Providers, Age(p) PROVE ScenarioInv'
  BY <1>0, <1>5, OthersKeep DEF Age
<1>6. CASE UNCHANGED vars
  BY <1>0, <1>6, OthersKeep DEF vars
<1> QED
  BY <1>1, <1>2, <1>3, <1>4, <1>5, <1>6, ArriveKeeps, CheckBlockKeeps, StartWritingKeeps, WriteBlockKeeps, SettleKeeps
     DEF Next

(* What the second loop stores can happen. *)
LEMMA WriteFits ==
  ASSUME "iterable" \notin Shapes, ScenarioInv, AllFit, WriteBlock
  PROVE  AllFit'
<1> DEFINE b == Head(post.todo)
<1>1. /\ Passed(b) /\ b \in BlockSet /\ stored' = [stored EXCEPT ![b.key] = update(post.before[b.key], b.fields)]
      /\ stored[b.key] = post.before[b.key]
  BY WriteFacts
<1> HIDE DEF b
<1>2. DOMAIN stored = Providers /\ menu \in Menus
  BY DEF ScenarioInv, PostTypes
<1>3. b.key \in Providers /\ BlockAnswer(b.key, stored[b.key], b.fields) = 200
  BY <1>1 DEF Passed
<1>4. GoodUpdate(b.fields)
  BY <1>1, <1>2, BlockFacts
<1>5. Fits(b.key, update(stored[b.key], b.fields))
  BY SMTT(60), <1>3, <1>4, UpdateFits DEF AllFit
<1>6. ASSUME NEW p \in Providers PROVE Fits(p, stored'[p])
  <2>1. CASE p = b.key
    BY <1>1, <1>2, <1>3, <1>5, <2>1
  <2>2. CASE p # b.key
    BY <1>1, <1>2, <2>2 DEF AllFit
  <2> QED
    BY <2>1, <2>2
<1> QED
  BY <1>6 DEF AllFit, Fits, Listed, Closes, Writes, Reads, Targeted

(* So every stored scenario can happen after every step. *)
LEMMA FitKept ==
  ASSUME "iterable" \notin Shapes, ScenarioInv, AllFit, [Next]_vars
  PROVE  AllFit'
<1>1. CASE UNCHANGED stored
  BY <1>1 DEF AllFit, Fits, Listed, Closes, Writes, Reads, Targeted
<1>2. ASSUME \A p \in Providers : Fits(p, stored'[p]) PROVE AllFit'
  BY <1>2 DEF AllFit, Fits, Listed, Closes, Writes, Reads, Targeted
<1>3. CASE Reset
  BY <1>2, <1>3, DefaultFits DEF Reset, AllFit
<1>4. CASE Sweep
  BY <1>2, <1>4, SweptFits DEF Sweep, AllFit
<1> QED
  BY <1>1, <1>3, <1>4, WriteFits
     DEF Next, vars, Arrive, CheckBlock, StartWriting, Settle, Done, Request, Age

(* When POST /scenario returns, each provider it named holds every field *)
(* it gave, and a POST that was refused or got no answer changed no      *)
(* provider (control_api.py, apply_scenario): for any providers,         *)
(* endpoints, rules and fields, with resets, sweeps and requests beside  *)
(* it.                                                                   *)
THEOREM AnswersKept == Spec => []AnsweredIsStored
<1>1. ScenarioInv => AnsweredIsStored
  <2> SUFFICES ASSUME ScenarioInv, post.pc = "answered", post.answer \in {200, 500}, NEW i \in DOMAIN post.staged,
                      NEW f \in DOMAIN post.staged[i].fields
               PROVE  stored[post.staged[i].key][f] = post.staged[i].fields[f]
    BY SMTT(60) DEF ScenarioInv, Answered, AnsweredIsStored
  <2>1. post.staged[i] \in BlockSet /\ menu \in Menus
    BY SMTT(60) DEF ScenarioInv, PostTypes
  <2>2. f \in Fields
    BY SMTT(60), <2>1, BlockFacts DEF GoodUpdate
  <2>3. Written(post.staged[i])
    BY SMTT(60) DEF ScenarioInv, Answered
  <2> QED
    BY SMTT(60), <2>2, <2>3 DEF Written, update
<1> QED
  BY <1>1, ScenarioInit, ScenarioKept, PTL DEF Spec

(* After any sequence of POSTs, resets and sweeps, a stored port_closed   *)
(* closes at least one port and each port it names has a listener; stored *)
(* pauses, headers and trailers reach an endpoint that performs them; a   *)
(* stored corruption or canned body has an interface that reads it. The   *)
(* hypothesis leaves out what the code does not refuse: an object where a *)
(* list is expected (README, section 7).                                  *)
THEOREM StoredScenarios == ASSUME "iterable" \notin Shapes PROVE Spec => []StoredCanHappen
<1>1. Init => ScenarioInv /\ AllFit
  BY ScenarioInit, DefaultFits DEF Init, AllFit
<1>2. ScenarioInv /\ AllFit /\ [Next]_vars => (ScenarioInv /\ AllFit)'
  BY ScenarioKept, FitKept
<1>3. ScenarioInv /\ AllFit => StoredCanHappen
  BY SMTT(60) DEF ScenarioInv, PostTypes, AllFit, Fits, Listed, Closes, Writes, Reads, TypeOK, ClosedCanHappen,
         ChosenReachesAWriter, StoredHasAReader, StoredCanHappen
<1> QED
  BY <1>1, <1>2, <1>3, PTL DEF Spec
=============================================================================
