-------------------------- MODULE GraphQLDocument ---------------------------
(***************************************************************************)
(* How a GraphQL request is read and how a reply is shaped                 *)
(* (provider_simulator/graphql_document.py): the checks of the body, the   *)
(* choice of the operation, the limits on depth and nodes, the root fields *)
(* and the projection of a stub.                                           *)
(*                                                                         *)
(* A document is a function from the names of its selection sets to what   *)
(* they select, in order; a fragment has one set, named as it is.  The     *)
(* parser of graphql-core is outside.  A value is left out: a projection   *)
(* is the set of its key paths, each with the path of names it shows.      *)
(***************************************************************************)
EXTENDS Naturals, Sequences, SequencesExt, FiniteSets

CONSTANTS Bodies,     \* the bodies a request may carry
          MAX_DEPTH,  \* the deepest nesting of selection sets accepted
          MAX_NODES   \* the most nodes accepted

LimitsAssumption == MAX_DEPTH \in Nat \ {0} /\ MAX_NODES \in Nat

VARIABLES body,    \* the request
          answer   \* what reading it gave

vars == <<body, answer>>

(* A selection: a field, an inline fragment or the spread of a fragment; the set below *)
(* it, or "none"; the conditions of its directives.                                    *)
Selection(kind, name, alias, sub, directives) ==
  [kind |-> kind, name |-> name, alias |-> alias, sub |-> sub, directives |-> directives]
Field(name, alias, sub, directives) == Selection("field", name, alias, sub, directives)
Inline(sub, directives) == Selection("inline", "none", "none", sub, directives)
Spread(name, directives) == Selection("spread", name, "none", name, directives)

Defined(sets, name) == name \in DOMAIN sets
Fault(kind, what) == [fault |-> kind, what |-> what]

-----------------------------------------------------------------------------
(* The limits.                                                             *)

(* Mutant of Remembered: a fragment that is spread again counts as nothing. *)
RememberedNothing(memo, name) == 0

(* What was measured of a fragment, used again at each later spread. *)
Remembered(memo, name) == memo[name]
Remember(memo, name, n) == [f \in DOMAIN memo \cup {name} |-> IF f = name THEN n ELSE memo[f]]

RECURSIVE _depth_of(_, _, _, _)
(* The depth below a selection set. A fragment is measured once; the first cycle or
   undefined fragment met in document order ends the measure. *)
_depth_of(sets, s, memo, stack) ==
  LET deeper(acc, d) == [acc EXCEPT !.deepest = IF d > @ THEN d ELSE @]
      measured(acc, name) ==
        LET r == _depth_of(sets, name, acc.memo, stack \cup {name})
        IN  [deeper(acc, r.depth) EXCEPT !.fault = r.fault, !.memo = Remember(r.memo, name, r.depth)]
      nested(acc, sub) ==
        LET r == _depth_of(sets, sub, acc.memo, stack)
        IN  [deeper(acc, r.depth) EXCEPT !.fault = r.fault, !.memo = r.memo]
      spread(acc, name) ==
        CASE name \in stack                                 -> [acc EXCEPT !.fault = "cycle"]
          [] name \notin stack /\ ~Defined(sets, name)      -> [acc EXCEPT !.fault = "undefined"]
          [] name \notin stack /\ name \in DOMAIN acc.memo  -> deeper(acc, Remembered(acc.memo, name))
          [] OTHER                                          -> measured(acc, name)
      step(acc, sel) ==
        CASE acc.fault # "none"                          -> acc
          [] acc.fault = "none" /\ sel.kind = "spread"   -> spread(acc, sel.name)
          [] acc.fault = "none" /\ sel.kind # "spread"   -> IF sel.sub = "none" THEN acc ELSE nested(acc, sel.sub)
      all == FoldLeft(step, [fault |-> "none", deepest |-> 0, memo |-> memo], sets[s])
  IN  [fault |-> all.fault, depth |-> 1 + all.deepest, memo |-> all.memo]

NoMemo == [f \in {} |-> 0]

RECURSIVE _nodes_of(_, _, _)
(* The nodes of a selection set, its fragments spread. A fragment is added up once. *)
_nodes_of(sets, s, memo) ==
  LET below(acc, sel) ==
        LET r == _nodes_of(sets, sel.sub, acc.memo)
        IN  [total |-> acc.total + 1 + r.total,
             memo |-> IF sel.kind = "spread" THEN Remember(r.memo, sel.name, r.total) ELSE r.memo]
      step(acc, sel) ==
        IF sel.sub = "none" THEN [acc EXCEPT !.total = @ + 1]
        ELSE IF sel.kind = "spread" /\ sel.name \in DOMAIN acc.memo
               THEN [acc EXCEPT !.total = @ + 1 + Remembered(acc.memo, sel.name)]
               ELSE below(acc, sel)
  IN  FoldLeft(step, [total |-> 0, memo |-> memo], sets[s])

_check_depth(sets, s) ==
  LET r == _depth_of(sets, s, NoMemo, {})
  IN  CASE r.fault = "undefined"                         -> Fault("validation", "unknown fragment")
        [] r.fault = "cycle"                             -> Fault("parse", "recursion")
        [] r.fault = "none" /\ r.depth > MAX_DEPTH       -> Fault("parse", "recursion")
        [] r.fault = "none" /\ r.depth <= MAX_DEPTH      -> Fault("none", "none")

_check_nodes(sets, s) ==
  IF _nodes_of(sets, s, NoMemo).total > MAX_NODES THEN Fault("validation", "nodes") ELSE Fault("none", "none")

-----------------------------------------------------------------------------
(* The root fields and the projection.                                     *)

_is_included(sel) ==
  \A d \in Range(sel.directives) :
    ~(d.name = "skip" /\ d.cond = "true") /\ ~(d.name = "include" /\ d.cond = "false")

KeyOf(sel) == IF sel.alias = "none" THEN sel.name ELSE sel.alias

RECURSIVE _roots_of(_, _)
(* In document order, fragments expanded in place. *)
_roots_of(sets, s) ==
  LET of(sel) == CASE ~_is_included(sel)                         -> <<>>
                   [] _is_included(sel) /\ sel.kind = "field"    -> <<[name |-> sel.name, key |-> KeyOf(sel)]>>
                   [] _is_included(sel) /\ sel.kind # "field"    -> _roots_of(sets, sel.sub)
  IN  FlattenSeq([i \in DOMAIN sets[s] |-> of(sets[s][i])])

(* A key path with the path of names it shows, below a field. *)
Under(sel, shown) ==
  {<<<<KeyOf(sel)>> \o e[1], <<sel.name>> \o e[2]>> : e \in shown} \cup {<<<<KeyOf(sel)>>, <<sel.name>>>>}

RECURSIVE _fill(_, _, _)
(* project and _fill over a stub of objects: a key that is set again is replaced. The roots
   of a reply (SuiChain.build_success) are set in the same way. *)
_fill(sets, s, shaped) ==
  LET project(sub) == IF sub = "none" THEN {} ELSE _fill(sets, sub, {})
      step(acc, sel) ==
        CASE ~_is_included(sel)                       -> acc
          [] _is_included(sel) /\ sel.kind = "field"  ->
               {e \in acc : e[1][1] # KeyOf(sel)} \cup Under(sel, project(sel.sub))
          [] _is_included(sel) /\ sel.kind # "field"  -> IF Defined(sets, sel.sub) THEN _fill(sets, sel.sub, acc) ELSE acc
  IN  FoldLeft(step, shaped, sets[s])

-----------------------------------------------------------------------------
(* The request.                                                            *)

(* The operations of a document are its definitions [name, set]. *)
_choose_operation(ops, operation_name) ==
  LET named == {i \in DOMAIN ops : ops[i].name = operation_name}
  IN  CASE ops = <<>> -> Fault("parse", "no operation")
        [] ops # <<>> /\ operation_name # "none" /\ named = {} -> Fault("operation", "unknown")
        [] ops # <<>> /\ operation_name # "none" /\ named # {} ->
             Fault("none", ops[CHOOSE i \in named : \A j \in named : i <= j].set)
        [] ops # <<>> /\ operation_name = "none" /\ Len(ops) > 1 -> Fault("operation", "name required")
        [] ops # <<>> /\ operation_name = "none" /\ Len(ops) = 1 -> Fault("none", ops[1].set)

(* variables.request_id: as sent, or its declared default when it was not sent. *)
RequestId(sent, default) ==
  LET value == IF sent = "absent" THEN default ELSE sent
  IN  IF value \in {"text", "number"} THEN value ELSE "none"

(* _read_object, _check_shape and the query: the first fault of the body. *)
ShapeFault(b) ==
  CASE b.json \in {"empty", "not json"}  -> Fault("not_json", "none")
    [] b.json = "array"                  -> Fault("batch", "none")
    [] b.json = "scalar"                 -> Fault("bad_shape", "none")
    [] b.json = "object" /\ "bad" \in {b.query, b.variables, b.operationName} -> Fault("bad_shape", "none")
    [] b.json = "object" /\ "bad" \notin {b.query, b.variables, b.operationName} /\ b.query \in {"absent", "empty", "syntax"} ->
         Fault("parse", "document")
    [] OTHER -> Fault("none", "none")

(* default_error_reply. *)
StatusOf(kind) == IF kind \in {"not_json", "batch", "bad_shape"} THEN 400 ELSE 200

Refuses(f) == [fault |-> f.fault, what |-> f.what, status |-> StatusOf(f.fault), roots |-> <<>>, shown |-> {}, request_id |-> "none"]

parse_graphql_request(b) ==
  LET shape == ShapeFault(b)
      op == _choose_operation(b.ops, b.operationName)
      depth == _check_depth(b.sets, op.what)
      nodes == _check_nodes(b.sets, op.what)
  IN  CASE shape.fault # "none"                        -> Refuses(shape)
        [] shape.fault = "none" /\ op.fault # "none"   -> Refuses(op)
        [] shape.fault = "none" /\ op.fault = "none" /\ depth.fault # "none" -> Refuses(depth)
        [] shape.fault = "none" /\ op.fault = "none" /\ depth.fault = "none" /\ nodes.fault # "none" -> Refuses(nodes)
        [] OTHER -> [fault |-> "none", what |-> op.what, status |-> 200,
                     roots |-> _roots_of(b.sets, op.what),
                     shown |-> _fill(b.sets, op.what, {}),
                     request_id |-> RequestId(b.sent, b.default)]

Unread == [fault |-> "unread", what |-> "none", status |-> 0, roots |-> <<>>, shown |-> {}, request_id |-> "none"]
Init == body \in Bodies /\ answer = Unread
Read == answer = Unread /\ answer' = parse_graphql_request(body) /\ UNCHANGED body
Next == Read
Spec == Init /\ [][Next]_vars

-----------------------------------------------------------------------------
(* The reference: the document written out, fragments in place.            *)

RECURSIVE Expand(_, _, _)
(* Each node, to n levels: its positions from the operation down, and the selections there. *)
Expand(sets, s, n) ==
  IF n = 0 \/ s = "none" \/ ~Defined(sets, s) THEN {}
  ELSE UNION {{[pos |-> <<i>>, sels |-> <<sets[s][i]>>]}
                \cup {[pos |-> <<i>> \o e.pos, sels |-> <<sets[s][i]>> \o e.sels] : e \in Expand(sets, sets[s][i].sub, n - 1)} :
              i \in DOMAIN sets[s]}

Chosen(b) == _choose_operation(b.ops, b.operationName)
Readable(b) == ShapeFault(b).fault = "none" /\ Chosen(b).fault = "none"
Nodes(b) == Expand(b.sets, Chosen(b).what, MAX_DEPTH + 1)
TooDeep(b) == \E e \in Nodes(b) : Len(e.pos) > MAX_DEPTH
Dangling(b) == \E e \in Nodes(b) : Last(e.sels).kind = "spread" /\ ~Defined(b.sets, Last(e.sels).name)
TooLarge(b) == Cardinality(Nodes(b)) > MAX_NODES

Included(sel) ==
  \A d \in Range(sel.directives) : <<d.name, d.cond>> \notin {<<"skip", "true">>, <<"include", "false">>}
AllIncluded(e) == \A i \in DOMAIN e.sels : Included(e.sels[i])
Before(p, q) ==
  \E i \in DOMAIN p : i \in DOMAIN q /\ p[i] < q[i] /\ \A j \in 1..(i - 1) : p[j] = q[j]
Label(sel) == IF sel.alias = "none" THEN sel.name ELSE sel.alias

(* A readable request is answered exactly when the written-out document stays within both *)
(* limits and has every fragment, and a refusal names a limit that it really passes:      *)
(* measuring each fragment once, with one memory and one stack, loses nothing.            *)
LimitsExact ==
  answer # Unread /\ Readable(body) =>
    CASE answer.what = "unknown fragment" -> Dangling(body)
      [] answer.what = "recursion"        -> TooDeep(body)
      [] answer.what = "nodes"            -> TooLarge(body) /\ ~TooDeep(body) /\ ~Dangling(body)
      [] OTHER                            -> ~TooLarge(body) /\ ~TooDeep(body) /\ ~Dangling(body)

(* The root fields, whose names are the method of the request, are the fields of the      *)
(* written-out document that no field encloses and no directive removes, in its order.    *)
RootsExact ==
  answer.fault = "none" =>
    LET roots == {e \in Nodes(body) : /\ AllIncluded(e) /\ Last(e.sels).kind = "field"
                                      /\ \A i \in 1..(Len(e.sels) - 1) : e.sels[i].kind # "field"}
        inOrder == SetToSortSeq(roots, LAMBDA e, f : Before(e.pos, f.pos))
    IN  answer.roots = [i \in DOMAIN inOrder |-> [name |-> Last(inOrder[i].sels).name, key |-> Label(Last(inOrder[i].sels))]]

(* The key paths that the request asks for, each with the names it stands for. *)
Requested(b) ==
  LET fields(e) == SelectSeq(e.sels, LAMBDA sel : sel.kind = "field")
  IN  {<<[i \in DOMAIN fields(e) |-> Label(fields(e)[i])], [i \in DOMAIN fields(e) |-> fields(e)[i].name]>> :
         e \in {f \in Nodes(b) : AllIncluded(f) /\ Last(f.sels).kind = "field"}}

(* A reply shows nothing that was not asked for, under no other key, and shows every root *)
(* key that was.                                                                          *)
OnlyRequested ==
  answer.fault = "none" =>
    /\ answer.shown \subseteq Requested(body)
    /\ \A e \in Requested(body) : Len(e[1]) = 1 => \E f \in answer.shown : f[1] = e[1]

(* Every requested key is in the reply (the docstring of project: "a requested key that   *)
(* the dict lacks gives None").                                                           *)
(* The code does not keep it: README, section 7.                                          *)
EveryRequestedShown ==
  answer.fault = "none" => \A e \in Requested(body) : \E f \in answer.shown : f[1] = e[1]
=============================================================================
