--------------------------- MODULE MCRequestFlow ----------------------------
(***************************************************************************)
(* Small instances of RequestFlow, for a provider with an http and a ws    *)
(* port.  Part "window": three well-formed requests and the posts that     *)
(* open windows.  Part "blocks": two requests of every wire form and the   *)
(* posts that use the rest of a block.  Beside it, what a request needs    *)
(* before that: part "registry" builds the registry, which leads a port to *)
(* its provider, from the shipped table with one row put in; "limits" and  *)
(* "roots" read GraphQL documents.  A behaviour is about one part; the     *)
(* variables of the others keep one value.                                 *)
(***************************************************************************)
EXTENDS RequestFlow, TLC

CONSTANTS r1, r2, r3, h, w, m,
          Extra, Places, BadNames,
          Parts     \* the parts under test

VARIABLES part,
          edit, at, pools, providers, byPort, outcome,   \* the registry
          body, answer                                   \* GraphQL

RequestSymmetry == Permutations(Requests)

HttpAndWs == (h :> "http") @@ (w :> "ws")
Over(cfg) == [k \in {m} |-> cfg]

(* Windows of one and two requests, over both ports and over one. *)
WindowPosts ==
  {[mode |-> "error", n |-> 1],
   [mode |-> "rate_limit", n |-> 2, then |-> "hang", ports |-> {h}],
   [mode |-> "down"]}

(* Blocks that use the filters, the overrides, the latency and the dice. *)
BlockPosts ==
  {[mode |-> "drop_connection", latency |-> 1, chosen |-> TRUE, transports |-> {"ws"}],
   [mode |-> "success", latency |-> 1, dice |-> TRUE, shape |-> TRUE, ports |-> {h}],
   [mode |-> "hang", latency |-> 1],
   [mode |-> "rate_limit", over |-> Over([mode |-> "down", latency |-> 2])],
   [mode |-> "success", over |-> Over([content |-> "error"]), ports |-> {w}],
   [mode |-> "port_closed", over |-> Over([canned |-> "success", latency |-> 1]), ports |-> {h}]}

AllPosts == WindowPosts \cup BlockPosts

(* The blocks that the posts of a part bring about, and its requests. *)
WindowsOnly ==
  /\ scenario.latency = 0 /\ scenario.over = DefaultBlock.over
  /\ \A r \in Requests : req[r].wire \in {"good", "none"}
NoWindows ==
  /\ scenario.n = 0 /\ scenario.mode # "down" /\ ctl.kind # "post"
  /\ Cardinality({r \in Requests : pc[r] # "new"}) <= 2

-----------------------------------------------------------------------------
(* The registry: the shipped table, and one row put in.                    *)

Shipped == INSTANCE Topology

GoodRow == Shipped!Row("eth-new-sim", "eth", 1, FALSE, 0, Shipped!Jsonrpc(18732))

MCExtra ==
  {GoodRow,
   [GoodRow EXCEPT !.pool = "bad:name"],
   [GoodRow EXCEPT !.pool = ""],
   [GoodRow EXCEPT !.pid = 0],
   [GoodRow EXCEPT !.chain = "doge"],
   [GoodRow EXCEPT !.endpoints = <<>>],
   [GoodRow EXCEPT !.endpoints = <<Shipped!Door("soap", "http", 18732)>>],
   [GoodRow EXCEPT !.endpoints = <<Shipped!Door("grpc", "grpc", 18732)>>],
   [GoodRow EXCEPT !.endpoints = Shipped!Jsonrpc(0)],
   [GoodRow EXCEPT !.endpoints = Shipped!JsonrpcWs(18732, 18600)],
   [GoodRow EXCEPT !.pool = "eth-cv-sim", !.pid = 6],
   [GoodRow EXCEPT !.pool = "lava-sim-tm", !.pid = 7]}

MCPlaces == {0, 90, 177}
MCBadNames == {"", "bad:name"}

Table == INSTANCE Registry

-----------------------------------------------------------------------------
(* GraphQL: small documents of an operation, a nested set "n" and two      *)
(* fragments; and every shape of a body.                                   *)

D == INSTANCE GraphQLDocument WITH Bodies <- {}, MAX_DEPTH <- 3, MAX_NODES <- 6

Plain == <<>>
Skip == <<[name |-> "skip", cond |-> "true"]>>
SkipUnknown == <<[name |-> "skip", cond |-> "none"]>>
IncludeFalse == <<[name |-> "skip", cond |-> "false"], [name |-> "include", cond |-> "false"]>>

UpTo2(S) == {<<x>> : x \in S} \cup (S \X S)
Object(sets, ops, operationName, sent, default) ==
  [json |-> "object", query |-> "document", variables |-> "ok", operationName |-> operationName,
   sets |-> sets, ops |-> ops, sent |-> sent, default |-> default]
Sets(q, n, F, G) == [x \in {"q", "n", "F", "G"} |-> CASE x = "q" -> q [] x = "n" -> n [] x = "F" -> F [] x = "G" -> G]
OneQuery == <<[name |-> "none", set |-> "q"]>>

(* Fragments that spread each other, and one that is nowhere. *)
Leaf == D!Field("a", "none", "none", Plain)
LimitBodies ==
  LET spreads == {D!Spread("F", Plain), D!Spread("G", Plain)}
  IN  {Object(Sets(q, n, F, G), OneQuery, "none", "absent", "none") :
         q \in UpTo2(spreads \cup {Leaf, D!Inline("n", Plain), D!Field("a", "none", "n", Plain)}),
         n \in {<<Leaf>>} \cup {<<x>> : x \in spreads},
         F \in UpTo2({Leaf, D!Spread("G", Plain), D!Spread("F", Plain), D!Spread("H", Plain)}),
         G \in UpTo2({Leaf, D!Spread("F", Plain), D!Inline("n", Plain)})}

(* Root fields with aliases and directives. *)
RootBodies ==
  LET fields == {D!Field("a", "none", "none", d) : d \in {Plain, Skip, SkipUnknown, IncludeFalse}}
                  \cup {D!Field("b", "a", "n", Plain), D!Field("a", "none", "n", Plain)}
      others == {D!Spread("F", Plain), D!Spread("F", Skip), D!Inline("n", Plain), D!Inline("n", IncludeFalse)}
  IN  {Object(Sets(q, n, F, G), OneQuery, "none", "absent", "none") :
         q \in UpTo2(fields \cup others),
         n \in {<<Leaf>>, <<D!Field("b", "none", "none", Skip), Leaf>>, <<D!Spread("G", Plain)>>},
         F \in UpTo2({Leaf, D!Field("b", "none", "n", Plain), D!Spread("G", SkipUnknown)}),
         G \in {<<Leaf>>, <<D!Field("b", "none", "none", Plain)>>}}

(* The shapes of a body and the choice of the operation. *)
ShapeBodies ==
  [json : {"empty", "not json", "array", "scalar", "object"}, query : {"absent", "bad", "empty", "syntax", "document"},
   variables : {"ok", "bad"}, operationName : {"none", "A", "Z", "bad"}, sets : {Sets(<<Leaf>>, <<Leaf>>, <<Leaf>>, <<Leaf>>)},
   ops : {<<>>, OneQuery, <<[name |-> "A", set |-> "q"], [name |-> "B", set |-> "n"]>>},
   sent : {"absent", "null", "text", "bool"}, default : {"none", "number"}]

AllBodies == LimitBodies \cup ShapeBodies

Limits == INSTANCE GraphQLDocument WITH Bodies <- AllBodies, MAX_DEPTH <- 3, MAX_NODES <- 6
Roots == INSTANCE GraphQLDocument WITH Bodies <- RootBodies, MAX_DEPTH <- 4, MAX_NODES <- 20

ASSUME Limits!LimitsAssumption /\ Roots!LimitsAssumption

-----------------------------------------------------------------------------
tableVars == <<edit, at, pools, providers, byPort, outcome>>
documentVars == <<body, answer>>

NoTable == edit = "off" /\ at = 0 /\ pools = <<>> /\ providers = <<>> /\ byPort = <<>> /\ outcome = "off"
NoDocument == body = "off" /\ answer = "off"

InitParts ==
  /\ Init
  /\ \/ part \in {"window", "blocks"} /\ NoTable /\ NoDocument
     \/ part = "registry" /\ Table!Init /\ NoDocument
     \/ part = "limits" /\ Limits!Init /\ NoTable
     \/ part = "roots" /\ Roots!Init /\ NoTable
  /\ part \in Parts

NextPart ==
  /\ \/ part = "window" /\ Next /\ WindowsOnly' /\ UNCHANGED <<tableVars, documentVars>>
     \/ part = "blocks" /\ Next /\ NoWindows' /\ UNCHANGED <<tableVars, documentVars>>
     \/ part = "registry" /\ Table!Next /\ UNCHANGED <<vars, documentVars>>
     \/ part = "limits" /\ Limits!Next /\ UNCHANGED <<vars, tableVars>>
     \/ part = "roots" /\ Roots!Next /\ UNCHANGED <<vars, tableVars>>
  /\ UNCHANGED part

SpecParts == InitParts /\ [][NextPart]_<<part, vars, tableVars, documentVars>>

(* build_registry builds exactly the tables that are well formed; a port    *)
(* leads to the provider that has it after every row; ports_of and port_of  *)
(* agree with the registry that was built.                                  *)
RegistryExact == part = "registry" => Table!RefusesExactly /\ Table!ByPortExact /\ Table!LookupAgrees

(* A readable document is answered exactly when, written out, it stays within both limits  *)
(* and has every fragment, and a refusal names a limit that it really passes.  The root    *)
(* fields are those of the written-out document that no field encloses and no directive    *)
(* removes, in its order, and a reply shows nothing that was not asked for.                *)
DocumentsExact ==
  /\ part = "limits" => Limits!LimitsExact
  /\ part = "roots" => Roots!RootsExact /\ Roots!OnlyRequested
=============================================================================
