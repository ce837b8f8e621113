------------------------------ MODULE Registry ------------------------------
(***************************************************************************)
(* build_registry of domain/registry.py: the rows of a table in turn, each *)
(* validated and added, until the table is done or a row is refused.       *)
(*                                                                         *)
(* The table is the shipped one, or the shipped one with a row put in at   *)
(* some place.  A name is a value; the names with a colon and the empty    *)
(* one are the members of BadNames, and 0 stands for a bad pid.            *)
(***************************************************************************)
EXTENDS Topology, FiniteSets, Functions

CONSTANTS Extra,     \* rows that an edit of the table may put in
          Places,    \* how many rows of the shipped table come before it
          BadNames   \* pool names that make an address ambiguous

INTERFACES == {"jsonrpc", "rest", "grpc", "tendermintrpc", "graphql"}
TRANSPORTS == {"http", "http2", "ws"}
KnownChains == {"eth", "btc", "ln", "solana", "lava", "sui", "suit"}

VARIABLES edit,       \* the edit of the table: <<>>, or <<place, row>>
          at,         \* rows read
          pools,      \* reg.pools: pool name -> chain
          providers,  \* the providers of the pools: <<pool, pid>> -> endpoints
          byPort,     \* reg._by_port: port -> <<pool, pid, endpoint>>
          outcome     \* "building", "built" or "refused"

vars == <<edit, at, pools, providers, byPort, outcome>>

Rows == IF edit = <<>> THEN TOPOLOGY ELSE InsertAt(TOPOLOGY, edit[1] + 1, edit[2])

EmptyFcn == [x \in {} |-> x]

Init ==
  /\ edit \in {<<>>} \cup (Places \X Extra)
  /\ at = 0 /\ pools = EmptyFcn /\ providers = EmptyFcn /\ byPort = EmptyFcn
  /\ outcome = "building"

(* _validate_row *)
ValidRow(row) ==
  /\ row.pool \notin BadNames /\ row.pid > 0
  /\ row.chain \in KnownChains
  /\ row.endpoints # <<>>
  /\ \A i \in DOMAIN row.endpoints :
       /\ row.endpoints[i].interface \in INTERFACES
       /\ row.endpoints[i].transport \in TRANSPORTS
       /\ row.endpoints[i].port > 0

(* Mutant of SameChain: the chain of an earlier row of the pool is not asked. *)
SameChainAlways(row) == TRUE

(* A pool serves one chain. *)
SameChain(row) == row.pool \in DOMAIN pools => pools[row.pool] = row.chain

(* No endpoint of the row is on a port of an earlier row. *)
PortFree(row) == \A i \in DOMAIN row.endpoints : row.endpoints[i].port \notin DOMAIN byPort

(* Pool.add_provider: a pid is used once in its pool. *)
NewPid(row) == <<row.pool, row.pid>> \notin DOMAIN providers

Accepted(row) == ValidRow(row) /\ SameChain(row) /\ PortFree(row) /\ NewPid(row)

Set(f, x, y) == [z \in DOMAIN f \cup {x} |-> IF z = x THEN y ELSE f[z]]

(* The endpoints of the row, bound in their order. *)
Bind(row) ==
  FoldLeft(LAMBDA f, d : Set(f, d.port, <<row.pool, row.pid, d>>), byPort, row.endpoints)

AddRow ==
  LET row == Rows[at + 1]
  IN /\ outcome = "building" /\ at < Len(Rows) /\ Accepted(row)
     /\ at' = at + 1
     /\ pools' = Set(pools, row.pool, row.chain)
     /\ providers' = Set(providers, <<row.pool, row.pid>>, row.endpoints)
     /\ byPort' = Bind(row)
     /\ UNCHANGED <<edit, outcome>>

RefuseRow ==
  /\ outcome = "building" /\ at < Len(Rows) /\ ~Accepted(Rows[at + 1])
  /\ outcome' = "refused"
  /\ UNCHANGED <<edit, at, pools, providers, byPort>>

Built ==
  /\ outcome = "building" /\ at = Len(Rows)
  /\ outcome' = "built"
  /\ UNCHANGED <<edit, at, pools, providers, byPort>>

Next == AddRow \/ RefuseRow \/ Built

Spec == Init /\ [][Next]_vars

-----------------------------------------------------------------------------
(* Properties *)

(* What a table must be, said of the table as a whole: no port on two rows, no *)
(* pid twice in a pool, one chain for a pool, and rows that are valid.         *)
PortsOfRow(row) == {row.endpoints[i].port : i \in DOMAIN row.endpoints}

WellFormed(rows) ==
  /\ \A i \in DOMAIN rows : ValidRow(rows[i])
  /\ \A i, j \in DOMAIN rows : i < j =>
       /\ PortsOfRow(rows[i]) \cap PortsOfRow(rows[j]) = {}
       /\ <<rows[i].pool, rows[i].pid>> # <<rows[j].pool, rows[j].pid>>
       /\ rows[i].pool = rows[j].pool => rows[i].chain = rows[j].chain

(* build_registry builds exactly the tables that are well formed: the shipped  *)
(* table, and an edit of it wherever the edit stands.                          *)
RefusesExactly ==
  /\ outcome = "built" => WellFormed(Rows)
  /\ outcome = "refused" => ~WellFormed(Rows)

(* A port leads to the provider that has it, and each endpoint of a provider   *)
(* is found by its port, after every row.                                      *)
ByPortExact ==
  /\ \A port \in DOMAIN byPort :
       LET e == byPort[port] IN
       /\ <<e[1], e[2]>> \in DOMAIN providers
       /\ e[3].port = port /\ e[3] \in Range(providers[<<e[1], e[2]>>])
  /\ \A p \in DOMAIN providers : \A i \in DOMAIN providers[p] :
       byPort[providers[p][i].port] = <<p[1], p[2], providers[p][i]>>

(* ports_of and port_of agree with the registry that was built from the table: *)
(* a door leads to the ports bound for it, and port_of answers only where      *)
(* there is one.                                                               *)
LookupAgrees ==
  outcome = "built" =>
    \A p \in DOMAIN providers : \A d \in Range(providers[p]) :
      LET found == PortsOf(Rows, p[1], p[2], d.interface, d.transport)
          one == PortOf(Rows, p[1], p[2], d.interface, d.transport)
      IN /\ Range(found) = {port \in DOMAIN byPort :
              /\ <<byPort[port][1], byPort[port][2]>> = p
              /\ byPort[port][3].interface = d.interface /\ byPort[port][3].transport = d.transport}
         /\ (Len(found) = 1) <=> (one = found[1])

(* registry.py, build_registry: it refuses "a port used twice".               *)
(* The code does not keep it: README, section 7.                              *)
NoPortTwice ==
  outcome = "built" =>
    \A i \in DOMAIN Rows : Cardinality(PortsOfRow(Rows[i])) = Len(Rows[i].endpoints)
=============================================================================
