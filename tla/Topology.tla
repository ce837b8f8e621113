------------------------------ MODULE Topology ------------------------------
(***************************************************************************)
(* The table of topology.py: every pool, its chain, and its providers with *)
(* their tier, cross-validation group and endpoints, in the order of the   *)
(* rows.  A pid is the number it spells.  A name is formed from the pool,  *)
(* the tier and the pid and is left out, and a group is its number, 0 for  *)
(* an empty label.                                                         *)
(***************************************************************************)
EXTENDS Integers, Sequences, SequencesExt

Row(pool, chain, pid, backup, group, endpoints) ==
  [pool |-> pool, chain |-> chain, pid |-> pid, backup |-> backup, group |-> group, endpoints |-> endpoints]

Door(interface, transport, port) == [interface |-> interface, transport |-> transport, port |-> port]

Jsonrpc(port) == <<Door("jsonrpc", "http", port)>>
JsonrpcWs(port, ws) == <<Door("jsonrpc", "http", port), Door("jsonrpc", "ws", ws)>>
Rest(port) == <<Door("rest", "http", port)>>
Tendermint(port) == <<Door("tendermintrpc", "http", port)>>
Grpc(port) == <<Door("grpc", "http2", port)>>
GraphqlDoors(port) == <<Door("graphql", "http", port)>>

(* n rows of one tier: pids from pid on, ports from port on, group[i] of the i-th. *)
Tier(pool, chain, pid, n, backup, group, Doors(_), port) ==
  [i \in 1..n |-> Row(pool, chain, pid + i - 1, backup, group[i], Doors(port + i - 1))]

NoGroup == [i \in 1..6 |-> 0]
TwoAndOne == <<1, 1, 2>>
Pairs == <<1, 1, 2, 2, 3, 3>>

(* n primaries and no backup. *)
Primaries(pool, chain, n, Doors(_), port) == Tier(pool, chain, 1, n, FALSE, NoGroup, Doors, port)

(* n primaries and n backups on ports in one run. *)
TwoTiers(pool, chain, n, Doors(_), port) ==
  Tier(pool, chain, 1, n, FALSE, NoGroup, Doors, port) \o Tier(pool, chain, n + 1, n, TRUE, NoGroup, Doors, port + n)

EthWithWs(port) == JsonrpcWs(port, port + 12)

EthPools ==
  Tier("eth-sim", "eth", 1, 3, FALSE, TwoAndOne, EthWithWs, 18545)
  \o Tier("eth-sim", "eth", 4, 3, TRUE, NoGroup, EthWithWs, 18560)
  \o Primaries("eth-solo-sim", "eth", 1, Jsonrpc, 18581)
  \o Primaries("eth-duo-sim", "eth", 2, Jsonrpc, 18586)
  \o Tier("eth-cv-sim", "eth", 1, 6, FALSE, Pairs, Jsonrpc, 18596)

LavaVotingPools ==
  Tier("lava-cv-rest-sim", "lava", 1, 6, FALSE, Pairs, Rest, 18602)
  \o Tier("lava-cv-tm-sim", "lava", 1, 6, FALSE, Pairs, Tendermint, 18608)

OtherChainPools ==
  Primaries("btc-sim", "btc", 3, Jsonrpc, 18575)
  \o Primaries("ln-sim", "ln", 3, Jsonrpc, 18578)
  \o Primaries("solana-sim", "solana", 3, Jsonrpc, 18582)
  \o Primaries("solana-solo-sim", "solana", 1, Jsonrpc, 18585)

LavaPools ==
  Tier("lava-sim-grpc", "lava", 1, 3, FALSE, TwoAndOne, Grpc, 18548)
  \o Tier("lava-sim-grpc", "lava", 4, 3, TRUE, NoGroup, Grpc, 18563)
  \o Tier("lava-sim-rest", "lava", 1, 3, FALSE, TwoAndOne, Rest, 18551)
  \o Tier("lava-sim-rest", "lava", 4, 3, TRUE, NoGroup, Rest, 18566)
  \o Tier("lava-sim-tm", "lava", 1, 3, FALSE, TwoAndOne, Tendermint, 18554)
  \o Tier("lava-sim-tm", "lava", 4, 3, TRUE, NoGroup, Tendermint, 18569)

SelectionAndCachePools ==
  Primaries("eth-best-sim", "eth", 3, Jsonrpc, 18588)
  \o Primaries("eth-priority-sim", "eth", 3, Jsonrpc, 18591)
  \o Primaries("eth-precedence-sim", "eth", 2, Jsonrpc, 18594)
  \o TwoTiers("eth-cache-writer-sim", "eth", 3, Jsonrpc, 18614)
  \o TwoTiers("eth-cache-reader-sim", "eth", 3, Jsonrpc, 18620)
  \o Primaries("eth-resp-sim", "eth", 3, Jsonrpc, 18626)

FailoverLimitPools ==
  TwoTiers("eth-failover-prodlimits-sim", "eth", 3, Jsonrpc, 18629)
  \o Primaries("eth-failover-timing-sim", "eth", 3, Jsonrpc, 18635)
  \o <<Row("eth-failover-twoaddr-sim", "eth", 1, FALSE, 0, Jsonrpc(18638) \o Jsonrpc(18639))>>

RealWithWs(port) == JsonrpcWs(port, port + 30)

FailoverRealPools ==
  Primaries("eth-failover-real-sim", "eth", 3, RealWithWs, 18640)
  \o Tier("eth-failover-cv-sim", "eth", 1, 3, FALSE, <<1, 2, 3>>, Jsonrpc, 18643)
  \o TwoTiers("eth-failover-archive-sim", "eth", 3, Jsonrpc, 18646)

FailoverArchivePools ==
  TwoTiers("eth-failover-mixed-sim", "eth", 3, Jsonrpc, 18652)
  \o TwoTiers("eth-failover-excluded-sim", "eth", 2, Jsonrpc, 18658)
  \o TwoTiers("eth-failover-ineligible-sim", "eth", 2, Jsonrpc, 18662)

FailoverChainPools ==
  TwoTiers("eth-failover-noarchive-sim", "eth", 2, Jsonrpc, 18666)
  \o Primaries("eth-failover-benchafter-sim", "eth", 3, Jsonrpc, 18673)
  \o TwoTiers("lava-failover-rest-sim", "lava", 3, Rest, 18676)
  \o TwoTiers("lava-failover-grpc-sim", "lava", 3, Grpc, 18682)
  \o TwoTiers("eth-failover-sim", "eth", 3, Jsonrpc, 18688)
  \o Primaries("eth-failover-solo-sim", "eth", 1, Jsonrpc, 18694)
  \o Primaries("btc-failover-sim", "btc", 3, Jsonrpc, 18695)
  \o Primaries("solana-failover-sim", "solana", 3, Jsonrpc, 18698)
  \o Primaries("eth-idle-sim", "eth", 2, Jsonrpc, 18701)

BackupArchivePools ==
  TwoTiers("eth-failover-backuparchive-sim", "eth", 2, Jsonrpc, 18703)
  \o TwoTiers("eth-failover-archiveless-sim", "eth", 2, Jsonrpc, 18707)

SuiPools ==
  Primaries("sui-graphql-sim", "sui", 3, GraphqlDoors, 18711)
  \o TwoTiers("sui-failover-graphql-sim", "sui", 3, GraphqlDoors, 18714)
  \o Primaries("sui-cache-graphql-sim", "sui", 3, GraphqlDoors, 18720)

SuiVotingPools ==
  Tier("sui-cv-graphql-sim", "sui", 1, 6, FALSE, Pairs, GraphqlDoors, 18723)
  \o Primaries("sui-testnet-graphql-sim", "suit", 3, GraphqlDoors, 18729)

TOPOLOGY ==
  EthPools \o LavaVotingPools \o OtherChainPools \o LavaPools \o SelectionAndCachePools
  \o FailoverLimitPools \o FailoverRealPools \o FailoverArchivePools \o FailoverChainPools
  \o BackupArchivePools \o SuiPools \o SuiVotingPools

(* The ports that a row serves an interface and a transport on, in its order. *)
Found(row, interface, transport) ==
  LET doors == SelectSeq(row.endpoints, LAMBDA d : d.interface = interface /\ d.transport = transport)
  IN [i \in DOMAIN doors |-> doors[i].port]

(* A call that raises gives no port. *)
KeyError == 0
Miss == <<KeyError>>

(* ports_of: the ports of the first row of that pool and pid, or a KeyError. *)
PortsOf(rows, pool, pid, interface, transport) ==
  LET at == SelectInSeq(rows, LAMBDA r : r.pool = pool /\ r.pid = pid)
  IN IF at = 0 \/ Found(rows[at], interface, transport) = <<>> THEN Miss
     ELSE Found(rows[at], interface, transport)

(* port_of: the one port, and a KeyError where there are several. *)
PortOf(rows, pool, pid, interface, transport) ==
  LET found == PortsOf(rows, pool, pid, interface, transport)
  IN IF Len(found) > 1 THEN KeyError ELSE Head(found)
=============================================================================
