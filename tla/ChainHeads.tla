----------------------------- MODULE ChainHeads -----------------------------
(***************************************************************************)
(* The advancing heads of the chains (chains/base.py), POST /advance and   *)
(* the head part of a reset (control_api.py), and what the providers of a  *)
(* chain say of heights and block hashes (the modules under chains/).  A   *)
(* head is shared by every provider of its chain.  Calls of POST /advance  *)
(* take no common lock: the rate, the bump and the read are separate steps.*)
(*                                                                         *)
(* Time is a clock of ticks and a rate counts half blocks per tick, so     *)
(* that int() drops a fraction.  A hash is known by the height it is       *)
(* derived from; 0 stands for a hash that is the same for every height.    *)
(* A reply keeps the heights and the hash it shows, and leaves out the     *)
(* rest of its stub, the envelope and the HTTP status.                     *)
(***************************************************************************)
EXTENDS Integers, FiniteSets

CONSTANTS HeadChains,  \* the chains under test
          Base,        \* the height that the stubs are written against
          Providers,   \* providers of the chain
          Lags,        \* values of blocks_behind, which is signed
          Advances,    \* calls of POST /advance
          Rates,       \* values of per_second
          Blocks,      \* values of blocks
          Heights,     \* heights that a request may name
          MaxClock,    \* bound: ticks of the clock
          MaxReplies   \* bound: replies that are compared

Inf == 1000000               \* JSON Infinity, which Python reads as a float
MaxCheckpoint == Base + 2    \* SUI_MAX_CHECKPOINT, brought near the head
IndexedUpTo == Base          \* the quirk logs_indexed_up_to, where it is set

ASSUME HeadAssumption ==
  /\ HeadChains \subseteq {"eth", "btc", "solana", "sui", "lava"}
  /\ Base \in Nat \ {0} /\ MaxClock \in Nat
  /\ Lags \subseteq Int /\ Heights \subseteq Int /\ Rates \subseteq Int
  /\ Blocks \subseteq Int \ {Inf}

VARIABLES chain,    \* the chain that this behaviour is about
          head,     \* head[h]: an AdvancingHead
          clock,    \* time.monotonic()
          lag,      \* lag[p]: blocks_behind of a provider
          logs,     \* logs[p]: the quirk logs_lag_mode, "off" with no index height
          advance,  \* advance[a]: a call of POST /advance
          moved,    \* moved[h]: blocks that bumps added since the last reset
          replies   \* replies that the providers gave

headVars == <<chain, head, clock, lag, logs, advance, moved, replies>>

HeadNames == {"default", "rest", "grpc", "tendermintrpc"}

(* Chain.iter_heads: one head, or one for each interface of lava. *)
iter_heads == IF chain = "lava" THEN HeadNames \ {"default"} ELSE {"default"}

New == [extra |-> 0, rate |-> 0, anchor |-> 0]
Asks(pc, has, blocks, per_second, name, status) ==
  [pc |-> pc, has |-> has, blocks |-> blocks, per_second |-> per_second, name |-> name, status |-> status]
NoCall == Asks("new", {}, 0, 0, "default", 0)

HeadsInit ==
  /\ chain \in HeadChains
  /\ head = [h \in HeadNames |-> New] /\ clock = 0
  /\ lag = [p \in Providers |-> 0]
  /\ logs \in [Providers -> IF chain = "eth" THEN {"off", "empty", "partial"} ELSE {"off"}]
  /\ advance = [a \in Advances |-> NoCall]
  /\ moved = [h \in HeadNames |-> 0]
  /\ replies = {}

-----------------------------------------------------------------------------
(* AdvancingHead *)

(* int((time.monotonic() - self._anchor) * self._rate) *)
Elapsed(x) == IF x.rate > 0 THEN ((clock - x.anchor) * x.rate) \div 2 ELSE 0

current(h) == Base + head[h].extra + Elapsed(head[h])

(* With an infinite rate int() raises, in current and in set_rate. *)
Readable(h) == head[h].rate # Inf

(* Mutant of Fold: the advance of the old rate is dropped. *)
FoldNothing(x) == x.extra

(* Mutant of Fold: the folded advance replaces the bumps. *)
FoldOver(x) == IF x.rate > 0 THEN Elapsed(x) ELSE x.extra

(* What the head has advanced by, when its rate changes. *)
Fold(x) == x.extra + Elapsed(x)

set_rate(x, r) == [extra |-> Fold(x), rate |-> r, anchor |-> clock]

bump(x, n) == [x EXCEPT !.extra = @ + n]

(* The anchor is left alone. *)
reset_head(x) == [extra |-> 0, rate |-> 0, anchor |-> x.anchor]

-----------------------------------------------------------------------------
(* POST /advance *)

Sets(a, c) == advance' = [advance EXCEPT ![a] = c]
Answers(a, s) == Sets(a, Asks("done", {}, 0, 0, "default", s))

Moving(c) == "per_second" \in c.has \/ c.blocks # 0

(* The head that a call names, the only head of the chain, or none. *)
ChosenHead(c) ==
  IF "head" \in c.has THEN {c.name}
  ELSE IF Cardinality(iter_heads) = 1 THEN iter_heads ELSE {}

(* Refused: a chain with no head of its own (ln), a negative number, a     *)
(* move that names none of several heads, and an unknown head.             *)
Refused(c) ==
  \/ "ln" \in c.has
  \/ c.blocks < 0 \/ c.per_second < 0
  \/ ChosenHead(c) = {} /\ Moving(c)
  \/ ~(ChosenHead(c) \subseteq iter_heads)

Begin(a) ==
  /\ advance[a].pc = "new"
  /\ \E has \in SUBSET {"blocks", "per_second", "head", "ln"}, n \in Blocks, r \in Rates, h \in HeadNames :
       LET c == Asks("rate", has, IF "blocks" \in has THEN n ELSE 0, IF "per_second" \in has THEN r ELSE 0,
                     IF "head" \in has THEN h ELSE "default", 0)
       IN IF Refused(c) THEN Answers(a, 400) ELSE Sets(a, c)
  /\ UNCHANGED <<chain, head, clock, lag, logs, moved, replies>>

(* head.set_rate, when the call gives a rate. *)
SetRate(a) ==
  /\ advance[a].pc = "rate"
  /\ IF "per_second" \notin advance[a].has
     THEN Sets(a, [advance[a] EXCEPT !.pc = "bump"]) /\ UNCHANGED head
     ELSE \E h \in ChosenHead(advance[a]) :
            IF Readable(h)
            THEN /\ head' = [head EXCEPT ![h] = set_rate(@, advance[a].per_second)]
                 /\ Sets(a, [advance[a] EXCEPT !.pc = "bump"])
            ELSE Answers(a, 0) /\ UNCHANGED head
  /\ UNCHANGED <<chain, clock, lag, logs, moved, replies>>

(* head.bump; a call without blocks adds nothing. *)
Bump(a) ==
  /\ advance[a].pc = "bump"
  /\ head' = [h \in HeadNames |-> IF h \in ChosenHead(advance[a]) THEN bump(head[h], advance[a].blocks) ELSE head[h]]
  /\ moved' = [h \in HeadNames |-> IF h \in ChosenHead(advance[a]) THEN moved[h] + advance[a].blocks ELSE moved[h]]
  /\ Sets(a, [advance[a] EXCEPT !.pc = "read"])
  /\ UNCHANGED <<chain, clock, lag, logs, replies>>

(* Every head is read for the answer; one that cannot be read raises. *)
Read(a) ==
  /\ advance[a].pc = "read"
  /\ Answers(a, IF \A h \in iter_heads : Readable(h) THEN 200 ELSE 0)
  /\ UNCHANGED <<chain, head, clock, lag, logs, moved, replies>>

(* The head part of _perform_reset. *)
ResetHeads ==
  /\ head' = [h \in HeadNames |-> reset_head(head[h])]
  /\ moved' = [h \in HeadNames |-> 0]
  /\ UNCHANGED <<chain, clock, lag, logs, advance, replies>>

Tick == clock < MaxClock /\ clock' = clock + 1 /\ UNCHANGED <<chain, head, lag, logs, advance, moved, replies>>

(* POST /scenario with blocks_behind, or slot_offset on solana. *)
SetLag(p) ==
  /\ \E n \in Lags \ {lag[p]} : lag' = [lag EXCEPT ![p] = n]
  /\ UNCHANGED <<chain, head, clock, logs, advance, moved, replies>>

-----------------------------------------------------------------------------
(* The replies: build_success of each chain *)

Arg(tag, n) == [tag |-> tag, n |-> n]
None == Arg("none", 0)
Numbers == {Arg("number", n) : n \in Heights}
Junk == Arg("junk", 0)    \* neither a number nor a tag
Tags == {Arg(t, 0) : t \in {"latest", "earliest", "pending", "safe", "finalized"}}

(* The methods whose reply depends on the head, with their parameters.     *)
(* getinfo is the method of ln, which follows the head of btc.             *)
Requests ==
  CASE chain = "eth" -> {<<"eth_blockNumber", None>>}
                        \cup ({"eth_getBlockByNumber", "eth_getLogs"} \X ({None, Junk} \cup Numbers \cup Tags))
    [] chain = "btc" -> ({"getblockcount", "getbestblockhash", "getblockchaininfo", "getinfo"} \X {None})
                        \cup ({"getblockhash", "getblock"} \X ({None, Junk} \cup Numbers))
    [] chain = "solana" -> {"getSlot", "getLatestBlockhash", "getHealth"} \X {None}
    [] chain = "sui" -> ({"serviceConfig", "transaction"} \X {None}) \cup ({"checkpoint"} \X ({None, Junk} \cup Numbers))
    [] chain = "lava" -> ({"blocks/latest", "GetLatestBlock", "status", "abci_info"} \X {None})
                         \cup ({"blocks/{height}"} \X Numbers) \cup ({"block", "validators"} \X ({None, Junk} \cup Numbers))

(* The methods that report the tip when no height is asked for. *)
TipMethods == {"eth_blockNumber", "getblockcount", "getbestblockhash", "getblockchaininfo", "getblockhash", "getblock", "getinfo",
               "getSlot", "getLatestBlockhash", "serviceConfig", "transaction", "checkpoint",
               "blocks/latest", "GetLatestBlock", "status", "abci_info", "block", "validators"}

HeadOf(m) ==
  IF chain # "lava" THEN "default"
  ELSE IF m \in {"blocks/latest", "blocks/{height}"} THEN "rest"
  ELSE IF m = "GetLatestBlock" THEN "grpc" ELSE "tendermintrpc"

Shows(heights, hash) == [heights |-> heights, hash |-> hash]
Nothing == Shows({}, {})
AtLeast0(n) == IF n < 0 THEN 0 ELSE n

(* A number above the head of a provider that is behind or ahead. *)
AboveHead(p, a) == a.tag = "number" /\ lag[p] # 0 /\ a.n > current("default") - lag[p]

eth_getBlockByNumber(p, a) ==
  LET h == current("default") - lag[p]
      tag == [latest |-> h, safe |-> h, pending |-> h + 1, finalized |-> h - 1, earliest |-> 0]
  IN CASE a = None -> Shows({Base}, {0})
       [] a = Junk -> Shows({}, {0})
       [] a.tag = "number" -> IF AboveHead(p, a) THEN Nothing ELSE Shows({a.n}, {0})
       [] OTHER -> Shows({tag[a.tag]}, {0})

(* _resolve_block_tag: the height of toBlock; earliest resolves to none. *)
ToBlock(p, a) ==
  CASE a.tag \in {"latest", "safe", "finalized", "pending"} -> {current("default") - lag[p]}
    [] a.tag = "number" -> {a.n}
    [] OTHER -> {}

PastIndex(p, a) == \E n \in ToBlock(p, a) : n > IndexedUpTo

(* The entries of the test's own result, at and above the index height. *)
eth_getLogs(p, a) ==
  LET given == {IndexedUpTo, IndexedUpTo + 1}
  IN Shows(IF logs[p] = "off" \/ ~PastIndex(p, a) THEN given
           ELSE IF logs[p] = "empty" THEN {} ELSE {n \in given : n <= IndexedUpTo}, {})

(* The number of a block and the range of the logs also apply to a result  *)
(* that the test gave; the stub of the logs is empty.                      *)
EthSuccess(p, m, a, entry) ==
  CASE m = "eth_getBlockByNumber" -> eth_getBlockByNumber(p, a)
    [] m = "eth_getLogs" /\ entry = "result" -> eth_getLogs(p, a)
    [] m = "eth_blockNumber" /\ entry = "none" -> Shows({current("default") - lag[p]}, {})
    [] OTHER -> Nothing

(* Mutant of _restamp_head: only a height is rewritten, not a hash. *)
RestampHeights(eff) == Shows({eff}, {Base})

(* Every base height and base hash of a stub becomes that of the head. *)
_restamp_head(eff) == Shows({eff}, {eff})

getblockhash(p, a) ==
  CASE a = None -> Shows({}, _restamp_head(current("default") - lag[p]).hash)
    [] a = Junk -> Nothing
    [] OTHER -> Shows({}, {a.n})

(* getblock and getblockheader: a number here is the hash of that height. *)
getblock(p, a) ==
  LET block == _restamp_head(current("default") - lag[p])
  IN IF a.tag = "number" THEN Shows(block.heights, {a.n})
     ELSE IF a = Junk THEN Shows(block.heights, {}) ELSE block

BtcSuccess(p, m, a) ==
  LET block == _restamp_head(current("default") - lag[p])
  IN CASE m = "getblockhash" -> getblockhash(p, a)
       [] m = "getblock" -> getblock(p, a)
       [] m = "getblockcount" -> Shows(block.heights, {})
       [] m = "getbestblockhash" -> Shows({}, block.hash)
       [] m = "getblockchaininfo" -> block

(* LnChain.build_success: the head of btc, with no bound. *)
getinfo(p) == Shows({current("default") - lag[p]}, {})

(* SolanaChain: the offset of the provider is minus its lag. *)
Slot(p, m) == IF m = "getHealth" THEN Nothing ELSE Shows({current("default") - lag[p]}, {0})

(* SuiChain.tip *)
tip(p) == LET n == AtLeast0(current("default") - lag[p]) IN IF n > MaxCheckpoint THEN MaxCheckpoint ELSE n

_checkpoint(p, a) ==
  IF a = None THEN Shows({tip(p)}, {tip(p)})
  ELSE IF a = Junk \/ a.n > tip(p) THEN Nothing ELSE Shows({a.n}, {a.n})

(* SuiChain._stub: serviceConfig and transaction show the tip. *)
_stub(p, m, a) == IF m = "checkpoint" THEN _checkpoint(p, a) ELSE Shows({tip(p)}, {})

(* The height that lava stamps into the replies that report a tip. *)
Stamped(p, m) == Shows({AtLeast0(current(HeadOf(m)) - lag[p])}, {})

_build_rest(p, m, a) == IF m = "blocks/latest" THEN Stamped(p, m) ELSE Shows({a.n}, {0})

_build_grpc(p, m) == Stamped(p, m)

(* A parameter that is no number is height 0 to block, and the head of the *)
(* chain to validators.                                                    *)
_build_tm(p, m, a) ==
  CASE a = None -> Stamped(p, m)
    [] a = Junk -> Shows({IF m = "block" THEN 0 ELSE current("tendermintrpc")}, {})
    [] OTHER -> Shows({a.n}, {0})

(* An entry of responses with an error shows no height, and one with a     *)
(* result shows the test's own, except to EthSuccess.                      *)
build_success(p, m, a, entry) ==
  IF entry = "error" THEN Nothing
  ELSE IF chain = "eth" THEN EthSuccess(p, m, a, entry)
  ELSE IF entry = "result" THEN Nothing
  ELSE CASE chain = "btc"    -> IF m = "getinfo" THEN getinfo(p) ELSE BtcSuccess(p, m, a)
         [] chain = "solana" -> Slot(p, m)
         [] chain = "sui"    -> _stub(p, m, a)
         [] chain = "lava"   -> IF HeadOf(m) = "grpc" THEN _build_grpc(p, m)
                                ELSE IF HeadOf(m) = "rest" THEN _build_rest(p, m, a) ELSE _build_tm(p, m, a)

(* One request.  A reply that shows nothing is not kept.  With an infinite *)
(* rate the handler raises, and the caller gets no reply.                  *)
Reply(p) ==
  /\ Cardinality(replies) < MaxReplies
  /\ \E r \in Requests, entry \in {"none", "error", "result"} :
       LET shown == build_success(p, r[1], r[2], entry)
       IN /\ Readable(HeadOf(r[1]))
          /\ replies' = IF shown = Nothing THEN replies
                        ELSE replies \cup {[provider |-> p, method |-> r[1], arg |-> r[2], head |-> current(HeadOf(r[1])),
                                            lag |-> lag[p], logs |-> logs[p], shows |-> shown]}
  /\ UNCHANGED <<chain, head, clock, lag, logs, advance, moved>>

AdvanceStep(a) == Begin(a) \/ SetRate(a) \/ Bump(a) \/ Read(a)

HeadsNext ==
  \/ \E a \in Advances : AdvanceStep(a)
  \/ ResetHeads \/ Tick
  \/ \E p \in Providers : SetLag(p) \/ Reply(p)

HeadsSpec == HeadsInit /\ [][HeadsNext]_headVars

-----------------------------------------------------------------------------
(* Properties *)

(* The type of the state: extras never fall below zero and an anchor never *)
(* lies in the future (chains/base.py).                                    *)
HeadsTypeOK ==
  /\ chain \in HeadChains /\ clock \in 0..MaxClock
  /\ head \in [HeadNames -> [extra : Nat, rate : Rates \cup {0}, anchor : 0..clock]]
  /\ lag \in [Providers -> Lags \cup {0}]
  /\ \A a \in Advances : advance[a].pc \in {"new", "rate", "bump", "read", "done"} /\ advance[a].status \in {0, 200, 400}

(* A bump is never lost to a change of the rate: a head is at least as     *)
(* many blocks above its base as POST /advance was asked to add, its       *)
(* extras are never below zero and its anchor never lies in the future.    *)
BumpsKept == HeadsTypeOK /\ \A h \in HeadNames : head[h].extra >= moved[h]

(* Whatever the calls of POST /advance do to rates and bumps, and however  *)
(* they interleave, a head only moves backward by a reset: the docstring   *)
(* of AdvancingHead promises this of a rate that is switched.              *)
NeverBackwardStep ==
  (\A h \in HeadNames : head'[h] = reset_head(head[h])) \/ \A h \in iter_heads : current(h)' >= current(h)

(* A head moves only when a call names it, or when it is the only head of  *)
(* its chain: of several heads none is guessed (control_api.advance).      *)
NoHeadGuessedStep ==
  \A h \in iter_heads : Cardinality(iter_heads) > 1 /\ head'[h] # head[h] =>
    \/ head'[h] = reset_head(head[h])
    \/ \E a \in Advances : advance[a].pc \in {"rate", "bump"} /\ "head" \in advance[a].has /\ advance[a].name = h

(* However the calls of POST /advance interleave, a head moves backward    *)
(* only by a reset (the docstring of AdvancingHead), and it moves at all   *)
(* only when a call names it, or when it is the only head of its chain: of *)
(* several heads none is guessed (control_api.advance).                    *)
HeadsMoveForward == [][NeverBackwardStep /\ NoHeadGuessedStep]_headVars

(* The heights of a reply, and the hashes that are those of its height. *)
About(r) ==
  r.shows.heights \cup IF r.method \in {"getbestblockhash", "getblockchaininfo", "getblockhash", "getblock"}
                       THEN r.shows.hash ELSE {}

AboutTip(r) == r.arg = None /\ r.method \in TipMethods

(* Two replies about the tip that a provider, or two providers with the    *)
(* same lag, give at the same head show the same height and, where they    *)
(* show one, the hash of that height; ln agrees with btc.                  *)
SameTip ==
  \A r, s \in {x \in replies : AboutTip(x)} :
    r.head = s.head /\ r.lag = s.lag /\ HeadOf(r.method) = HeadOf(s.method) =>
      \A m, n \in About(r) \cup About(s) : m = n

(* A provider that is behind, or ahead, shows no block above its own head  *)
(* (eth_getBlockByNumber), and a Sui provider never does.                  *)
NoneAboveTip ==
  \A r \in replies :
    r.arg.tag = "number" /\ r.shows.heights # {} /\ ((r.method = "eth_getBlockByNumber" /\ r.lag # 0) \/ r.method = "checkpoint")
      => r.arg.n <= AtLeast0(r.head - r.lag)

(* Two providers that are asked about the same block show the same hash,   *)
(* however far apart their heads are (the rule of chains/base.py).         *)
SameHash ==
  \A r, s \in replies :
    r.arg.tag = "number" /\ r.arg = s.arg => \A m, n \in r.shows.hash \cup s.shows.hash : m = n

(* No entry above the index height reaches a caller whose range ends above *)
(* it, wherever the head of the provider is (EthQuirks, eth_getLogs).      *)
LogsWithinIndex ==
  \A r \in replies :
    (r.method = "eth_getLogs" /\ r.logs # "off"
       /\ (r.arg.n > IndexedUpTo \/ (r.arg.tag = "latest" /\ r.head - r.lag > IndexedUpTo)))
      => \A n \in r.shows.heights : n <= IndexedUpTo

(* Two replies about the tip that a provider, or two providers with the    *)
(* same lag, give at the same head show the same height and the hash of    *)
(* that height, and two providers asked about one block show one hash,     *)
(* however far apart their heads are.  No reply shows a block above the    *)
(* provider's own head, or a log entry above its index.                    *)
HeightsAgree == SameTip /\ SameHash /\ NoneAboveTip /\ LogsWithinIndex

(* A reply to a request that names a block shows the height of that block. *)
(* The code does not keep it: README, section 7.                           *)
ShowsRequested ==
  \A r \in replies :
    r.arg.tag = "number" /\ r.method # "eth_getLogs" => r.shows.heights \subseteq {r.arg.n}

(* A head can be read after every accepted call of POST /advance. *)
(* The code does not keep it: README, section 7.                  *)
HeadsReadable == \A h \in iter_heads : Readable(h)
=============================================================================
