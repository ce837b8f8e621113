------------------------- MODULE MCWsSubscriptions --------------------------
(***************************************************************************)
(* The connections of a caller: WebSocket subscriptions, the frames of a   *)
(* WebSocket, and the HTTP connections of a port that may close.  A        *)
(* behaviour is about one part; the others stay in their initial state.    *)
(***************************************************************************)
EXTENDS WsSubscriptions, ProviderPort, TLC

CONSTANTS c1, c2, s1, s2, e1,
          Parts     \* the parts under test: "subscriptions", "frames", "port"

VARIABLES part,
          stream, open, count, ended, stage, buf, head, first, assembled, sent, delivered

Symmetric == Permutations(Conns) \cup Permutations(Subs) \cup Permutations(Emits)

(* A byte has two values, so lengths 0 and 1 are short, 2 and 3 take two bytes, and 5 takes eight. *)
SomePayloads == {<<>>, <<1>>, <<1, 0>>, <<0, 1, 1>>, <<1, 1, 0, 1, 1>>}

Frames == INSTANCE WsFrames WITH Byte <- 2, Short <- 2, Payloads <- SomePayloads, Key <- <<1, 0, 0, 1>>,
                                 ControlInside <- FALSE, MaxFrames <- 3

Plan(action, at, pause, body, size, corruption, headOnly, chosen) ==
  [action |-> action, at |-> at, pause |-> pause, body |-> body, size |-> size,
   corruption |-> corruption, head |-> headOnly, chosen |-> chosen]

Planned(pause, body, size, corruption, chosen) ==
  Plan("respond", "none", pause, body, size, corruption, FALSE, chosen)

AllPlans ==
  {Plan("hang", "none", "none", "dict", 0, "none", FALSE, {}),
   Plan("no_body", "none", "none", "dict", 0, "none", FALSE, {"date"}),
   Plan("drop", "before_headers", "none", "dict", 1, "none", FALSE, {}),
   Plan("drop", "after_headers", "none", "dict", 1, "none", FALSE, {"retry-after"}),
   Plan("drop", "mid_body", "none", "dict", 1, "none", FALSE, {}),
   Plan("respond", "none", "mid_body", "dict", 3, "none", TRUE, {}),
   Planned("none", "dict", 3, "none", {"date", "cache-control"}),
   Planned("after_headers", "other", 2, "empty_response", {}),
   Planned("mid_body", "dict", 3, "none", {}),
   Planned("mid_body", "dict", 4, "truncated", {}),
   Planned("mid_body", "str", 3, "empty_response", {}),
   Planned("none", "str", 2, "null_body", {})}

ASSUME Frames!FrameAssumption

frameVars == <<stream, open, count, ended, stage, buf, head, first, assembled, sent, delivered>>
allVars == <<part, vars, frameVars, portVars>>

NoFrames ==
  /\ stream = "off" /\ open = "off" /\ count = "off" /\ ended = "off" /\ stage = "off" /\ buf = "off"
  /\ head = "off" /\ first = "off" /\ assembled = "off" /\ sent = "off" /\ delivered = "off"

InitParts ==
  /\ part \in Parts
  /\ Init /\ PortInit
  /\ IF part = "frames" THEN Frames!Init ELSE NoFrames

NextPart ==
  /\ \/ part = "subscriptions" /\ Next /\ UNCHANGED <<frameVars, portVars>>
     \/ part = "frames" /\ Frames!Next /\ UNCHANGED <<vars, portVars>>
     \/ part = "port" /\ PortNext /\ UNCHANGED <<vars, frameVars>>
  /\ UNCHANGED part

SpecParts == InitParts /\ [][NextPart]_allVars

(* parse_frame returns the messages that the peer sent, unmasked and in    *)
(* order, however their bytes are split into frames and chunks, and holds  *)
(* back none that was sent in full.                                        *)
FramesIntact == part = "frames" => Frames!MessagesIntact /\ Frames!NothingHeld
=============================================================================
