------------------------------ MODULE WsFrames ------------------------------
(***************************************************************************)
(* The frame codec of listeners/ws_protocol.py: encode_frame, and          *)
(* parse_frame reading a byte stream that arrives in chunks of any size.   *)
(*                                                                         *)
(* A byte is a digit below Byte, and the length field of the second byte   *)
(* holds a length below Short or one of the codes Short and Short + 1 (126 *)
(* and 127 in the code, with Byte = 256).  The boundaries 125/126 and      *)
(* 65535/65536 are Short - 1/Short and Byte^2 - 1/Byte^2.  The first two   *)
(* bytes are pairs of the fields they pack.  Payload bytes are bits, so    *)
(* that XOR is a sum modulo 2.                                             *)
(***************************************************************************)
EXTENDS Integers, Sequences, SequencesExt, Functions

CONSTANTS Byte,           \* values of a byte (256 in the code)
          Short,          \* first length that needs a length of its own (126)
          Payloads,       \* the payloads of frames
          Key,            \* the mask key that a client draws: four bits
          ControlInside,  \* does the peer send control frames inside a message?
          MaxFrames       \* bound: frames that the peer sends

FrameAssumption == Byte > 1 /\ Short > 0 /\ Short + 1 < Byte^2 /\ Len(Key) = 4

TEXT == 1
CONTINUATION == 0
PING == 9

VARIABLES stream,     \* bytes sent and not received
          open,       \* the message that the peer has begun: <<payload>>, or <<>>
          count,      \* frames sent
          ended,      \* has the peer closed its side?
          stage,      \* the read of parse_frame that is under way
          buf,        \* buf of _recv_exact
          head,       \* fin, opcode, masked, length and mask_key of the frame
          first,      \* first_opcode: <<opcode>>, or <<>> for None
          assembled,  \* the payload so far
          sent,       \* ghost: messages sent in full
          delivered   \* what the calls of parse_frame returned

vars == <<stream, open, count, ended, stage, buf, head, first, assembled, sent, delivered>>

-----------------------------------------------------------------------------
(* encode_frame *)

BigEndian(n, w) == [i \in 1..w |-> (n \div Byte^(w - i)) % Byte]

Unpack(digits) == FoldLeft(LAMBDA v, d : v * Byte + d, 0, digits)

(* The length: in the byte, in two more, or in eight more. *)
LengthField(n) ==
  IF n < Short THEN <<n>>
  ELSE IF n < Byte^2 THEN <<Short>> \o BigEndian(n, 2)
  ELSE <<Short + 1>> \o BigEndian(n, 8)

(* b ^ key[i % 4], from the first byte of the payload on. *)
Masked(payload, key) == [i \in DOMAIN payload |-> (payload[i] + key[((i - 1) % 4) + 1]) % 2]

EncodeFrame(fin, opcode, payload, mask) ==
  LET length == LengthField(Len(payload))
  IN <<<<fin, opcode>>, <<mask, Head(length)>>>> \o Tail(length)
     \o (IF mask THEN Key \o Masked(payload, Key) ELSE payload)

-----------------------------------------------------------------------------
NoFrame == [fin |-> TRUE, opcode |-> TEXT, masked |-> FALSE, length |-> 0, key |-> <<>>]

Init ==
  /\ stream = <<>> /\ open = <<>> /\ count = 0 /\ ended = FALSE
  /\ stage = "header" /\ buf = <<>> /\ head = NoFrame /\ first = <<>> /\ assembled = <<>>
  /\ sent = <<>> /\ delivered = <<>>

parser == <<stage, buf, head, first, assembled, delivered>>

(* The peer sends a frame that RFC 6455 allows at this point: a text frame, a *)
(* continuation of the open message, or a ping.                               *)
Sends(fin, opcode, payload, mask) ==
  /\ ~ended /\ count < MaxFrames /\ count' = count + 1
  /\ stream' = stream \o EncodeFrame(fin, opcode, payload, mask)
  /\ UNCHANGED <<ended, parser>>

SendData(fin, payload, mask) ==
  LET whole == IF open = <<>> THEN payload ELSE open[1] \o payload
  IN /\ Sends(fin, IF open = <<>> THEN TEXT ELSE CONTINUATION, payload, mask)
     /\ open' = IF fin THEN <<>> ELSE <<whole>>
     /\ sent' = IF fin THEN Append(sent, <<TEXT, whole>>) ELSE sent

SendPing(payload, mask) ==
  /\ open = <<>> \/ ControlInside
  /\ Sends(TRUE, PING, payload, mask)
  /\ sent' = Append(sent, <<PING, payload>>)
  /\ UNCHANGED open

PeerEnds ==
  /\ ~ended /\ ended' = TRUE
  /\ UNCHANGED <<stream, open, count, parser, sent>>

-----------------------------------------------------------------------------
(* parse_frame *)

(* The bytes that the read under way asks for. *)
Wanted ==
  CASE stage = "header" -> 2
    [] stage = "length" -> IF head.length = Short THEN 2 ELSE 8
    [] stage = "key" -> 4
    [] OTHER -> head.length

(* _recv_exact: one recv, of what has arrived and at most what is missing. *)
Recv(n) ==
  /\ stage # "failed"
  /\ n \in 1..Len(stream) /\ n <= Wanted - Len(buf)
  /\ buf' = buf \o SubSeq(stream, 1, n) /\ stream' = SubSeq(stream, n + 1, Len(stream))
  /\ UNCHANGED <<open, count, ended, stage, head, first, assembled, sent, delivered>>

(* _recv_exact: an empty recv is a FrameParseError. *)
RecvFails ==
  /\ stage # "failed" /\ ended /\ stream = <<>> /\ Len(buf) < Wanted
  /\ stage' = "failed"
  /\ UNCHANGED <<stream, open, count, ended, buf, head, first, assembled, sent, delivered>>

Complete(at) == stage = at /\ Len(buf) = Wanted /\ buf' = <<>>

peer == <<stream, open, count, ended, sent>>

AfterLength(masked) == IF masked THEN "key" ELSE "payload"

HeaderRead ==
  /\ Complete("header")
  /\ head' = [fin |-> buf[1][1], opcode |-> buf[1][2], masked |-> buf[2][1], length |-> buf[2][2], key |-> <<>>]
  /\ stage' = IF buf[2][2] >= Short THEN "length" ELSE AfterLength(buf[2][1])
  /\ UNCHANGED <<peer, first, assembled, delivered>>

LengthRead ==
  /\ Complete("length")
  /\ head' = [head EXCEPT !.length = Unpack(buf)]
  /\ stage' = AfterLength(head.masked)
  /\ UNCHANGED <<peer, first, assembled, delivered>>

KeyRead ==
  /\ Complete("key")
  /\ head' = [head EXCEPT !.key = buf] /\ stage' = "payload"
  /\ UNCHANGED <<peer, first, assembled, delivered>>

Payload == IF head.masked THEN Masked(buf, head.key) ELSE buf

FirstOpcode == IF first = <<>> THEN <<head.opcode>> ELSE first

(* Mutant of LastOfMessage: a frame with no payload does not end a message. *)
LastOfMessageNonEmpty == head.fin /\ head.length > 0

LastOfMessage == head.fin

(* A control frame is returned as it is, and the next call starts afresh. *)
ControlRead ==
  /\ Complete("payload") /\ head.opcode >= 8
  /\ delivered' = Append(delivered, <<head.opcode, Payload>>)
  /\ stage' = "header" /\ first' = <<>> /\ assembled' = <<>>
  /\ UNCHANGED <<peer, head>>

(* A data frame extends the message, and the last one returns it. *)
DataRead ==
  /\ Complete("payload") /\ head.opcode < 8
  /\ stage' = "header"
  /\ IF LastOfMessage
     THEN /\ delivered' = Append(delivered, <<FirstOpcode[1], assembled \o Payload>>)
          /\ first' = <<>> /\ assembled' = <<>>
     ELSE /\ first' = FirstOpcode /\ assembled' = assembled \o Payload
          /\ UNCHANGED delivered
  /\ UNCHANGED <<peer, head>>

Next ==
  \/ \E payload \in Payloads, mask \in BOOLEAN :
       (\E fin \in BOOLEAN : SendData(fin, payload, mask)) \/ SendPing(payload, mask)
  \/ PeerEnds
  \/ \E n \in 1..Len(stream) : Recv(n)
  \/ RecvFails \/ HeaderRead \/ LengthRead \/ KeyRead \/ ControlRead \/ DataRead

Spec == Init /\ [][Next]_vars

-----------------------------------------------------------------------------
(* Properties *)

(* parse_frame returns the messages that the peer sent, unmasked and in order, *)
(* however their bytes are split into frames and chunks, and never a part of   *)
(* one: a stream that ends inside a message raises instead.                    *)
MessagesIntact == IsPrefix(delivered, sent)

(* A parser that waits for the next frame with no byte left to read has        *)
(* returned every message that was sent in full.                               *)
NothingHeld == (stage = "header" /\ buf = <<>> /\ stream = <<>>) => delivered = sent

(* ws_protocol.py, parse_frame: "Handles RFC 6455 5.4 fragmentation            *)
(* transparently", where 5.4 lets control frames into a fragmented message.    *)
(* The code does not keep it: README, section 7.                               *)
Transparent == IsPrefix(delivered, sent)
=============================================================================
