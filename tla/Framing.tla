------------------------------ MODULE Framing ------------------------------
(***************************************************************************)
(* WebSocket framing on one connection: src/net/websocket.cpp, the read    *)
(* buffer of src/net/connection.cpp and the frame loop of                  *)
(* TcpServer::handle_client_data.                                          *)
(*                                                                         *)
(* The stream is a sequence of numbers.  A line of the HTTP request is one *)
(* number from Base up, the rest are bytes.  The first byte of a frame     *)
(* keeps its real layout; the others are digits to Base (256 in the code), *)
(* so that the three length forms meet their boundaries on short payloads: *)
(* lengths up to Base/2 - 3 (125) stand in the second byte, Base/2 - 2     *)
(* (126) announces two more bytes and Base/2 - 1 (127) announces Wide (8). *)
(*                                                                         *)
(* TCP cuts the stream anywhere: every handler run finds the next n bytes, *)
(* for any n in Chunks, and perhaps the end of the stream behind them.     *)
(***************************************************************************)
EXTENDS Integers, Sequences, SequencesExt, Bitwise

CONSTANTS Base,           \* values of a byte
          Wide,           \* bytes of the widest length field
          MaskLength,     \* bytes of a masking key
          MaxFrame,       \* MAX_FRAME_PAYLOAD
          Chunks,         \* bytes one handler run may find in the socket
          Clients,        \* what a client sends: [lines, frames, hangsUp]
          Throwing        \* payloads of texts whose handler throws

ASSUME FramingAssumption == /\ Base \in Nat /\ Base % 2 = 0 /\ Base > 4
                            /\ {Wide, MaskLength} \subseteq Nat \ {0}
                            /\ MaxFrame \in Nat
                            /\ Chunks \subseteq Nat \ {0}

VARIABLES fClient,        \* the client of this connection
          fWire,          \* bytes it has sent that recv has not returned
          fRead,          \* read_buffer_
          fWrote,         \* bytes appended to the write buffer
          fFrames,        \* frames the loop has taken out of the stream
          fStep,          \* "recv", "handshake", "frames"
          fThrew,         \* the last handler run was cut short by an exception
          fUpgraded, fOpen

fVars == <<fClient, fWire, fRead, fWrote, fFrames, fStep, fThrew, fUpgraded, fOpen>>

Text == 1
Binary == 2
Close == 8
Ping == 9
Pong == 10

GetLine == Base
UpgradeLine == Base + 1
KeyLine == Base + 2
OtherLine == Base + 3
BlankLine == Base + 4
Accepted101 == Base + 5

NeedMore == [kind |-> "NeedMore"]
TooLarge == [kind |-> "TooLarge"]

-----------------------------------------------------------------------------
(* Big-endian numbers. *)
Digits(n, width) == [i \in 1..width |-> (n \div Base^(width - i)) % Base]
Number(bytes) == FoldSeq(LAMBDA b, acc : acc * Base + b, 0, Reverse(bytes))

(* How the payload length is written into and read from the header. *)
LengthField(n) ==
    IF n <= Base \div 2 - 3 THEN <<n>>
    ELSE IF n < Base * Base THEN <<Base \div 2 - 2>> \o Digits(n, 2)
    ELSE <<Base \div 2 - 1>> \o Digits(n, Wide)

LengthBytes(buf) == CASE buf[2] % (Base \div 2) = Base \div 2 - 2 -> 2
                      [] buf[2] % (Base \div 2) = Base \div 2 - 1 -> Wide
                      [] OTHER -> 0
PayloadLength(buf) ==
    IF LengthBytes(buf) = 0 THEN buf[2] % (Base \div 2)
    ELSE Number(SubSeq(buf, 3, 2 + LengthBytes(buf)))

Unmask(bytes, key) ==
    [i \in DOMAIN bytes |-> bytes[i] ^^ key[((i - 1) % Len(key)) + 1]]

(* try_read_frame: the header again, the key, the payload, all or nothing; *)
(* the frame carries how much of the buffer it took.                       *)
try_read_frame(buf) ==
    LET masked == buf[2] >= Base \div 2
        pos == 2 + LengthBytes(buf)
        body == pos + (IF masked THEN MaskLength ELSE 0)
    IN  IF Len(buf) < body + PayloadLength(buf) THEN NeedMore
        ELSE LET raw == SubSeq(buf, body + 1, body + PayloadLength(buf))
             IN  [kind |-> "Frame", opcode |-> buf[1] % 16, fin |-> buf[1] >= 128,
                  payload |-> IF masked
                              THEN Unmask(raw, SubSeq(buf, pos + 1, body))
                              ELSE raw,
                  taken |-> body + PayloadLength(buf)]

(* read_next_frame: the announced length is judged as soon as the header   *)
(* is there, before the payload is waited for.                             *)
read_next_frame(buf) ==
    IF Len(buf) < 2 \/ Len(buf) < 2 + LengthBytes(buf) THEN NeedMore
    ELSE IF PayloadLength(buf) > MaxFrame THEN TooLarge
    ELSE try_read_frame(buf)

consume_read_buffer(buf, n) ==
    IF n >= Len(buf) THEN <<>> ELSE SubSeq(buf, n + 1, Len(buf))

(* write_frame: FIN and the opcode, the length, the payload in the clear. *)
write_frame(opcode, payload) ==
    <<128 + opcode>> \o LengthField(Len(payload)) \o payload

send_close == write_frame(Close, Digits(1000 % (Base * Base), 2))
send_pong(payload) == write_frame(Pong, payload)

(* A browser masks what it sends and fragments nothing. *)
ClientFrame(f) ==
    LET field == LengthField(Len(f.payload))
    IN  <<128 + f.opcode, Base \div 2 + field[1]>> \o Tail(field)
        \o f.key \o Unmask(f.payload, f.key)
ClientStream(c) ==
    c.lines \o FlattenSeq([i \in DOMAIN c.frames |-> ClientFrame(c.frames[i])])

-----------------------------------------------------------------------------
FInit == /\ fClient \in Clients
         /\ fWire = ClientStream(fClient)
         /\ fRead = <<>> /\ fWrote = <<>> /\ fFrames = <<>>
         /\ fStep = "recv"
         /\ fThrew = FALSE /\ fUpgraded = FALSE /\ fOpen = TRUE

(* read_from_socket until it would block: the bytes pile up in the read    *)
(* buffer.  At the end of the stream the connection is closed at once,     *)
(* whatever is in the buffer.                                              *)
read_from_socket(n) ==
    /\ fOpen /\ fStep = "recv" /\ n <= Len(fWire)
    /\ fRead' = fRead \o SubSeq(fWire, 1, n)
    /\ fWire' = SubSeq(fWire, n + 1, Len(fWire))
    /\ \/ fStep' = (IF fUpgraded THEN "frames" ELSE "handshake") /\ UNCHANGED fOpen
       \/ fWire' = <<>> /\ fClient.hangsUp /\ fOpen' = FALSE /\ UNCHANGED fStep
    /\ UNCHANGED <<fClient, fWrote, fFrames, fThrew, fUpgraded>>

(* try_handshake, with parse_http_request: wait for the blank line, demand *)
(* a GET, the upgrade header and a key; answer 101 and keep what follows   *)
(* the request.  A request that fails stays in the buffer.                 *)
HeaderEnd == SelectInSeq(fRead, LAMBDA b : b = BlankLine)
parse_http_request(raw) ==
    IF Len(raw) > 0 /\ raw[1] = GetLine THEN ToSet(Tail(raw)) ELSE {}
HandshakeComplete ==
    /\ HeaderEnd > 0
    /\ {UpgradeLine, KeyLine} \subseteq parse_http_request(SubSeq(fRead, 1, HeaderEnd))

try_handshakeMutant ==
    /\ fOpen /\ fStep = "handshake"
    /\ \/ /\ HandshakeComplete
          /\ fRead' = <<>>
          /\ fWrote' = fWrote \o <<Accepted101>>
          /\ fUpgraded' = TRUE /\ fStep' = "frames"
       \/ /\ ~HandshakeComplete
          /\ fStep' = "recv"
          /\ UNCHANGED <<fRead, fWrote, fUpgraded>>
    /\ UNCHANGED <<fClient, fWire, fFrames, fThrew, fOpen>>
try_handshake ==
    /\ fOpen /\ fStep = "handshake"
    /\ \/ /\ HandshakeComplete
          /\ fRead' = consume_read_buffer(fRead, HeaderEnd)
          /\ fWrote' = fWrote \o <<Accepted101>>
          /\ fUpgraded' = TRUE /\ fStep' = "frames"
       \/ /\ ~HandshakeComplete
          /\ fStep' = "recv"
          /\ UNCHANGED <<fRead, fWrote, fUpgraded>>
    /\ UNCHANGED <<fClient, fWire, fFrames, fThrew, fOpen>>

(* The frame loop: text goes to the router, a ping is answered with its    *)
(* payload, a close is answered and ends the connection, an oversized      *)
(* frame ends it, and the loop stops when a frame is not complete.  An     *)
(* exception out of a handler ends the run at once (the pool's thread      *)
(* catches it): what follows in the buffer is left for the next one.       *)
ReplyTo(frame) == CASE frame.opcode = Ping -> send_pong(frame.payload)
                    [] frame.opcode = Close -> send_close
                    [] OTHER -> <<>>

Throws(frame) == frame.opcode = Text /\ frame.payload \in Throwing

frame_loop ==
    /\ fOpen /\ fStep = "frames"
    /\ LET r == read_next_frame(fRead)
       IN  \/ /\ r = NeedMore
              /\ fStep' = "recv" /\ fThrew' = FALSE
              /\ UNCHANGED <<fRead, fFrames, fWrote, fOpen>>
           \/ /\ r = TooLarge
              /\ fOpen' = FALSE
              /\ UNCHANGED <<fRead, fFrames, fWrote, fStep, fThrew>>
           \/ /\ r.kind = "Frame"
              /\ fRead' = consume_read_buffer(fRead, r.taken)
              /\ fFrames' = Append(fFrames, [opcode |-> r.opcode, payload |-> r.payload])
              /\ fWrote' = fWrote \o ReplyTo(r)
              /\ fOpen' = (r.opcode # Close)
              /\ fThrew' = Throws(r)
              /\ fStep' = IF Throws(r) THEN "recv" ELSE fStep
    /\ UNCHANGED <<fClient, fWire, fUpgraded>>

FNext == \/ \E n \in Chunks : read_from_socket(n)
         \/ try_handshake
         \/ frame_loop

-----------------------------------------------------------------------------
SentFrames == [i \in DOMAIN fClient.frames |->
    [opcode |-> fClient.frames[i].opcode, payload |-> fClient.frames[i].payload]]

(* However TCP cuts the stream, what handle_client_data takes out of it    *)
(* are the frames the client sent, whole, unmasked and in order; and when  *)
(* it waits for more on an open upgraded connection, everything the client *)
(* had sent completely has been taken, also what came with the handshake;  *)
(* unless the handler's last run was cut short by an exception.            *)
FramesArriveWhole ==
    /\ IsPrefix(fFrames, SentFrames)
    /\ (fOpen /\ fUpgraded /\ fStep = "recv" /\ fWire = <<>> /\ ~fThrew => fFrames = SentFrames)

(* The defence of read_next_frame: between two handler runs an upgraded    *)
(* connection buffers less than one frame of the greatest size allowed,    *)
(* whatever length its header announces.                                   *)
ReadBufferBounded ==
    (fOpen /\ fUpgraded /\ fStep = "recv" /\ ~fThrew) =>
        Len(fRead) < 2 + Wide + MaskLength + MaxFrame

(* What write_frame emits, try_read_frame reads back: the answers on the   *)
(* stream are one pong with the same payload for every ping taken and one  *)
(* close for a close, in the order of the requests, for every length form. *)
Owed == SelectSeq(fFrames, LAMBDA f : f.opcode \in {Ping, Close})
RepliesParseBack ==
    LET start == IF fUpgraded THEN 1 ELSE 0
        at[k \in 0..Len(Owed)] ==
            IF k = 0 THEN start
            ELSE LET rest == SubSeq(fWrote, at[k - 1] + 1, Len(fWrote))
                     r == IF Len(rest) < 2 THEN NeedMore ELSE read_next_frame(rest)
                 IN  IF /\ r.kind = "Frame"
                        /\ r.opcode = (IF Owed[k].opcode = Ping THEN Pong ELSE Close)
                        /\ Owed[k].opcode = Ping => r.payload = Owed[k].payload
                     THEN at[k - 1] + r.taken ELSE Len(fWrote) + 1
    IN  at[Len(Owed)] = Len(fWrote)

(* However the bytes are divided, the client's messages are handled whole  *)
(* and in order, out of a bounded buffer, and it can read the replies.     *)
StreamIsServed == FramesArriveWhole /\ ReadBufferBounded /\ RepliesParseBack

=============================================================================
