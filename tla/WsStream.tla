------------------------------ MODULE WsStream ------------------------------
(***************************************************************************)
(* A stream of WebSocket frames, cut by TCP anywhere, as both ends of this *)
(* library read it: WebSocketClient::process, which caches a frame that is *)
(* not complete, and TcpSocketConn::onMessage, which takes each segment    *)
(* for one frame (net/NetCore.cc).  Each end is fed the stream by itself,  *)
(* the client's without masks and the server's with them.                  *)
(*                                                                         *)
(* disorder names the cuts by which an end loses its place in the stream;  *)
(* a header of which a part is missing is read past the end of the data,   *)
(* and the model stops there.                                              *)
(***************************************************************************)
EXTENDS WsFrames

CONSTANTS
  Kinds,        (* The kinds of frame the peer sends, of AllKinds.         *)
  MaxFrames     (* Frames sent.  Bounds the model.                         *)

(* Text, whole or the first frame of several; control frames without and   *)
(* with application data.                                                  *)
AllKinds == {"text", "long", "first", "empty",
             "ping", "ping_data", "pong", "pong_data", "close", "close_reason"}

KindsAssumption == Kinds \subseteq AllKinds
MaxFramesAssumption == MaxFrames \in Nat

VARIABLES
  server,       (* Whether the reader is a server's connection.            *)
  sent,         (* History: kinds of the frames sent.                      *)
  wire,         (* Bytes on their way.                                     *)
  cacheMsg, msgLen,   (* cacheMsg_ and msgLen_ of the client.              *)
  delivered,    (* History: what the user is handed.                       *)
  replies,      (* History: opcodes of the frames answered with.           *)
  closed,       (* The server's connection has been closed.                *)
  disorder

vars == <<server, sent, wire, cacheMsg, msgLen, delivered, replies, closed, disorder>>

Init ==
  /\ server \in BOOLEAN
  /\ sent = << >> /\ wire = << >>
  /\ cacheMsg = << >> /\ msgLen = 0
  /\ delivered = << >> /\ replies = << >>
  /\ closed = FALSE
  /\ disorder = {}

(* What frame number i carries, and its opcode.                            *)
Payload(kind, i) ==
  CASE kind \in {"text", "first"} -> <<i>>
    [] kind = "long" -> <<i, i, i + 1>>
    [] kind \in {"ping_data", "pong_data"} -> <<100 + i>>
    [] kind = "close_reason" -> <<3, 232>>
    [] OTHER -> << >>

Opcode(kind) ==
  CASE kind \in {"ping", "ping_data"} -> PING_FRAME
    [] kind \in {"pong", "pong_data"} -> PONG_FRAME
    [] kind \in {"close", "close_reason"} -> CLOSE_FRAME
    [] OTHER -> TEXT_FRAME

Key == <<1, 2, 4, 8>>

(* A frame of a peer that follows the protocol, masked if it is a client.  *)
PeerFrame(kind, i) ==
  EncodeHeader([eof |-> kind # "first", opcode |-> Opcode(kind), mask |-> server,
                len |-> Len(Payload(kind, i)), key |-> IF server THEN Key ELSE << >>])
  \o (IF server THEN Unmask(Payload(kind, i), Key) ELSE Payload(kind, i))

Send(kind) ==
  /\ Len(sent) < MaxFrames
  /\ \A i \in DOMAIN sent : Opcode(sent[i]) # CLOSE_FRAME
  /\ sent' = Append(sent, kind)
  /\ wire' = wire \o PeerFrame(kind, Len(sent) + 1)
  /\ UNCHANGED <<server, cacheMsg, msgLen, delivered, replies, closed, disorder>>

Drop(s, n) == SubSeq(s, n + 1, Len(s))

(* Whether decode finds in b the header it asks for.                       *)
HasHeader(b) == Len(b) >= 2 /\ Len(b) >= HeaderLen(b)

-----------------------------------------------------------------------------
(* WebSocketClient::process.  p holds what it changes; one step is a turn  *)
(* of its loop over rest, what is left of the segment.                     *)
Cut(p, what) == [p EXCEPT !.disorder = @ \cup {what}, !.rest = << >>]

(* Mutants: all of the segment goes to the cache; a close is not answered. *)
FillCacheWithAll(p) ==
  LET full == p.cache \o p.rest
  IN  IF Len(full) = p.msgLen
      THEN [p EXCEPT !.delivered = Append(@, full), !.cache = << >>, !.msgLen = 0, !.rest = << >>]
      ELSE [p EXCEPT !.cache = full, !.rest = << >>]

TakeCloseSilently(p, d) ==
  CASE d.len = 0 -> [p EXCEPT !.rest = Drop(@, d.hlen)]
    [] d.len > 0 /\ Len(d.dest) < d.len ->
         [p EXCEPT !.cache = d.dest, !.msgLen = d.len, !.rest = << >>]
    [] d.len > 0 /\ Len(d.dest) >= d.len ->
         [p EXCEPT !.delivered = Append(@, SubSeq(d.dest, 1, d.len)), !.rest = Drop(@, d.hlen + d.len)]

FillCache(p) ==
  LET n    == IF p.msgLen - Len(p.cache) < Len(p.rest) THEN p.msgLen - Len(p.cache) ELSE Len(p.rest)
      full == p.cache \o SubSeq(p.rest, 1, n)
  IN  IF Len(full) = p.msgLen
      THEN [p EXCEPT !.delivered = Append(@, full), !.cache = << >>, !.msgLen = 0, !.rest = Drop(@, n)]
      ELSE [p EXCEPT !.cache = full, !.rest = Drop(@, n)]

(* d is what decodeData returned for p.rest.  The opcode of a frame that   *)
(* carries something, and finish, are not looked at.                       *)
TakeFrame(p, d) ==
  CASE d.len = 0 /\ d.opcode = CLOSE_FRAME ->
         [p EXCEPT !.replies = Append(@, CLOSE_FRAME), !.rest = << >>]
    [] d.len = 0 /\ d.opcode # CLOSE_FRAME ->
         [p EXCEPT !.rest = Drop(@, d.hlen)]
    [] d.len > 0 /\ Len(d.dest) < d.len ->
         [p EXCEPT !.cache = d.dest, !.msgLen = d.len, !.rest = << >>,
                   !.disorder = @ \cup (IF d.dest = << >> THEN {"cut_after_header"} ELSE {})]
    [] d.len > 0 /\ Len(d.dest) >= d.len ->
         [p EXCEPT !.delivered = Append(@, SubSeq(d.dest, 1, d.len)),
                   !.rest = Drop(@, d.hlen + d.len)]

ProcessTurn(p) ==
  IF p.cache # << >> THEN FillCache(p)
  ELSE IF ~HasHeader(p.rest) THEN Cut(p, "cut_in_header")
  ELSE TakeFrame(p, DecodeData(p.rest))

RECURSIVE Process(_)
Process(p) == IF p.rest = << >> THEN p ELSE Process(ProcessTurn(p))

ClientOnMessage(n, p) ==
  /\ cacheMsg'  = p.cache
  /\ msgLen'    = p.msgLen
  /\ delivered' = p.delivered
  /\ replies'   = p.replies
  /\ disorder'  = p.disorder
  /\ wire' = Drop(wire, n)
  /\ UNCHANGED <<server, sent, closed>>

OnMessageClient(n) ==
  /\ ~server
  /\ n <= Len(wire)
  /\ "cut_in_header" \notin disorder
  /\ ClientOnMessage(n, Process(
       [cache |-> cacheMsg, msgLen |-> msgLen, delivered |-> delivered, replies |-> replies,
        disorder |-> disorder, rest |-> SubSeq(wire, 1, n)]))

-----------------------------------------------------------------------------
(* TcpSocketConn::onMessage of a connected WebSocket.                      *)
ServerTake(d, n) ==
  /\ wire' = Drop(wire, n)
  /\ CASE d.len = 0 /\ d.opcode = CLOSE_FRAME ->
            replies' = Append(replies, CLOSE_FRAME) /\ closed' = TRUE /\ UNCHANGED delivered
       [] d.len = 0 /\ d.opcode = PING_FRAME ->
            replies' = Append(replies, PONG_FRAME) /\ UNCHANGED <<closed, delivered>>
       [] d.len = 0 /\ d.opcode \notin {CLOSE_FRAME, PING_FRAME} ->
            UNCHANGED <<replies, closed, delivered>>
       [] d.len > 0 ->
            delivered' = Append(delivered, d.dest) /\ UNCHANGED <<replies, closed>>
  /\ disorder' = disorder
       \cup (IF Len(d.dest) < d.len THEN {"cut_in_payload"} ELSE {})
       \cup (IF Len(d.dest) > d.len THEN {"frames_together"} ELSE {})

OnMessageServer(n) ==
  /\ server /\ ~closed
  /\ n <= Len(wire)
  /\ "cut_in_header" \notin disorder
  /\ IF HasHeader(SubSeq(wire, 1, n))
     THEN ServerTake(DecodeData(SubSeq(wire, 1, n)), n)
     ELSE /\ disorder' = disorder \cup {"cut_in_header"}
          /\ wire' = Drop(wire, n)
          /\ UNCHANGED <<replies, closed, delivered>>
  /\ UNCHANGED <<server, sent, cacheMsg, msgLen>>

Next ==
  \/ \E kind \in Kinds : Send(kind)
  \/ \E n \in 1 .. Len(wire) : OnMessageClient(n) \/ OnMessageServer(n)

Spec == Init /\ [][Next]_vars

-----------------------------------------------------------------------------
Disorders == {"cut_in_header", "cut_after_header", "cut_in_payload", "frames_together"}

TypeOK ==
  /\ sent \in Seq(Kinds)
  /\ wire \in Seq(0 .. 255) /\ cacheMsg \in Seq(0 .. 255)
  /\ msgLen \in Nat
  /\ Len(cacheMsg) <= msgLen
  /\ disorder \subseteq Disorders

(* The payloads of the frames that carry something, one by one.            *)
Carried == SelectSeq([i \in DOMAIN sent |-> Payload(sent[i], i)], LAMBDA x : x # << >>)

IsPrefixOf(s, t) == Len(s) <= Len(t) /\ s = SubSeq(t, 1, Len(s))

(* Both ends hand up what the frames carry, each once, whole and in order: *)
(* the client, as long as no header is cut and no payload is cut off       *)
(* before its first byte (process); the server, as long as each segment is *)
(* one frame (onMessage).  Control frames without application data are     *)
(* never in the way; with it, they are handed up among the data.           *)
InOrder == disorder = {} => IsPrefixOf(delivered, Carried)

(* The frames either end answers with: the server's pongs, and the close.  *)
(* A ping or a close that carries something is not answered.               *)
AnswersDue ==
  SelectSeq([i \in DOMAIN sent |->
               CASE sent[i] = "ping" -> IF server THEN PONG_FRAME ELSE 0
                 [] sent[i] = "close" -> CLOSE_FRAME
                 [] OTHER -> 0],
            LAMBDA o : o # 0)

(* Then, once all has arrived, nothing is missing, and the pings and the   *)
(* close without application data have been answered, in order (onMessage, *)
(* process).                                                               *)
NothingMissing ==
  disorder = {} /\ wire = << >> => delivered = Carried /\ replies = AnswersDue
=============================================================================
