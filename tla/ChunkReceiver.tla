--------------------------- MODULE ChunkReceiver ---------------------------
(***************************************************************************)
(* RtmpClient::processData and RtmpMessageTransport::recvRtmpMessage: the  *)
(* bytes of the server's chunk stream arrive in TCP segments of any size,  *)
(* are kept in data_cache_, and are parsed over again from the start of    *)
(* the current chunk until the chunk is complete.                          *)
(*                                                                         *)
(* The stream is a sequence of chunks of known size, data_cache_ the       *)
(* number of its bytes that have arrived and are not consumed.  Header     *)
(* sizes are the protocol's; chunk sizes and timestamps are scaled down.   *)
(* The server follows the protocol: it may open a message with any of the  *)
(* four formats, once an earlier message on its chunk stream allows it.    *)
(* When a chunk's format or size is taken for another one, payload bytes   *)
(* are read as a header (or the reverse) and what follows depends on the   *)
(* payload alone; when a media body is shorter than its decoder takes it   *)
(* to be, memory past its end is read.  misread says so, and the behaviour *)
(* stops there.                                                            *)
(***************************************************************************)
EXTENDS Integers, Sequences, FiniteSetsExt

CONSTANTS
    RTMP_DEFAULT_CHUNKSIZE,  \* 128 in the code
    RTMP_EXTENDED_TIMESTAMP, \* 2^24 - 1: the 3-byte field is full
    TimeWord,                \* 2^32; the code keeps the low half of it
    ServerMessages,          \* the messages the server may send
    MaxChunks,               \* chunks the server may cut a message into
    MaxMsgs                  \* bound: messages the server sends

ASSUME ChunkSizeAssumption == RTMP_DEFAULT_CHUNKSIZE \in Nat \ {0}
ASSUME TimeAssumption ==
    /\ RTMP_EXTENDED_TIMESTAMP \in Nat \ {0} /\ TimeWord \in Nat
    /\ 2 * RTMP_EXTENDED_TIMESTAMP <= TimeWord

\* What decode_msg and decode_media_msg tell apart; "command" stands for every
\* message of decode_msg but SetChunkSize, "unknown" for one that neither has a
\* packet for.
Types == {"SetChunkSize", "command", "audio", "video", "unknown"}

\* A SetChunkSize message has 4 bytes and carries the new size as its value.
\* The value of a video message is the kind of its body: body[1] is 0 (a
\* sequence header), 1 (NAL units) or neither (2), or its inner lengths lead
\* past its end (3).
ASSUME ServerAssumption ==
    \A m \in ServerMessages :
       /\ m.type \in Types /\ m.cs \in Nat \ {0, 1}
       /\ m.length \in Nat /\ m.value \in Nat
       /\ m.timestamp \in 0..(TimeWord - 1)
       /\ m.type = "SetChunkSize" => m.length = 4 /\ m.value > 0
       /\ m.type = "command" => m.length > 0
       /\ m.type = "video" => m.value \in 0..3

VARIABLES
    data_cache_,    \* bytes arrived and not consumed
    parsing,        \* the loop of processData is running
    in_chunk_size,
    chunk_cache_,   \* [chunk stream -> RtmpChunkData]
    packets,        \* the packets recvRtmpMessage handed up
    misread,        \* "no", or what was: "format", "size" or "body"
    outSize,        \* the server's chunk size
    wire,           \* chunks it wrote that are not consumed yet
    inflight,       \* bytes of wire that have not arrived
    written,        \* bytes it wrote
    sent,           \* messages it wrote
    previous,       \* [chunk stream -> its last message there]
    due,            \* history: what those with a packet should become
    shortened       \* history: it wrote a chunk with less than a full header

client == <<data_cache_, parsing, in_chunk_size, chunk_cache_, packets, misread>>
server == <<outSize, wire, inflight, written, sent, previous, due, shortened>>
vars   == <<client, server>>

-----------------------------------------------------------------------------
(* The chunk format *)

\* Bytes of the basic header, by chunk stream id.
BaseLength(cs) == IF cs < 64 THEN 1 ELSE IF cs < 320 THEN 2 ELSE 3

\* Bytes of the message header, by format.
HeaderLength(fmt) == <<11, 7, 3, 0>>[fmt + 1]

\* The timestamp field of the message header.
TimeField(ts) ==
    IF ts >= RTMP_EXTENDED_TIMESTAMP THEN RTMP_EXTENDED_TIMESTAMP ELSE ts

ExtendedLength(ts) == IF ts >= RTMP_EXTENDED_TIMESTAMP THEN 4 ELSE 0

WireLength(c) ==
    BaseLength(c.cs) + HeaderLength(c.fmt) + ExtendedLength(c.field) + c.body

\* decode_base_header: (value & 0x03) >> 6 of the first byte.
DecodedFmt(c) == LET value == (c.fmt * 64 + (IF c.cs < 64 THEN c.cs ELSE
                                              IF c.cs < 320 THEN 0 ELSE 1))
                 IN  (value % 4) \div 64

-----------------------------------------------------------------------------
(* The server, and TCP *)

\* What message m should become: the 31 low bits of an extended timestamp.
Expected(m) ==
    [type |-> m.type, length |-> m.length,
     timestamp |-> IF m.timestamp >= RTMP_EXTENDED_TIMESTAMP
                   THEN m.timestamp % (TimeWord \div 2) ELSE m.timestamp]

\* The body of m is shorter than its decoder takes it to be: of an empty audio
\* message it reads data[0] and copies -1 bytes, of a short video message
\* body[1], and inner lengths are followed wherever they lead.
ReadsPast(m) ==
    \/ m.type = "audio" /\ m.length = 0
    \/ m.type = "video" /\ (m.length < 2 \/ m.value = 3)

\* m becomes a packet: not when its type is unknown, nor when it is a video
\* message with another body[1] than 0 or 1.
Yields(m) ==
    m.type # "unknown" /\ ~ReadsPast(m) /\ ~(m.type = "video" /\ m.value = 2)

NumChunks(m) == IF m.length = 0 THEN 1 ELSE (m.length + outSize - 1) \div outSize

\* m may be opened with a header of this format: what the header leaves out is
\* as in the previous message of the chunk stream.
MayOpen(m, fmt) ==
    LET p == previous[m.cs]
    IN  /\ fmt > 0 => p.type # "none" /\ p.timestamp <= m.timestamp
        /\ fmt > 1 => p.length = m.length /\ p.type = m.type
        /\ fmt > 2 => p.field = m.timestamp - p.timestamp

\* Its timestamp field: the time, or how much later m is than the previous one.
Field(m, fmt) ==
    IF fmt = 0 THEN m.timestamp ELSE m.timestamp - previous[m.cs].timestamp

\* Bytes of a header after the first of a message, and of all its chunks.
NextHeader(m, fmt) == BaseLength(m.cs) + ExtendedLength(Field(m, fmt))
TotalLength(m, fmt) ==
    HeaderLength(fmt) + NumChunks(m) * NextHeader(m, fmt) + m.length

\* The chunks of message m, cut at the server's chunk size: the first of format
\* fmt, the others of format 3.  at is where a chunk begins in the stream, order
\* the place its message has in due.
Chunks(m, fmt) ==
    [i \in 1..NumChunks(m) |->
       [ opens |-> i = 1, fmt |-> IF i = 1 THEN fmt ELSE 3,
         cs |-> m.cs, timestamp |-> m.timestamp, field |-> Field(m, fmt),
         length |-> m.length, type |-> m.type, value |-> m.value, size |-> outSize,
         body |-> Min({outSize, m.length - (i - 1) * outSize}),
         at |-> IF i = 1 THEN written
                ELSE written + HeaderLength(fmt)
                       + (i - 1) * (NextHeader(m, fmt) + outSize),
         order |-> Len(due) + 1 ]]

ServerSend(m, fmt) ==
    /\ sent < MaxMsgs
    /\ NumChunks(m) <= MaxChunks /\ MayOpen(m, fmt)
    /\ sent' = sent + 1
    /\ due' = IF Yields(m) THEN Append(due, Expected(m)) ELSE due
    /\ shortened' = (shortened \/ fmt > 0 \/ NumChunks(m) > 1)
    /\ previous' = [previous EXCEPT ![m.cs] =
                      [timestamp |-> m.timestamp, field |-> Field(m, fmt),
                       length |-> m.length, type |-> m.type]]
    /\ wire' = wire \o Chunks(m, fmt)
    /\ written' = written + TotalLength(m, fmt)
    /\ inflight' = inflight + TotalLength(m, fmt)
    /\ outSize' = IF m.type = "SetChunkSize" THEN m.value ELSE outSize
    /\ UNCHANGED client

\* onRecvData with the next n bytes: processData pushes them and starts to
\* parse.
OnRecvData(n) ==
    /\ ~parsing /\ misread = "no" /\ n <= inflight
    /\ data_cache_' = data_cache_ + n /\ inflight' = inflight - n
    /\ parsing' = TRUE
    /\ UNCHANGED <<in_chunk_size, chunk_cache_, packets, misread, outSize, wire,
                   written, sent, previous, due, shortened>>

-----------------------------------------------------------------------------
(* recvRtmpMessage *)

\* Mutant: every timestamp is taken for a delta.
AddsTimestamp(k, c, fmt, first) ==
    [k EXCEPT !.time_delta = TimeField(c.field),
              !.timestamp = (@ + TimeField(c.field)) % TimeWord,
              !.msg_length = c.length, !.msg_type_id = c.type]

\* What the header of c, decoded as one of format fmt, does to the record k of
\* its chunk stream; first says that no payload of the message has been kept
\* yet.  (The check that a header inside a message repeats its length cannot
\* fail here: a conforming server sends no such header.)
ApplyHeader(k, c, fmt, first) ==
    LET field == TimeField(c.field)
    IN  IF fmt <= 2
        THEN [k EXCEPT !.time_delta = field,
                       !.timestamp = IF field >= RTMP_EXTENDED_TIMESTAMP THEN @
                                     ELSE IF fmt = 0 THEN field
                                     ELSE (@ + field) % TimeWord,
                       !.msg_length = IF fmt <= 1 THEN c.length ELSE @,
                       !.msg_type_id = IF fmt <= 1 THEN c.type ELSE @]
        ELSE IF first /\ k.time_delta < RTMP_EXTENDED_TIMESTAMP
        THEN [k EXCEPT !.timestamp = (@ + k.time_delta) % TimeWord]
        ELSE k

\* The 4 bytes of an extended timestamp, of which 31 bits are kept.
ApplyExtended(k, ts) ==
    IF k.time_delta >= RTMP_EXTENDED_TIMESTAMP
    THEN [k EXCEPT !.timestamp = ts % (TimeWord \div 2)] ELSE k

\* do_recv_payload: the bytes of this chunk.
PayloadLength(k) == Min({k.msg_length - k.current, in_chunk_size})

\* They are the last of the message.
Finishes(k) == k.current + PayloadLength(k) = k.msg_length

\* Mutant: the new size is read and forgotten.
ForgetsChunkSize(c) == in_chunk_size

\* on_recv_message: SetChunkSize takes effect, unless it asks for less than
\* the default; the window size and the buffer length change nothing here.
NewChunkSize(c) ==
    IF c.type = "SetChunkSize" /\ c.value >= RTMP_DEFAULT_CHUNKSIZE
    THEN c.value ELSE in_chunk_size

\* The message put together: type and length as recorded, the body c's.
Message(k, c) == [type |-> k.msg_type_id, length |-> k.msg_length, value |-> c.value]

\* decode_msg and decode_media_msg: the packet handed to processData, if there
\* is one.  Its time is the message's; commands and sequence headers drop it.
Decoded(k, c) ==
    IF ~Yields(Message(k, c)) THEN <<>>
    ELSE << [type |-> k.msg_type_id, length |-> k.msg_length,
             timestamp |-> k.timestamp] >>

\* Mutant: the bytes of an incomplete chunk are popped all the same.
PopsIncomplete(cs, k) ==
    /\ parsing' = FALSE
    /\ data_cache_' = 0
    /\ chunk_cache_' = [chunk_cache_ EXCEPT ![cs] = k]
    /\ UNCHANGED <<in_chunk_size, packets, misread, wire>>

\* recvRtmpMessage returned a negative value: processData leaves its loop and
\* the chunk stays in data_cache_.
GiveUp(cs, k) ==
    /\ parsing' = FALSE
    /\ chunk_cache_' = [chunk_cache_ EXCEPT ![cs] = k]
    /\ UNCHANGED <<data_cache_, in_chunk_size, packets, misread, wire>>

\* Mutant: one message for each call of processData.
TakesOne(c, k, size) ==
    /\ data_cache_' = data_cache_ - size
    /\ wire' = Tail(wire)
    /\ packets' = packets \o Decoded(k, c)
    /\ in_chunk_size' = NewChunkSize(c)
    /\ parsing' = FALSE
    /\ UNCHANGED <<chunk_cache_, misread>>

\* The chunk is complete: its size bytes are popped; with the last chunk of the
\* message the packet is handed up.  When size is not what the server wrote
\* the next header is sought in the wrong place.
Take(c, k, size) ==
    LET finish == Finishes(k)
        kept   == [k EXCEPT !.current = IF finish THEN 0 ELSE @ + PayloadLength(k)]
    IN  /\ data_cache_' = data_cache_ - size
        /\ wire' = Tail(wire)
        /\ packets' = IF finish THEN packets \o Decoded(k, c) ELSE packets
        /\ in_chunk_size' = IF finish THEN NewChunkSize(c) ELSE in_chunk_size
        /\ chunk_cache_' = [chunk_cache_ EXCEPT ![c.cs] = kept]
        /\ misread' = IF size = WireLength(c) THEN "no" ELSE "size"
        /\ UNCHANGED parsing

\* The parser reads what is not there.
Misreads(what) ==
    /\ misread' = what
    /\ UNCHANGED <<data_cache_, parsing, in_chunk_size, chunk_cache_, packets, wire>>

\* One turn of the loop in processData with bytes in data_cache_.
RecvRtmpMessage ==
    LET c      == Head(wire)
        fmt    == DecodedFmt(c)
        old    == chunk_cache_[c.cs]
        k      == ApplyHeader(old, c, fmt, old.current <= 0)
        header == BaseLength(c.cs) + HeaderLength(fmt)
        ext    == IF k.time_delta >= RTMP_EXTENDED_TIMESTAMP THEN 4 ELSE 0
        size   == header + ext + PayloadLength(k)
        e      == ApplyExtended(k, c.field)
        past   == Finishes(k) /\ ReadsPast(Message(k, c))
    IN  /\ parsing /\ data_cache_ > 0 /\ wire # <<>> /\ misread = "no"
        /\ \/ /\ data_cache_ < header
              /\ GiveUp(c.cs, old)
           \/ /\ data_cache_ >= header /\ fmt # c.fmt
              /\ Misreads("format")
           \/ /\ data_cache_ >= header /\ fmt = c.fmt /\ data_cache_ < header + ext
              /\ GiveUp(c.cs, k)
           \/ /\ data_cache_ >= header + ext /\ fmt = c.fmt /\ data_cache_ < size
              /\ GiveUp(c.cs, [e EXCEPT !.timestamp =
                                  (@ - e.time_delta + TimeWord) % TimeWord])
           \/ /\ data_cache_ >= size /\ fmt = c.fmt /\ past
              /\ Misreads("body")
           \/ /\ data_cache_ >= size /\ fmt = c.fmt /\ ~past
              /\ Take(c, e, size)
        /\ UNCHANGED <<outSize, inflight, written, sent, previous, due, shortened>>

\* The loop of processData ends with an empty data_cache_.
LoopEnds ==
    /\ parsing /\ data_cache_ = 0 /\ misread = "no"
    /\ parsing' = FALSE
    /\ UNCHANGED <<data_cache_, in_chunk_size, chunk_cache_, packets, misread, server>>

Idle == (misread # "no" \/ (~parsing /\ inflight = 0)) /\ UNCHANGED vars

-----------------------------------------------------------------------------
Init ==
    /\ data_cache_ = 0 /\ parsing = FALSE
    /\ in_chunk_size = RTMP_DEFAULT_CHUNKSIZE
    /\ chunk_cache_ = [cs \in {m.cs : m \in ServerMessages} |->
                         [timestamp |-> 0, time_delta |-> 0, msg_length |-> 0,
                          msg_type_id |-> "none", current |-> 0]]
    /\ packets = <<>> /\ misread = "no"
    /\ outSize = RTMP_DEFAULT_CHUNKSIZE
    /\ wire = <<>> /\ inflight = 0 /\ written = 0
    /\ previous = [cs \in {m.cs : m \in ServerMessages} |->
                     [timestamp |-> 0, field |-> 0, length |-> 0, type |-> "none"]]
    /\ sent = 0 /\ due = <<>> /\ shortened = FALSE

Next ==
    \/ \E m \in ServerMessages, fmt \in 0..3 : ServerSend(m, fmt)
    \/ \E n \in 1..inflight : OnRecvData(n)
    \/ RecvRtmpMessage \/ LoopEnds
    \/ Idle

\* TCP delivers what was written, and the loop of processData runs on.
Fairness ==
    /\ WF_vars(\E n \in 1..inflight : OnRecvData(n))
    /\ WF_vars(RecvRtmpMessage \/ LoopEnds)

Spec == Init /\ [][Next]_vars /\ Fairness

-----------------------------------------------------------------------------
(* Properties *)

\* Types; the bytes cached and in flight are those of the unconsumed chunks.
TypeOK ==
    /\ data_cache_ \in Nat /\ inflight \in Nat
    /\ parsing \in BOOLEAN /\ misread \in {"no", "format", "size", "body"}
    /\ in_chunk_size \in Nat /\ in_chunk_size >= RTMP_DEFAULT_CHUNKSIZE
    /\ \A cs \in DOMAIN chunk_cache_ :
         /\ chunk_cache_[cs].timestamp \in 0..(TimeWord - 1)
         /\ chunk_cache_[cs].current \in 0..chunk_cache_[cs].msg_length
    /\ misread = "no" =>
         data_cache_ + inflight = IF wire = <<>> THEN 0 ELSE written - Head(wire).at

\* However TCP cuts the stream, and however often a chunk is parsed again, the
\* packets handed up are those of the messages sent, in order, each with the
\* type, length and timestamp of its message.
InOrder ==
    /\ Len(packets) <= Len(due)
    /\ \A i \in 1..Len(packets) : packets[i] = due[i]

\* processData never stops with a complete message left in data_cache_, as long
\* as every chunk has a full header: once all bytes have arrived every message
\* has been handed up.
NothingHeldBack ==
    ~parsing /\ inflight = 0 /\ ~shortened =>
        wire = <<>> /\ Len(packets) = Len(due)

\* Together: what recvRtmpMessage hands up is what was sent, all of it and no
\* more, at any cut of the stream.
ReceivedAsSent == InOrder /\ NothingHeldBack

\* The chunk size in force when a chunk is parsed is the one it was written
\* with, from the first chunk after SetChunkSize on, unless the server chose a
\* size below the default, which the client refuses without telling it.
ChunkSizeInStep ==
    wire # <<>> /\ Head(wire).size >= RTMP_DEFAULT_CHUNKSIZE /\ misread = "no" =>
        in_chunk_size = Head(wire).size

\* Every message is consumed, as long as the server writes full headers and no
\* media body that is too short.
AllConsumed == (wire # <<>>) ~> (wire = <<>> \/ shortened \/ misread = "body")

\* The parser loses its place only after the server wrote a chunk of another
\* format than 0, to open a message or to continue it: until then it starts
\* each header at a chunk the server wrote, whatever chunk sizes are agreed or
\* refused.  And it reads past a body only where the server's is too short.
StaysInStep ==
    /\ misread \in {"format", "size"} => shortened
    /\ misread = "body" => wire # <<>> /\ ReadsPast(Head(wire))

\* Together: the parser stays where the server is, in size and in place, until
\* the first chunk without a full header.
InStep == ChunkSizeInStep /\ StaysInStep

=============================================================================
