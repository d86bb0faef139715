---------------------------- MODULE ChunkSender ----------------------------
(***************************************************************************)
(* RtmpMessageTransport::sendRtmpMessage: a message is cut into chunks     *)
(* that are copied one after the other into send_cache_buf, which          *)
(* TcpSocket::writeData hands to uv_write without a copy whenever it is    *)
(* nearly full and at the end of the message.  uv_write sends what the     *)
(* kernel takes at once and keeps a pointer to the rest.                   *)
(*                                                                         *)
(* One step copies one chunk.  The loop thread does nothing else between   *)
(* the steps of one message, so libuv's own writes (Drain) happen only     *)
(* between messages.  The peer is a conforming receiver of chunks.         *)
(***************************************************************************)
EXTENDS Integers, Sequences

CONSTANTS
    CacheSize,      \* RTMP_DEFAULT_CACHE_BUFFER_SIZE, 32768 in the code
    DefaultChunk,   \* RTMP_DEFAULT_CHUNKSIZE, 128 in the code
    ChunkSizes,     \* values of the SetChunkSize messages sent
    Lengths,        \* lengths of the other messages
    Partials,       \* bound: byte counts the kernel may take of a longer write
    MaxMsgs         \* bound: messages sent

ASSUME CacheAssumption ==
    /\ CacheSize \in Nat /\ CacheSize > 16
    /\ DefaultChunk \in Nat \ {0}
ASSUME LoadAssumption ==
    /\ ChunkSizes \subseteq Nat \ {0} /\ Lengths \subseteq Nat \ {0}
    /\ Partials \subseteq Nat /\ MaxMsgs \in Nat

VARIABLES
    out_chunk_size,
    pc,             \* "idle", or "copy" inside do_send_message
    msg,            \* the message being sent
    start,          \* its payload bytes copied so far
    index,          \* bytes in send_cache_buf
    writes,         \* libuv's queue: unsent parts of send_cache_buf
    peer,           \* [size: its chunk size, left: bytes it still expects, ok]
    count, emitted, handed, overruns, clobbered    \* history

vars == <<out_chunk_size, pc, msg, start, index, writes, peer, count, emitted,
          handed, overruns, clobbered>>

-----------------------------------------------------------------------------
RTMP_CHUNK_FMT0_HEADER_MAX_SIZE == 16

\* extended: the timestamp needs the 4 extra bytes.
Messages ==
    [type : {"SetChunkSize"}, length : {4}, extended : {FALSE}, value : ChunkSizes]
      \cup [type : {"other"}, length : Lengths, extended : BOOLEAN, value : {1}]

LeastOf(a, b) == IF a < b THEN a ELSE b

\* RtmpHeader::encode: format 0 for the first chunk, 3 for the others.
HeaderLength(first, extended) ==
    (IF first THEN 12 ELSE 1) + (IF extended THEN 4 ELSE 0)

KernelTakes(n) == {n} \cup {k \in Partials : k < n}

\* uv_write of the first n bytes of send_cache_buf: with nothing queued the
\* kernel takes some of them at once; the rest is queued by reference.
UvWrite(n) ==
    IF writes = <<>>
    THEN \E k \in KernelTakes(n) :
           writes' = IF k = n THEN <<>> ELSE <<[from |-> k, to |-> n]>>
    ELSE writes' = Append(writes, [from |-> 0, to |-> n])

\* What the peer expects of the next chunk: a message header when it has no
\* message in progress, and as much payload as its chunk size allows.
PeerTakes(first, length, body) ==
    LET expected == IF first THEN length ELSE peer.left
    IN  peer' = [peer EXCEPT
                   !.ok = @ /\ (first <=> peer.left = 0)
                            /\ body = LeastOf(expected, peer.size),
                   !.left = expected - body]

-----------------------------------------------------------------------------
Init ==
    /\ out_chunk_size = DefaultChunk
    /\ pc = "idle"
    /\ msg = [type |-> "other", length |-> 0, extended |-> FALSE, value |-> 1]
    /\ start = 0 /\ index = 0 /\ writes = <<>>
    /\ peer = [size |-> DefaultChunk, left |-> 0, ok |-> TRUE]
    /\ count = 0 /\ emitted = 0 /\ handed = 0 /\ overruns = {} /\ clobbered = FALSE

\* Mutant: on_send_message before do_send_message.
SendsWithNewSize(m) ==
    /\ pc = "idle" /\ count < MaxMsgs
    /\ pc' = "copy" /\ msg' = m /\ start' = 0 /\ index' = 0
    /\ count' = count + 1 /\ emitted' = 0 /\ handed' = 0
    /\ out_chunk_size' = IF m.type = "SetChunkSize" THEN m.value ELSE out_chunk_size
    /\ UNCHANGED <<writes, peer, overruns, clobbered>>

\* sendRtmpMessage up to the loop of do_send_message.
SendRtmpMessage(m) ==
    /\ pc = "idle" /\ count < MaxMsgs
    /\ pc' = "copy" /\ msg' = m /\ start' = 0 /\ index' = 0
    /\ count' = count + 1 /\ emitted' = 0 /\ handed' = 0
    /\ UNCHANGED <<out_chunk_size, writes, peer, overruns, clobbered>>

\* Mutant: the cache is flushed at the end of the message only.
NeverFlushed(filled) == FALSE

\* cache_left leaves no room for another header.
FlushNeeded(filled) == CacheSize - filled <= RTMP_CHUNK_FMT0_HEADER_MAX_SIZE

\* One turn of the loop of do_send_message.
CopyChunk ==
    LET first  == start = 0
        header == HeaderLength(first, msg.extended)
        len    == LeastOf(out_chunk_size, msg.length - start)
        filled == index + header + len
    IN  /\ pc = "copy" /\ start < msg.length
        /\ start' = start + len
        /\ emitted' = emitted + header + len
        /\ PeerTakes(first, msg.length, len)
        /\ overruns' = IF filled <= CacheSize THEN overruns
                       ELSE overruns \cup {[emitted |-> emitted + header + len,
                                            past |-> filled - CacheSize,
                                            size |-> out_chunk_size]}
        /\ clobbered' = (clobbered \/ \E i \in 1..Len(writes) :
                            writes[i].from < filled /\ index < writes[i].to)
        /\ IF FlushNeeded(filled)
           THEN UvWrite(filled) /\ index' = 0 /\ handed' = handed + filled
           ELSE index' = filled /\ UNCHANGED <<writes, handed>>
        /\ UNCHANGED <<out_chunk_size, pc, msg, count>>

\* The rest is written, and on_send_message puts a new chunk size in force;
\* a SetChunkSize message that has arrived does so at the peer.
EndMessage ==
    /\ pc = "copy" /\ start = msg.length
    /\ pc' = "idle" /\ index' = 0
    /\ IF index > 0 THEN UvWrite(index) ELSE UNCHANGED writes
    /\ handed' = handed + index
    /\ out_chunk_size' = IF msg.type = "SetChunkSize" THEN msg.value
                                                      ELSE out_chunk_size
    /\ peer' = IF msg.type = "SetChunkSize" THEN [peer EXCEPT !.size = msg.value]
                                             ELSE peer
    /\ UNCHANGED <<msg, start, count, emitted, overruns, clobbered>>

\* libuv writes on when the socket is writable again, k bytes of the head.
Drain(k) ==
    /\ pc = "idle" /\ writes # <<>>
    /\ 0 < k /\ k <= writes[1].to - writes[1].from
    /\ writes' = IF k = writes[1].to - writes[1].from THEN Tail(writes)
                 ELSE [writes EXCEPT ![1].from = @ + k]
    /\ UNCHANGED <<out_chunk_size, pc, msg, start, index, peer, count, emitted,
                   handed, overruns, clobbered>>

Idle == pc = "idle" /\ count = MaxMsgs /\ UNCHANGED vars

Next ==
    \/ \E m \in Messages : SendRtmpMessage(m)
    \/ CopyChunk \/ EndMessage
    \/ writes # <<>> /\ \E k \in KernelTakes(writes[1].to - writes[1].from) : Drain(k)
    \/ Idle

Spec == Init /\ [][Next]_vars

-----------------------------------------------------------------------------
(* Properties *)

\* Types; the queue of libuv holds unsent parts of the cache.
TypeOK ==
    /\ out_chunk_size \in ChunkSizes \cup {DefaultChunk}
    /\ pc \in {"idle", "copy"}
    /\ msg \in [type : {"SetChunkSize", "other"}, length : Nat, extended : BOOLEAN,
               value : ChunkSizes \cup {1}]
    /\ start \in 0..msg.length /\ index \in Nat
    /\ writes \in Seq([from : Nat, to : Nat])
    /\ peer \in [size : ChunkSizes \cup {DefaultChunk}, left : Nat, ok : BOOLEAN]
    /\ count \in Nat /\ emitted \in Nat /\ handed \in Nat
    /\ overruns \subseteq [emitted : Nat, past : Nat, size : Nat] /\ clobbered \in BOOLEAN

\* A conforming receiver cuts the stream where the sender did: the headers
\* have the right format and a new chunk size takes effect on both sides
\* between the same two messages.
PeerInStep == peer.ok

\* Every byte put into the cache for a message is handed to libuv, once.
NothingLeftBehind == pc = "idle" => handed = emitted

\* Together: what is handed to libuv is all of the message, and cut as the peer
\* will cut it.
ChunksInStep == PeerInStep /\ NothingLeftBehind

\* However large the message, the loop writes past the end of send_cache_buf by
\* less than one chunk: the check of cache_left after each chunk keeps room for
\* the next header.
OverrunBounded == \A o \in overruns : o.past < o.size

\* send_cache_buf is overrun only by a message whose chunks, headers included,
\* take more than all of it.
OnlyLargeOverrun == \A o \in overruns : o.emitted > CacheSize

\* Together: how far the cache is overrun, and by what.
OverrunExplained == OverrunBounded /\ OnlyLargeOverrun

\* The comment of do_send_message: when the cache is not enough, send the data;
\* sending it frees the cache for the next chunks.
CacheFree == ~clobbered
=============================================================================
