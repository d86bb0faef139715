------------------------ MODULE ChunkReceiver_proofs ------------------------
(***************************************************************************)
(* Proofs about ChunkReceiver, for any messages, chunk sizes and segments: *)
(* the parser stays where the server is, in chunk size and in place, until *)
(* the server writes a chunk without a full header, and reads past no body *)
(* but one that is too short; and what it hands up is what was sent, in    *)
(* order, with nothing held back.                                          *)
(***************************************************************************)
EXTENDS ChunkReceiver, TLAPS

-----------------------------------------------------------------------------
(* The inductive invariant *)

Chunk == [opens : BOOLEAN, fmt : 0..3, cs : Nat \ {0, 1}, timestamp : 0..(TimeWord - 1),
          field : 0..(TimeWord - 1), length : Nat, type : Types, value : Nat,
          size : Nat \ {0}, body : Nat, at : Nat, order : Nat \ {0}]

\* The only chunk of a message; Full when its header leaves nothing out.
Whole(c) == c.opens /\ c.length <= c.size
Full(c) == Whole(c) /\ c.fmt = 0

\* What the protocol says of one chunk.
Cut(c) ==
    /\ c.opens => c.body = IF c.length <= c.size THEN c.length ELSE c.size
    /\ ~c.opens => c.fmt = 3
    /\ c.fmt = 0 => c.field = c.timestamp

\* The size of the chunk after c, when c is the first of a message.
SizeAfter(c) ==
    IF Whole(c) /\ c.type = "SetChunkSize" THEN c.value ELSE c.size

\* The client has the size s, unless it has refused it.
Agreed(s) == s >= RTMP_DEFAULT_CHUNKSIZE => in_chunk_size = s

\* The rest of a message follows its first chunk, and sizes change only behind
\* SetChunkSize.
Follows(c, next) ==
    /\ next.size = SizeAfter(c)
    /\ Whole(c) <=> next.opens

WireInv ==
    /\ wire \in Seq(Chunk) /\ outSize \in Nat \ {0} /\ shortened \in BOOLEAN
    /\ \A j \in 1..Len(wire) :
          /\ Cut(wire[j])
          /\ wire[j].type = "SetChunkSize" => wire[j].value > 0
    /\ \A j \in 1..(Len(wire) - 1) : wire[j].opens => Follows(wire[j], wire[j + 1])
    /\ wire # <<>> /\ wire[Len(wire)].opens =>
          Whole(wire[Len(wire)]) /\ outSize = SizeAfter(wire[Len(wire)])
    /\ ~shortened => \A j \in 1..Len(wire) : Full(wire[j])

\* What the client knows: its chunk size, and no part of a message unless the
\* rest of it is next.
ParserInv ==
    /\ misread \in {"no", "format", "size", "body"} /\ parsing \in BOOLEAN
    /\ misread = "body" => parsing
    /\ in_chunk_size \in Nat /\ in_chunk_size >= RTMP_DEFAULT_CHUNKSIZE
    /\ misread = "no" =>
         /\ wire = <<>> => Agreed(outSize)
         /\ wire # <<>> => Agreed(wire[1].size)
         /\ wire = <<>> \/ wire[1].opens =>
              \A cs \in DOMAIN chunk_cache_ : chunk_cache_[cs].current = 0

\* Every chunk stream of the server has its record, at both ends.
Streams == {m.cs : m \in ServerMessages}
Record == [timestamp : 0..(TimeWord - 1), time_delta : Nat, msg_length : Nat,
           msg_type_id : Types \cup {"none"}, current : Nat]
Previous == [timestamp : 0..(TimeWord - 1), field : 0..(TimeWord - 1), length : Nat,
             type : Types \cup {"none"}]
CacheInv ==
    /\ previous \in [Streams -> Previous]
    /\ chunk_cache_ \in [Streams -> Record]
    /\ \A cs \in Streams : chunk_cache_[cs].current <= chunk_cache_[cs].msg_length
    /\ \A j \in 1..Len(wire) : wire[j].cs \in Streams

\* The chunks of the wire lie one behind the other in the stream, and between
\* two calls of processData the cache has not all of a whole message.
PlaceInv ==
    /\ written \in Nat /\ inflight \in Nat /\ data_cache_ \in Nat
    /\ \A j \in 1..(Len(wire) - 1) : wire[j].at + WireLength(wire[j]) = wire[j + 1].at
    /\ wire # <<>> => wire[Len(wire)].at + WireLength(wire[Len(wire)]) = written
    /\ \A j \in 1..Len(wire) : Whole(wire[j]) => wire[j].at + WireLength(wire[j]) <= written
    /\ misread = "no" =>
         /\ wire = <<>> => data_cache_ + inflight = 0
         /\ wire # <<>> => wire[1].at + data_cache_ + inflight = written
    /\ misread = "no" /\ ~parsing /\ wire # <<>> /\ Full(wire[1]) =>
         data_cache_ < WireLength(wire[1])

\* The messages of the wire are those due after the packets handed up.
Packet == [type : Types \cup {"none"}, length : Nat, timestamp : 0..(TimeWord - 1)]
Counted(c) == IF Yields(c) THEN 1 ELSE 0
DueInv ==
    /\ due \in Seq(Packet) /\ packets \in Seq(Packet) /\ InOrder
    /\ \A j \in 1..Len(wire) : Yields(wire[j]) =>
         wire[j].order <= Len(due) /\ due[wire[j].order] = Expected(wire[j])
    /\ \A j \in 1..(Len(wire) - 1) :
         Whole(wire[j]) => wire[j + 1].order = wire[j].order + Counted(wire[j])
    /\ wire # <<>> /\ Whole(wire[Len(wire)]) =>
         Len(due) + 1 = wire[Len(wire)].order + Counted(wire[Len(wire)])
    /\ misread = "no" =>
         /\ wire = <<>> => Len(packets) = Len(due)
         /\ wire # <<>> /\ wire[1].opens => wire[1].order = Len(packets) + 1

IInv == WireInv /\ ParserInv /\ CacheInv /\ PlaceInv /\ DueInv /\ StaysInStep

-----------------------------------------------------------------------------
(* Chunks *)

\* decode_base_header finds format 0 in every first byte.
LEMMA FormatLost == ASSUME NEW c \in Chunk PROVE DecodedFmt(c) = 0
<1> DEFINE value == c.fmt * 64 + (IF c.cs < 64 THEN c.cs ELSE IF c.cs < 320 THEN 0 ELSE 1)
<1>1. value \in Nat
  BY DEF Chunk
<1>2. value % 4 \in 0..3
  BY <1>1
<1>3. \A v \in 0..3 : v \div 64 = 0
  OBVIOUS
<1> QED  BY <1>2, <1>3 DEF DecodedFmt

\* The lesser of two.
LEMMA MinIs ==
    ASSUME NEW a \in Int, NEW b \in Int
    PROVE  Min({a, b}) = IF a <= b THEN a ELSE b
BY DEF Min

\* No number lies between one and more than one.
LEMMA OneOrMore == \A x \in Nat \ {0} : x > 1 \/ x = 1
OBVIOUS

\* What Expected makes of a message, or of one of its chunks.
LEMMA ExpectedIs ==
    ASSUME NEW m, m.type \in Types, m.length \in Nat, m.timestamp \in 0..(TimeWord - 1)
    PROVE  /\ Expected(m) \in Packet
           /\ Expected(m).type = m.type /\ Expected(m).length = m.length
           /\ Expected(m).timestamp = IF m.timestamp >= RTMP_EXTENDED_TIMESTAMP
                                      THEN m.timestamp % (TimeWord \div 2) ELSE m.timestamp
<1> DEFINE half == TimeWord \div 2
<1>1. half \in Nat \ {0} /\ half <= TimeWord
  BY TimeAssumption
<1> HIDE DEF half
<1>2. m.timestamp % half \in 0..(half - 1)
  BY <1>1
<1>3. m.timestamp % half \in 0..(TimeWord - 1)
  BY <1>1, <1>2, TimeAssumption
<1>4. m.timestamp % (TimeWord \div 2) \in 0..(TimeWord - 1)
  BY <1>3 DEF half
<1> QED  BY <1>4 DEF Expected, Packet

\* The lengths of headers.
LEMMA HeadersAre ==
    /\ HeaderLength(3) = 0 /\ \A fmt \in 0..3 : HeaderLength(fmt) \in Nat
    /\ \A cs : BaseLength(cs) \in Nat /\ BaseLength(cs) > 0
    /\ \A ts : ExtendedLength(ts) \in Nat
<1>1. HeaderLength(0) = 11 /\ HeaderLength(1) = 7 /\ HeaderLength(2) = 3 /\ HeaderLength(3) = 0
  BY DEF HeaderLength
<1>2. \A fmt \in 0..3 : fmt = 0 \/ fmt = 1 \/ fmt = 2 \/ fmt = 3
  OBVIOUS
<1>3. \A fmt \in 0..3 : HeaderLength(fmt) \in Nat
  <2>1. ASSUME NEW fmt \in 0..3 PROVE HeaderLength(fmt) \in Nat
    BY <1>1, <1>2
  <2> QED  BY <2>1
<1> QED  BY <1>1, <1>3 DEF BaseLength, ExtendedLength

\* A message takes one chunk exactly when it fits in one, and its chunks but the
\* last are full.
LEMMA OneChunk ==
    ASSUME NEW length \in Nat \ {0}, NEW size \in Nat \ {0}
    PROVE  LET n == (length + size - 1) \div size
           IN  /\ n \in Nat \ {0} /\ (n = 1 <=> length <= size)
               /\ (n - 1) * size < length /\ length <= n * size
<1> DEFINE q == (length + size - 1) \div size
           r == (length + size - 1) % size
<1>1. q \in Int /\ r \in 0..(size - 1) /\ length + size - 1 = size * q + r
  OBVIOUS
<1> HIDE DEF q, r
<1>2. q # 1 /\ q \in Nat \ {0} => size * q >= 2 * size
  BY <1>1
<1>3. q <= 0 => size * q <= 0
  BY <1>1
<1>4. q = 1 => size * q = size
  OBVIOUS
<1>5. q \in Nat \ {0} /\ (q = 1 <=> length <= size)
  BY <1>1, <1>2, <1>3, <1>4
<1>6. size * q = q * size /\ (q - 1) * size = q * size - size /\ q * size \in Int
  BY <1>1
<1>7. (q - 1) * size < length /\ length <= q * size
  BY <1>1, <1>6
<1> QED  BY <1>5, <1>7 DEF q

\* The i-th of n chunks of a message has size bytes, or the rest.
LEMMA BodyIs ==
    ASSUME NEW length \in Nat, NEW size \in Nat \ {0}, NEW n \in Nat \ {0}, NEW i \in 1..n,
           (n - 1) * size <= length, length <= n * size
    PROVE  Min({size, length - (i - 1) * size})
             = IF i = n THEN length - (n - 1) * size ELSE size
<1>1. i = n \/ i <= n - 1
  OBVIOUS
<1> DEFINE x == (i - 1) * size
           y == (n - 1) * size
<1>2. x \in Int /\ y \in Int /\ n * size = y + size
  OBVIOUS
<1>3. i <= n - 1 => x + size <= y
  <2>1. i <= n - 1 => i * size <= (n - 1) * size
    OBVIOUS
  <2>2. i * size = x + size
    OBVIOUS
  <2> QED  BY <2>1, <2>2
<1>4. i = n => x = y
  OBVIOUS
<1> HIDE DEF x, y
<1>5. y <= length /\ length <= y + size
  BY <1>2 DEF y
<1>6. Min({size, length - x}) = IF i = n THEN length - y ELSE size
  <2>1. length - x \in Int
    BY <1>2
  <2>2. Min({size, length - x}) = IF size <= length - x THEN size ELSE length - x
    BY <2>1, MinIs
  <2>3. i = n => (length - x <= size /\ length - x = length - y)
    BY <1>2, <1>4, <1>5
  <2>4. i <= n - 1 => size <= length - x
    BY <1>2, <1>3, <1>5
  <2>5. i <= n - 1 => i # n
    OBVIOUS
  <2> QED  BY <1>1, <1>2, <2>2, <2>3, <2>4, <2>5
<1> QED  BY <1>6 DEF x, y

\* How the server cuts a message: what its chunks carry, where they lie in the
\* stream, and how many bytes they have together.
LEMMA ChunksAre ==
    ASSUME WireInv, CacheInv, PlaceInv, DueInv, NEW m \in ServerMessages, NEW fmt \in 0..3,
           MayOpen(m, fmt)
    PROVE  /\ Chunks(m, fmt) \in Seq(Chunk) /\ Len(Chunks(m, fmt)) \in Nat \ {0}
           /\ Len(Chunks(m, fmt)) = NumChunks(m)
           /\ Len(Chunks(m, fmt)) = 1 <=> m.length <= outSize
           /\ \A j \in 1..Len(Chunks(m, fmt)) :
                 /\ Chunks(m, fmt)[j].opens = (j = 1)
                 /\ Chunks(m, fmt)[j].fmt = (IF j = 1 THEN fmt ELSE 3)
                 /\ Chunks(m, fmt)[j].cs = m.cs /\ Chunks(m, fmt)[j].size = outSize
                 /\ Chunks(m, fmt)[j].type = m.type /\ Chunks(m, fmt)[j].value = m.value
                 /\ Chunks(m, fmt)[j].length = m.length
                 /\ Chunks(m, fmt)[j].timestamp = m.timestamp
                 /\ Chunks(m, fmt)[j].field = Field(m, fmt)
                 /\ Chunks(m, fmt)[j].order = Len(due) + 1
                 /\ Cut(Chunks(m, fmt)[j])
           /\ TotalLength(m, fmt) \in Nat /\ Chunks(m, fmt)[1].at = written
           /\ \A j \in 1..(Len(Chunks(m, fmt)) - 1) :
                 Chunks(m, fmt)[j].at + WireLength(Chunks(m, fmt)[j]) = Chunks(m, fmt)[j + 1].at
           /\ Chunks(m, fmt)[Len(Chunks(m, fmt))].at + WireLength(Chunks(m, fmt)[Len(Chunks(m, fmt))])
                = written + TotalLength(m, fmt)
<1> DEFINE n == NumChunks(m)
           body(j) == Min({outSize, m.length - (j - 1) * outSize})
           at(j) == IF j = 1 THEN written
                    ELSE written + HeaderLength(fmt)
                           + (j - 1) * (NextHeader(m, fmt) + outSize)
           field == Field(m, fmt)
           cut(j) == [ opens |-> j = 1, fmt |-> IF j = 1 THEN fmt ELSE 3,
                       cs |-> m.cs, timestamp |-> m.timestamp, field |-> field,
                       length |-> m.length, type |-> m.type, value |-> m.value, size |-> outSize,
                       body |-> body(j), at |-> at(j), order |-> Len(due) + 1 ]
           last == m.length - (n - 1) * outSize
           next == NextHeader(m, fmt)
           head == HeaderLength(fmt)
<1>1. /\ m.type \in Types /\ m.cs \in Nat \ {0, 1} /\ m.length \in Nat /\ m.value \in Nat
      /\ m.timestamp \in 0..(TimeWord - 1) /\ outSize \in Nat \ {0} /\ written \in Nat
      /\ Len(due) + 1 \in Nat \ {0}
  BY ServerAssumption DEF WireInv, PlaceInv, DueInv
<1>h. head \in Nat
  BY HeadersAre
<1>f. field \in 0..(TimeWord - 1) /\ (fmt = 0 => field = m.timestamp)
  <2>1. CASE fmt = 0
    BY <1>1, <2>1 DEF Field
  <2>2. CASE fmt # 0
    <3> DEFINE before == previous[m.cs].timestamp
    <3>1. m.cs \in Streams /\ previous \in [Streams -> Previous]
      BY DEF Streams, CacheInv
    <3>2. previous[m.cs] \in Previous
      BY <3>1
    <3>3. before \in 0..(TimeWord - 1)
      BY <3>2 DEF Previous
    <3>4. fmt > 0
      BY <2>2
    <3>5. before <= m.timestamp
      BY <3>4 DEF MayOpen
    <3>6. field = m.timestamp - before
      BY <2>2 DEF Field
    <3> HIDE DEF before, field
    <3> QED  BY <1>1, <2>2, <3>3, <3>5, <3>6, TimeAssumption
  <2> QED  BY <2>1, <2>2
<1>2. /\ n \in Nat \ {0} /\ (n = 1 <=> m.length <= outSize)
      /\ (n - 1) * outSize <= m.length /\ m.length <= n * outSize
  <2>1. CASE m.length = 0
    <3>1. n = 1
      BY <2>1 DEF NumChunks
    <3> HIDE DEF n
    <3> QED  BY <1>1, <2>1, <3>1
  <2>2. CASE m.length # 0
    <3>1. m.length \in Nat \ {0}
      BY <1>1, <2>2
    <3>2. n = (m.length + outSize - 1) \div outSize
      BY <2>2 DEF NumChunks
    <3> HIDE DEF n
    <3>3. (n - 1) * outSize < m.length /\ m.length <= n * outSize
      BY <1>1, <3>1, <3>2, OneChunk
    <3>4. n \in Nat \ {0} /\ (n = 1 <=> m.length <= outSize)
      BY <1>1, <3>1, <3>2, OneChunk
    <3>5. (n - 1) * outSize \in Int
      BY <1>1, <3>4
    <3>6. (n - 1) * outSize <= m.length
      BY <1>1, <3>3, <3>5
    <3> QED  BY <3>3, <3>4, <3>6
  <2> QED  BY <2>1, <2>2
<1>3. Chunks(m, fmt) = [j \in 1..n |-> cut(j)]
  BY DEF Chunks
<1> HIDE DEF n
<1>4. next \in Nat /\ next = BaseLength(m.cs) + ExtendedLength(field)
  BY HeadersAre DEF NextHeader
<1>5. last \in Nat /\ m.length = (n - 1) * outSize + last
  <2>1. (n - 1) * outSize \in Int
    BY <1>1, <1>2
  <2> QED  BY <1>1, <1>2, <2>1
<1>6. ASSUME NEW j \in 1..n PROVE body(j) = IF j = n THEN last ELSE outSize
  <2> DEFINE L == m.length
             s == outSize
             q == n
  <2>1. L \in Nat /\ s \in Nat \ {0}
    BY <1>1
  <2>2. q \in Nat \ {0} /\ j \in 1..q
    BY <1>2
  <2>3. (q - 1) * s <= L /\ L <= q * s
    BY <1>2
  <2> HIDE DEF L, s, q
  <2>4. Min({s, L - (j - 1) * s}) = IF j = q THEN L - (q - 1) * s ELSE s
    BY <2>1, <2>2, <2>3, BodyIs
  <2> QED  BY <2>4 DEF L, s, q
<1> HIDE DEF body, last, next, head, field
<1>7. ASSUME NEW j \in 1..n PROVE body(j) \in Nat
  BY <1>1, <1>5, <1>6
<1>8. ASSUME NEW j \in 1..n PROVE at(j) \in Nat
  <2> DEFINE i == j - 1
             step == next + outSize
  <2>a. i \in Nat /\ step \in Nat
    BY <1>1, <1>2, <1>4
  <2> HIDE DEF i, step
  <2>b. i * step \in Nat
    BY <2>a
  <2>1. (j - 1) * (next + outSize) \in Nat
    BY <2>b DEF i, step
  <2>2. at(j) = IF j = 1 THEN written ELSE written + head + (j - 1) * (next + outSize)
    BY DEF next, head
  <2> HIDE DEF at
  <2> QED  BY <1>1, <1>h, <2>1, <2>2
<1>9. body(1) = IF m.length <= outSize THEN m.length ELSE outSize
  <2>1. m.length - (1 - 1) * outSize = m.length
    BY <1>1
  <2>2. body(1) = Min({outSize, m.length})
    BY <2>1, Zenon DEF body
  <2> QED  BY <1>1, <2>2, MinIs
<1>10. Len(Chunks(m, fmt)) = n /\ \A j \in 1..n : Chunks(m, fmt)[j] = cut(j)
  BY <1>2, <1>3
<1>11. ASSUME NEW j \in 1..n PROVE cut(j) \in Chunk
  <2>1. body(j) \in Nat /\ at(j) \in Nat
    BY <1>7, <1>8
  <2>2. (j = 1) \in BOOLEAN
    OBVIOUS
  <2>3. (IF j = 1 THEN fmt ELSE 3) \in 0..3
    OBVIOUS
  <2> DEFINE opens == j = 1
             f == IF j = 1 THEN fmt ELSE 3
  <2> HIDE DEF at, opens, f
  <2>4. cut(j) = [ opens |-> opens, fmt |-> f,
                   cs |-> m.cs, timestamp |-> m.timestamp, field |-> field,
                   length |-> m.length, type |-> m.type, value |-> m.value, size |-> outSize,
                   body |-> body(j), at |-> at(j), order |-> Len(due) + 1 ]
    BY DEF opens, f
  <2>5. opens \in BOOLEAN
    BY <2>2 DEF opens
  <2>6. f \in 0..3
    BY <2>3 DEF f
  <2> HIDE DEF cut
  <2> QED  BY <1>1, <1>f, <2>1, <2>4, <2>5, <2>6 DEF Chunk
<1>12. Chunks(m, fmt) \in Seq(Chunk)
  <2> HIDE DEF cut
  <2> QED  BY <1>2, <1>3, <1>11
<1>13. \A j \in 1..n : Cut(cut(j))
  <2>1. ASSUME NEW j \in 1..n PROVE Cut(cut(j))
    <3>1. CASE j = 1
      <4>1. /\ cut(j).opens /\ cut(j).fmt = fmt /\ cut(j).field = field
            /\ cut(j).timestamp = m.timestamp /\ cut(j).body = body(1)
            /\ cut(j).length = m.length /\ cut(j).size = outSize
        BY <3>1
      <4> HIDE DEF cut
      <4>2. cut(j).body = IF cut(j).length <= cut(j).size THEN cut(j).length ELSE cut(j).size
        BY <1>9, <4>1
      <4>3. cut(j).fmt = 0 => cut(j).field = cut(j).timestamp
        BY <1>f, <4>1
      <4> QED  BY <4>1, <4>2, <4>3, Zenon DEF Cut
    <3>2. CASE j # 1
      <4>1. ~cut(j).opens /\ cut(j).fmt = 3
        BY <3>2
      <4> HIDE DEF cut
      <4> QED  BY <4>1 DEF Cut
    <3> QED  BY <3>1, <3>2
  <2> QED  BY <2>1
<1>14. ASSUME NEW j \in 1..n
       PROVE  WireLength(cut(j)) = (IF j = 1 THEN head ELSE 0) + next
                                     + (IF j = n THEN last ELSE outSize)
  <2>1. WireLength(cut(j)) = BaseLength(m.cs) + (IF j = 1 THEN head ELSE 0)
                               + ExtendedLength(field) + body(j)
    <3>1. HeaderLength(IF j = 1 THEN fmt ELSE 3) = IF j = 1 THEN head ELSE 0
      BY HeadersAre DEF head
    <3> QED  BY <3>1 DEF WireLength
  <2>2. body(j) = IF j = n THEN last ELSE outSize
    BY <1>6
  <2>3. body(j) \in Nat
    BY <1>7
  <2> QED  BY <1>4, <1>h, <2>1, <2>2, <2>3, HeadersAre
<1>15. ASSUME NEW j \in 1..n
       PROVE  at(j) = written + (IF j = 1 THEN 0 ELSE head) + (j - 1) * (next + outSize)
  <2>1. CASE j = 1
    <3>1. at(j) = written /\ (j - 1) * (next + outSize) = 0
      BY <1>1, <1>4, <2>1
    <3> QED  BY <1>1, <2>1, <3>1
  <2>2. CASE j # 1
    <3>1. at(j) = written + head + (j - 1) * (next + outSize)
      BY <2>2 DEF next, head
    <3> QED  BY <1>1, <2>2, <3>1
  <2> QED  BY <2>1, <2>2
<1> HIDE DEF cut, at
<1>16. ASSUME NEW j \in 1..(n - 1)
       PROVE  at(j) + WireLength(cut(j)) = at(j + 1)
  <2>1. j \in 1..n /\ j + 1 \in 1..n /\ j # n /\ j + 1 # 1 /\ (j + 1) - 1 = j
    BY <1>2
  <2>2. WireLength(cut(j)) = (IF j = 1 THEN head ELSE 0) + next + outSize
    BY <1>14, <2>1
  <2>3. at(j) = written + (IF j = 1 THEN 0 ELSE head) + (j - 1) * (next + outSize)
    BY <1>15, <2>1
  <2>4. at(j + 1) = written + head + j * (next + outSize)
    BY <1>15, <2>1
  <2> DEFINE x == (j - 1) * (next + outSize)
             z == j * (next + outSize)
             w == WireLength(cut(j))
  <2>5. x \in Int /\ z = x + next + outSize
    BY <1>1, <1>4, <2>1
  <2>6. at(j) = written + (IF j = 1 THEN 0 ELSE head) + x /\ at(j + 1) = written + head + z
    BY <2>3, <2>4
  <2> HIDE DEF x, z
  <2>7. w = (IF j = 1 THEN head ELSE 0) + next + outSize
    BY <2>2
  <2> HIDE DEF w
  <2>8. at(j) + w = at(j + 1)
    <3>1. next \in Nat /\ outSize \in Nat /\ written \in Nat /\ head \in Nat
      BY <1>1, <1>4, <1>h
    <3>2. CASE j = 1
      <4>1. at(j) = written + x /\ w = head + next + outSize
        BY <2>5, <2>6, <2>7, <3>1, <3>2
      <4> QED  BY <2>5, <2>6, <3>1, <4>1
    <3>3. CASE j # 1
      <4>1. at(j) = written + head + x /\ w = next + outSize
        BY <2>5, <2>6, <2>7, <3>1, <3>3
      <4> QED  BY <2>5, <2>6, <3>1, <4>1
    <3> QED  BY <3>2, <3>3
  <2> QED  BY <2>8 DEF w
<1>17. at(n) + WireLength(cut(n)) = written + TotalLength(m, fmt) /\ TotalLength(m, fmt) \in Nat
  <2>1. n \in 1..n
    BY <1>2
  <2>2. WireLength(cut(n)) = (IF n = 1 THEN head ELSE 0) + next + last
    BY <1>14, <2>1
  <2>3. at(n) = written + (IF n = 1 THEN 0 ELSE head) + (n - 1) * (next + outSize)
    BY <1>15, <2>1
  <2> DEFINE x == (n - 1) * next
             y == (n - 1) * outSize
             w == WireLength(cut(n))
  <2>4. x \in Int /\ y \in Int /\ (n - 1) * (next + outSize) = x + y /\ n * next = x + next
    <3>1. n - 1 \in Int /\ next \in Int /\ outSize \in Int
      BY <1>1, <1>2, <1>4
    <3>2. x \in Int
      BY <3>1
    <3>3. y \in Int
      BY <3>1
    <3>4. (n - 1) * (next + outSize) = x + y
      BY <3>1
    <3>5. n * next = x + next
      BY <1>2, <1>4
    <3> QED  BY <3>2, <3>3, <3>4, <3>5
  <2>5. TotalLength(m, fmt) = head + n * next + m.length
    BY DEF TotalLength, next, n, head
  <2>6. m.length = y + last
    BY <1>5
  <2>7. n * next \in Nat
    BY <1>2, <1>4
  <2> HIDE DEF x, y
  <2>8. TotalLength(m, fmt) \in Nat
    BY <1>1, <1>h, <2>5, <2>7
  <2>9. TotalLength(m, fmt) = head + x + next + y + last
    BY <1>4, <1>5, <1>h, <2>4, <2>5, <2>6
  <2>10. at(n) = written + (IF n = 1 THEN 0 ELSE head) + x + y
    BY <1>1, <1>h, <2>3, <2>4
  <2>11. w = (IF n = 1 THEN head ELSE 0) + next + last
    BY <2>2
  <2> HIDE DEF w
  <2>12. at(n) + w = written + TotalLength(m, fmt)
    <3>1. /\ next \in Nat /\ last \in Nat /\ written \in Nat /\ x \in Int /\ y \in Int
          /\ head \in Nat
      BY <1>1, <1>4, <1>5, <1>h, <2>4
    <3>2. CASE n = 1
      <4>1. at(n) = written + x + y /\ w = head + next + last
        BY <2>10, <2>11, <3>1, <3>2
      <4> QED  BY <2>9, <3>1, <4>1
    <3>3. CASE n # 1
      <4>1. at(n) = written + head + x + y /\ w = next + last
        BY <2>10, <2>11, <3>1, <3>3
      <4> QED  BY <2>9, <3>1, <4>1
    <3> QED  BY <3>2, <3>3
  <2> QED  BY <2>8, <2>12 DEF w
<1>18. \A j \in 1..n : Chunks(m, fmt)[j].at = at(j) /\ WireLength(Chunks(m, fmt)[j]) = WireLength(cut(j))
  BY <1>10 DEF cut
<1>19. at(1) = written /\ 1 \in 1..n /\ n \in 1..n
  BY <1>2 DEF at
<1>20. \A j \in 1..(n - 1) :
          Chunks(m, fmt)[j].at + WireLength(Chunks(m, fmt)[j]) = Chunks(m, fmt)[j + 1].at
  <2>1. ASSUME NEW j \in 1..(n - 1)
        PROVE  Chunks(m, fmt)[j].at + WireLength(Chunks(m, fmt)[j]) = Chunks(m, fmt)[j + 1].at
    <3>1. j \in 1..n /\ j + 1 \in 1..n
      BY <1>2
    <3> QED  BY <1>16, <1>18, <3>1
  <2> QED  BY <2>1
<1>21. Chunks(m, fmt)[n].at + WireLength(Chunks(m, fmt)[n]) = written + TotalLength(m, fmt)
  BY <1>17, <1>18, <1>19
<1>22. \A j \in 1..n :
          /\ Chunks(m, fmt)[j].opens = (j = 1)
          /\ Chunks(m, fmt)[j].fmt = (IF j = 1 THEN fmt ELSE 3)
          /\ Chunks(m, fmt)[j].cs = m.cs /\ Chunks(m, fmt)[j].size = outSize
          /\ Chunks(m, fmt)[j].type = m.type /\ Chunks(m, fmt)[j].value = m.value
          /\ Chunks(m, fmt)[j].length = m.length
          /\ Chunks(m, fmt)[j].timestamp = m.timestamp
          /\ Chunks(m, fmt)[j].field = Field(m, fmt)
          /\ Chunks(m, fmt)[j].order = Len(due) + 1
          /\ Cut(Chunks(m, fmt)[j])
  BY <1>10, <1>13 DEF cut, field
<1>23. Len(Chunks(m, fmt)) = n /\ n = NumChunks(m)
  BY <1>10 DEF n
<1>24. Chunks(m, fmt)[1].at = written
  BY <1>18, <1>19
<1> QED  BY <1>2, <1>12, <1>17, <1>20, <1>21, <1>22, <1>23, <1>24

\* Every chunk has bytes.
LEMMA ChunkHasBytes ==
    ASSUME NEW c \in Chunk
    PROVE  WireLength(c) \in Nat /\ WireLength(c) > 0
<1>1. HeaderLength(c.fmt) \in Nat /\ c.body \in Nat
  BY HeadersAre DEF Chunk
<1>2. BaseLength(c.cs) \in Nat /\ BaseLength(c.cs) > 0 /\ ExtendedLength(c.field) \in Nat
  BY HeadersAre
<1> QED  BY <1>1, <1>2 DEF WireLength

-----------------------------------------------------------------------------
(* The steps *)

\* A new client and a new server.
THEOREM Initially == Init => IInv
<1> SUFFICES ASSUME Init PROVE IInv
  OBVIOUS
<1>w. wire = <<>> /\ Len(wire) = 0
  BY DEF Init
<1>1. WireInv
  <2>1. wire \in Seq(Chunk)
    BY <1>w
  <2>2. outSize \in Nat \ {0} /\ shortened \in BOOLEAN
    BY ChunkSizeAssumption DEF Init
  <2> QED  BY <1>w, <2>1, <2>2 DEF WireInv
<1>2. ParserInv
  <2>1. /\ misread = "no" /\ parsing = FALSE /\ in_chunk_size = RTMP_DEFAULT_CHUNKSIZE
        /\ outSize = RTMP_DEFAULT_CHUNKSIZE
    BY DEF Init
  <2>2. \A cs \in DOMAIN chunk_cache_ : chunk_cache_[cs].current = 0
    BY DEF Init
  <2>3. RTMP_DEFAULT_CHUNKSIZE \in Nat /\ RTMP_DEFAULT_CHUNKSIZE >= RTMP_DEFAULT_CHUNKSIZE
    BY ChunkSizeAssumption
  <2> QED  BY <1>w, <2>1, <2>2, <2>3 DEF ParserInv, Agreed
<1>3. CacheInv
  <2> DEFINE new == [timestamp |-> 0, time_delta |-> 0, msg_length |-> 0,
                     msg_type_id |-> "none", current |-> 0]
  <2>1. chunk_cache_ = [cs \in Streams |-> new]
    BY DEF Init, Streams
  <2>2. new \in Record
    BY TimeAssumption DEF Record
  <2>3. chunk_cache_ \in [Streams -> Record]
    BY <2>1, <2>2
  <2>4. \A cs \in Streams : chunk_cache_[cs].current <= chunk_cache_[cs].msg_length
    BY <2>1
  <2> DEFINE none == [timestamp |-> 0, field |-> 0, length |-> 0, type |-> "none"]
  <2>5. previous = [cs \in Streams |-> none]
    BY DEF Init, Streams
  <2>6. none \in Previous
    BY TimeAssumption DEF Previous
  <2>7. previous \in [Streams -> Previous]
    BY <2>5, <2>6
  <2> QED  BY <1>w, <2>3, <2>4, <2>7 DEF CacheInv
<1>4. PlaceInv
  BY <1>w DEF Init, PlaceInv
<1>5. DueInv
  <2>1. due = <<>> /\ packets = <<>> /\ Len(due) = 0 /\ Len(packets) = 0
    BY DEF Init
  <2>2. due \in Seq(Packet) /\ packets \in Seq(Packet)
    BY <2>1
  <2>3. InOrder
    BY <2>1 DEF InOrder
  <2> QED  BY <1>w, <2>1, <2>2, <2>3 DEF DueInv
<1> QED  BY <1>1, <1>2, <1>3, <1>4, <1>5 DEF IInv, StaysInStep, Init

\* The server appends a message, cut at its chunk size.
LEMMA ServerSendKeeps ==
    ASSUME IInv, NEW m \in ServerMessages, NEW fmt \in 0..3, ServerSend(m, fmt)
    PROVE  IInv'
<1> DEFINE n == Len(wire)
           l == Len(Chunks(m, fmt))
<1> USE DEF IInv
<1>0. MayOpen(m, fmt) /\ WireInv /\ CacheInv /\ PlaceInv /\ DueInv
  BY DEF ServerSend
<1>1. /\ wire \in Seq(Chunk) /\ n \in Nat /\ Chunks(m, fmt) \in Seq(Chunk) /\ l \in Nat \ {0}
      /\ l = 1 <=> m.length <= outSize
      /\ outSize \in Nat \ {0} /\ shortened \in BOOLEAN
  <2>2. Chunks(m, fmt) \in Seq(Chunk) /\ l \in Nat \ {0} /\ (l = 1 <=> m.length <= outSize)
    BY <1>0, ChunksAre
  <2> QED  BY <2>2 DEF WireInv
<1>2. \A j \in 1..l :
         /\ Chunks(m, fmt)[j].opens = (j = 1)
         /\ Chunks(m, fmt)[j].fmt = (IF j = 1 THEN fmt ELSE 3)
         /\ Chunks(m, fmt)[j].cs = m.cs /\ Chunks(m, fmt)[j].size = outSize
         /\ Chunks(m, fmt)[j].type = m.type /\ Chunks(m, fmt)[j].value = m.value
         /\ Chunks(m, fmt)[j].length = m.length
         /\ Chunks(m, fmt)[j].timestamp = m.timestamp
         /\ Chunks(m, fmt)[j].order = Len(due) + 1
         /\ Cut(Chunks(m, fmt)[j])
  BY <1>0, ChunksAre
<1>3. /\ wire' = wire \o Chunks(m, fmt)
      /\ outSize' = IF m.type = "SetChunkSize" THEN m.value ELSE outSize
      /\ UNCHANGED <<data_cache_, parsing, in_chunk_size, chunk_cache_, packets, misread>>
  BY DEF ServerSend, client
<1>l. l \in Nat \ {0}
  BY <1>1
<1>s. shortened' \in BOOLEAN /\ (shortened \/ l > 1 \/ fmt > 0 => shortened')
  <2>1. l = NumChunks(m)
    BY <1>0, ChunksAre
  <2>2. shortened' = (shortened \/ fmt > 0 \/ NumChunks(m) > 1)
    BY DEF ServerSend
  <2> QED  BY <1>1, <2>1, <2>2
<1>f. \A j \in 1..l : Chunks(m, fmt)[j].opens = (j = 1) /\ Chunks(m, fmt)[j].length = m.length
  BY <1>2
<1>g. \A j \in 1..l : Chunks(m, fmt)[j].cs = m.cs /\ Chunks(m, fmt)[j].size = outSize
  BY <1>2
<1>4. /\ wire' \in Seq(Chunk) /\ Len(wire') = n + l
      /\ \A j \in 1..n : wire'[j] = wire[j]
      /\ \A j \in 1..l : wire'[n + j] = Chunks(m, fmt)[j]
  BY <1>1, <1>3
<1>5. \A j \in 1..Len(wire') : j \in 1..n \/ (j - n \in 1..l /\ wire'[j] = Chunks(m, fmt)[j - n])
  <2>1. ASSUME NEW j \in 1..Len(wire'), j \notin 1..n
        PROVE  j - n \in 1..l /\ wire'[j] = Chunks(m, fmt)[j - n]
    <3>1. j - n \in 1..l /\ n + (j - n) = j
      BY <1>1, <1>4, <2>1
    <3>2. wire'[n + (j - n)] = Chunks(m, fmt)[j - n]
      BY <1>4, <3>1
    <3> QED  BY <3>1, <3>2
  <2> QED  BY <2>1
<1>6. m.value \in Nat /\ (m.type = "SetChunkSize" => m.value > 0)
  BY ServerAssumption
<1>7. WireInv'
  <2>1. outSize' \in Nat \ {0} /\ shortened' \in BOOLEAN
    BY <1>1, <1>3, <1>6, <1>s
  <2>2. ASSUME NEW j \in 1..Len(wire')
        PROVE  Cut(wire'[j]) /\ (wire'[j].type = "SetChunkSize" => wire'[j].value > 0)
    <3>1. CASE j \in 1..n
      BY <1>4, <3>1 DEF WireInv
    <3>2. CASE j - n \in 1..l /\ wire'[j] = Chunks(m, fmt)[j - n]
      BY <1>2, <1>6, <3>2
    <3> QED  BY <1>5, <3>1, <3>2
  <2>3. ASSUME NEW j \in 1..(Len(wire') - 1), wire'[j].opens
        PROVE  Follows(wire'[j], wire'[j + 1])
    <3>1. CASE j < n
      <4>1. j \in 1..(n - 1) /\ j \in 1..n /\ j + 1 \in 1..n
        BY <1>1, <3>1
      <4>2. wire'[j] = wire[j] /\ wire'[j + 1] = wire[j + 1]
        BY <1>4, <4>1
      <4>3. wire[j].opens
        BY <2>3, <4>2
      <4> QED  BY <4>1, <4>2, <4>3 DEF WireInv
    <3>2. CASE j = n
      <4>1. n \in 1..n /\ wire # <<>> /\ wire'[n] = wire[n] /\ wire'[n + 1] = Chunks(m, fmt)[1]
        BY <1>1, <1>4, <3>2
      <4>2. Whole(wire[n]) /\ outSize = SizeAfter(wire[n])
        BY <2>3, <3>2, <4>1 DEF WireInv
      <4>3. Chunks(m, fmt)[1].opens /\ Chunks(m, fmt)[1].size = outSize
        <5>1. 1 \in 1..l
          BY <1>1
        <5>2. Chunks(m, fmt)[1].opens = (1 = 1)
          BY <1>f, <5>1
        <5> QED  BY <1>g, <5>1, <5>2
      <4>4. wire'[j] = wire[n] /\ wire'[j + 1] = Chunks(m, fmt)[1]
        BY <3>2, <4>1
      <4>5. wire'[j + 1].size = SizeAfter(wire'[j])
        BY <4>2, <4>3, <4>4
      <4> QED  BY <4>2, <4>3, <4>4, <4>5, Zenon DEF Follows
    <3>3. CASE j > n
      <4>1. /\ j - n \in 1..l /\ wire'[j] = Chunks(m, fmt)[j - n]
            /\ (j + 1) - n \in 1..l /\ wire'[j + 1] = Chunks(m, fmt)[(j + 1) - n]
            /\ (j + 1) - n # 1
        <5>1. j \in 1..Len(wire') /\ j + 1 \in 1..Len(wire') /\ j \notin 1..n /\ j + 1 \notin 1..n
          BY <1>1, <1>4, <3>3
        <5> QED  BY <1>1, <1>5, <3>3, <5>1
      <4>2. j - n = 1 /\ l # 1
        <5>1. Chunks(m, fmt)[j - n].opens = (j - n = 1)
          BY <1>f, <4>1
        <5>2. j - n = 1
          BY <2>3, <4>1, <5>1
        <5> QED  BY <1>1, <4>1, <5>2
      <4>3. /\ wire'[j].length > wire'[j].size /\ wire'[j].size = outSize
            /\ wire'[j + 1].size = outSize /\ wire'[j].length \in Nat
        <5>1. m.length > outSize
          BY <1>1, <4>2, ServerAssumption
        <5>2. m.length \in Nat
          BY ServerAssumption
        <5>3. wire'[j].length = m.length /\ wire'[j].size = outSize
          BY <1>f, <1>g, <4>1
        <5>4. wire'[j + 1].size = outSize
          BY <1>g, <4>1
        <5> QED  BY <5>1, <5>2, <5>3, <5>4
      <4>5. ~wire'[j + 1].opens
        <5>1. Chunks(m, fmt)[(j + 1) - n].opens = ((j + 1) - n = 1)
          BY <1>f, <4>1
        <5> QED  BY <4>1, <5>1
      <4>4. ~Whole(wire'[j])
        BY <1>1, <4>3 DEF Whole
      <4> QED  BY <4>3, <4>4, <4>5 DEF Follows, SizeAfter
    <3> QED  BY <1>1, <3>1, <3>2, <3>3
  <2>4. /\ n + l \in 1..Len(wire') /\ wire'[Len(wire')] = Chunks(m, fmt)[l]
        /\ Chunks(m, fmt)[l].opens => l = 1
    <3>1. l \in 1..l /\ wire'[n + l] = Chunks(m, fmt)[l] /\ Len(wire') = n + l /\ n + l \in 1..(n + l)
      BY <1>1, <1>4
    <3>2. Chunks(m, fmt)[l].opens = (l = 1)
      BY <1>2, <3>1
    <3> QED  BY <3>1, <3>2
  <2>5. l = 1 => Whole(Chunks(m, fmt)[l]) /\ outSize' = SizeAfter(Chunks(m, fmt)[l])
    <3>1. ASSUME l = 1 PROVE Whole(Chunks(m, fmt)[l]) /\ outSize' = SizeAfter(Chunks(m, fmt)[l])
      <4>1. l \in 1..l /\ m.length <= outSize
        BY <1>1, <3>1
      <4>2. Chunks(m, fmt)[l].opens = (l = 1)
        BY <1>f, <4>1
      <4>3. Chunks(m, fmt)[l].length = m.length /\ Chunks(m, fmt)[l].size = outSize
        BY <1>f, <1>g, <4>1
      <4>4. Chunks(m, fmt)[l].type = m.type /\ Chunks(m, fmt)[l].value = m.value
        BY <1>2, <4>1
      <4>5. Whole(Chunks(m, fmt)[l])
        BY <3>1, <4>1, <4>2, <4>3 DEF Whole
      <4> QED  BY <1>3, <4>3, <4>4, <4>5 DEF SizeAfter
    <3> QED  BY <3>1
  <2>6. ASSUME ~shortened', NEW j \in 1..Len(wire')
        PROVE  Full(wire'[j])
    <3>1. ~shortened /\ l = 1 /\ fmt = 0
      <4>1. ~shortened /\ ~(l > 1)
        BY <1>s, <2>6
      <4>2. l = 1
        BY <1>l, <4>1, OneOrMore, Zenon
      <4>3. ~(fmt > 0)
        BY <1>s, <2>6
      <4>4. fmt = 0
        BY <4>3
      <4> QED  BY <4>1, <4>2, <4>4
    <3>2. CASE j \in 1..n
      BY <1>4, <3>1, <3>2 DEF WireInv
    <3>3. CASE j - n \in 1..l /\ wire'[j] = Chunks(m, fmt)[j - n]
      <4>1. j - n = l
        BY <3>1, <3>3
      <4>2. Chunks(m, fmt)[l].fmt = 0
        BY <1>2, <1>l, <3>1
      <4> QED  BY <2>5, <3>1, <3>3, <4>1, <4>2 DEF Full
    <3> QED  BY <1>5, <3>2, <3>3
  <2> QED  BY <1>4, <2>1, <2>2, <2>3, <2>4, <2>5, <2>6 DEF WireInv
<1>8. wire' # <<>> /\ wire'[1] = IF wire = <<>> THEN Chunks(m, fmt)[1] ELSE wire[1]
  <2>1. CASE wire = <<>>
    BY <1>1, <1>3, <1>4, <2>1
  <2>2. CASE wire # <<>>
    BY <1>1, <1>4, <2>2
  <2> QED  BY <2>1, <2>2
<1>9. ParserInv'
  <2>1. Chunks(m, fmt)[1].size = outSize
    BY <1>1, <1>2
  <2> QED  BY <1>3, <1>8, <2>1 DEF ParserInv, Agreed
<1>10. CacheInv'
  <2>1. m.cs \in Streams
    BY DEF Streams
  <2>2. \A j \in 1..Len(wire') : wire'[j].cs \in Streams
    <3>1. ASSUME NEW j \in 1..Len(wire') PROVE wire'[j].cs \in Streams
      <4>1. CASE j \in 1..n
        BY <1>4, <4>1 DEF CacheInv
      <4>2. CASE j - n \in 1..l /\ wire'[j] = Chunks(m, fmt)[j - n]
        BY <1>g, <2>1, <4>2
      <4> QED  BY <1>5, <4>1, <4>2
    <3> QED  BY <3>1
  <2> DEFINE p == [timestamp |-> m.timestamp, field |-> Field(m, fmt),
                   length |-> m.length, type |-> m.type]
  <2>3. previous' = [previous EXCEPT ![m.cs] = p]
    BY DEF ServerSend
  <2>4. m.type \in Types /\ m.length \in Nat /\ m.timestamp \in 0..(TimeWord - 1)
    BY ServerAssumption
  <2>5. Field(m, fmt) \in 0..(TimeWord - 1)
    <3>1. Chunks(m, fmt)[1] \in Chunk /\ Chunks(m, fmt)[1].field = Field(m, fmt)
      BY <1>0, <1>1, ChunksAre
    <3> QED  BY <3>1 DEF Chunk
  <2>6. p \in Previous
    BY <2>4, <2>5 DEF Previous
  <2> HIDE DEF p
  <2>7. previous' \in [Streams -> Previous]
    BY <2>1, <2>3, <2>6 DEF CacheInv
  <2> QED  BY <1>3, <2>2, <2>7 DEF CacheInv
<1>11. StaysInStep'
  <2>1. misread' \in {"format", "size"} => shortened'
    BY <1>3, <1>s DEF StaysInStep
  <2>2. ASSUME misread' = "body" PROVE wire' # <<>> /\ ReadsPast(Head(wire'))
    <3>1. wire # <<>> /\ ReadsPast(Head(wire))
      BY <1>3, <2>2 DEF StaysInStep
    <3>2. wire' # <<>> /\ wire'[1] = wire[1]
      BY <1>8, <3>1
    <3>3. Head(wire') = Head(wire)
      BY <1>1, <1>4, <3>1, <3>2
    <3> QED  BY <3>1, <3>2, <3>3
  <2> QED  BY <2>1, <2>2 DEF StaysInStep
<1>12. PlaceInv'
  <2>1. /\ TotalLength(m, fmt) \in Nat /\ Chunks(m, fmt)[1].at = written
        /\ Chunks(m, fmt)[l].at + WireLength(Chunks(m, fmt)[l]) = written + TotalLength(m, fmt)
    BY <1>0, ChunksAre
  <2>2. /\ written' = written + TotalLength(m, fmt) /\ inflight' = inflight + TotalLength(m, fmt)
        /\ data_cache_' = data_cache_ /\ parsing' = parsing /\ misread' = misread
    BY <1>3 DEF ServerSend
  <2>3. written \in Nat /\ inflight \in Nat /\ data_cache_ \in Nat
    BY DEF PlaceInv
  <2>4. written' \in Nat /\ inflight' \in Nat /\ data_cache_' \in Nat
    BY <2>1, <2>2, <2>3
  <2>5. ASSUME NEW j \in 1..(Len(wire') - 1)
        PROVE  wire'[j].at + WireLength(wire'[j]) = wire'[j + 1].at
    <3>1. CASE j < n
      <4>1. j \in 1..(n - 1) /\ j \in 1..n /\ j + 1 \in 1..n
        BY <1>1, <3>1
      <4>2. wire'[j] = wire[j] /\ wire'[j + 1] = wire[j + 1]
        BY <1>4, <4>1
      <4> QED  BY <4>1, <4>2 DEF PlaceInv
    <3>2. CASE j = n
      <4>1. n \in 1..n /\ wire # <<>> /\ wire'[n] = wire[n] /\ wire'[n + 1] = Chunks(m, fmt)[1]
        BY <1>1, <1>4, <3>2
      <4> QED  BY <2>1, <3>2, <4>1 DEF PlaceInv
    <3>3. CASE j > n
      <4>1. /\ j - n \in 1..(l - 1) /\ wire'[j] = Chunks(m, fmt)[j - n]
            /\ wire'[j + 1] = Chunks(m, fmt)[(j - n) + 1]
        <5>1. j \in 1..Len(wire') /\ j + 1 \in 1..Len(wire') /\ j \notin 1..n /\ j + 1 \notin 1..n
          BY <1>1, <1>4, <3>3
        <5>2. (j + 1) - n = (j - n) + 1 /\ j - n \in 1..(l - 1)
          BY <1>1, <1>4, <3>3
        <5> QED  BY <1>5, <5>1, <5>2
      <4>2. \A i \in 1..(l - 1) :
               Chunks(m, fmt)[i].at + WireLength(Chunks(m, fmt)[i]) = Chunks(m, fmt)[i + 1].at
        BY <1>0, ChunksAre
      <4> QED  BY <4>1, <4>2
    <3> QED  BY <1>1, <3>1, <3>2, <3>3
  <2>6. Len(wire') = n + l /\ wire'[n + l] = Chunks(m, fmt)[l]
    BY <1>1, <1>4
  <2>7. wire'[Len(wire')].at + WireLength(wire'[Len(wire')]) = written'
    BY <2>1, <2>2, <2>6
  <2>8. ASSUME NEW j \in 1..Len(wire'), Whole(wire'[j])
        PROVE  wire'[j].at + WireLength(wire'[j]) <= written'
    <3>1. CASE j \in 1..n
      <4>1. wire'[j] = wire[j]
        BY <1>4, <3>1
      <4>2. wire[j].at + WireLength(wire[j]) <= written
        BY <2>8, <3>1, <4>1 DEF PlaceInv
      <4>3. wire[j] \in Chunk
        BY <1>1, <3>1
      <4>4. wire[j].at \in Nat /\ WireLength(wire[j]) \in Nat
        BY <4>3, ChunkHasBytes DEF Chunk
      <4> QED  BY <2>1, <2>2, <2>3, <4>1, <4>2, <4>4
    <3>2. CASE j - n \in 1..l /\ wire'[j] = Chunks(m, fmt)[j - n]
      <4>0. wire'[j].opens /\ wire'[j].length <= wire'[j].size
        BY <2>8 DEF Whole
      <4>a. Chunks(m, fmt)[j - n].opens = (j - n = 1)
        BY <1>f, <3>2
      <4>b. wire'[j].length = m.length /\ wire'[j].size = outSize
        BY <1>f, <1>g, <3>2
      <4>1. j - n = 1 /\ m.length <= outSize
        BY <3>2, <4>0, <4>a, <4>b
      <4>2. wire'[j] = Chunks(m, fmt)[l]
        BY <1>1, <3>2, <4>1
      <4> QED  BY <2>1, <2>2, <2>4, <4>2
    <3> QED  BY <1>5, <3>1, <3>2
  <2>9. ASSUME misread = "no" PROVE wire'[1].at + data_cache_' + inflight' = written'
    <3>1. CASE wire = <<>>
      <4>1. data_cache_ + inflight = 0
        BY <2>9, <3>1 DEF PlaceInv
      <4> QED  BY <1>8, <2>1, <2>2, <2>3, <3>1, <4>1
    <3>2. CASE wire # <<>>
      <4>1. wire[1].at + data_cache_ + inflight = written
        BY <2>9, <3>2 DEF PlaceInv
      <4>2. wire[1] \in Chunk
        BY <1>1, <3>2
      <4>3. wire[1].at \in Nat
        BY <4>2 DEF Chunk
      <4>4. wire'[1].at = wire[1].at
        BY <1>8, <3>2
      <4> DEFINE at == wire[1].at
                 more == TotalLength(m, fmt)
      <4>5. at \in Nat /\ more \in Nat /\ at + data_cache_ + inflight = written
        BY <2>1, <4>1, <4>3
      <4>6. written' = written + more /\ inflight' = inflight + more
        BY <2>2
      <4> HIDE DEF at, more
      <4>7. at + data_cache_' + inflight' = written'
        BY <2>2, <2>3, <4>5, <4>6
      <4> QED  BY <4>4, <4>7 DEF at
    <3> QED  BY <3>1, <3>2
  <2>10. ASSUME misread = "no", ~parsing, Full(wire'[1])
         PROVE  data_cache_' < WireLength(wire'[1])
    <3>1. CASE wire = <<>>
      <4>1. data_cache_ = 0
        BY <2>3, <2>10, <3>1 DEF PlaceInv
      <4>2. Chunks(m, fmt)[1] \in Chunk
        BY <1>1
      <4> QED  BY <1>8, <2>2, <3>1, <4>1, <4>2, ChunkHasBytes
    <3>2. CASE wire # <<>>
      BY <1>8, <2>2, <2>10, <3>2 DEF PlaceInv
    <3> QED  BY <3>1, <3>2
  <2> QED  BY <1>8, <2>2, <2>4, <2>5, <2>7, <2>8, <2>9, <2>10 DEF PlaceInv
<1>13. DueInv'
  <2>1. /\ due \in Seq(Packet) /\ packets \in Seq(Packet) /\ Len(due) \in Nat
        /\ Len(packets) \in Nat /\ Len(packets) <= Len(due)
        /\ \A i \in 1..Len(packets) : packets[i] = due[i]
    BY DEF DueInv, InOrder
  <2>2. packets' = packets /\ misread' = misread
    BY <1>3
  <2>3. due' = IF Yields(m) THEN Append(due, Expected(m)) ELSE due
    BY DEF ServerSend
  <2>4. m.type \in Types /\ m.length \in Nat /\ m.timestamp \in 0..(TimeWord - 1)
    BY ServerAssumption
  <2>5. Expected(m) \in Packet
    BY <2>4, ExpectedIs
  <2>6. /\ due' \in Seq(Packet) /\ Len(due') = Len(due) + (IF Yields(m) THEN 1 ELSE 0)
        /\ \A i \in 1..Len(due) : due'[i] = due[i]
        /\ Yields(m) => due'[Len(due) + 1] = Expected(m)
    <3>1. CASE ~Yields(m)
      BY <2>1, <2>3, <3>1
    <3>2. CASE Yields(m)
      BY <2>1, <2>3, <2>5, <3>2
    <3> QED  BY <3>1, <3>2
  <2>7. InOrder'
    <3>1. Len(packets) <= Len(due')
      BY <2>1, <2>6
    <3>2. \A i \in 1..Len(packets) : i \in 1..Len(due)
      BY <2>1
    <3> QED  BY <2>1, <2>2, <2>6, <3>1, <3>2 DEF InOrder
  <2>8. ASSUME NEW j \in 1..Len(wire'), Yields(wire'[j])
        PROVE  wire'[j].order <= Len(due') /\ due'[wire'[j].order] = Expected(wire'[j])
    <3>1. CASE j \in 1..n
      <4>1. wire'[j] = wire[j] /\ wire[j] \in Chunk
        BY <1>1, <1>4, <3>1
      <4>2. wire[j].order \in Nat \ {0}
        BY <4>1 DEF Chunk
      <4>3. wire[j].order <= Len(due) /\ due[wire[j].order] = Expected(wire[j])
        BY <2>8, <3>1, <4>1 DEF DueInv
      <4>4. wire[j].order \in 1..Len(due)
        BY <2>1, <4>2, <4>3
      <4>5. wire[j].order <= Len(due')
        BY <2>1, <2>6, <4>2, <4>3
      <4> QED  BY <2>6, <4>1, <4>3, <4>4, <4>5
    <3>2. CASE j - n \in 1..l /\ wire'[j] = Chunks(m, fmt)[j - n]
      <4>1. wire'[j].type = m.type /\ wire'[j].order = Len(due) + 1
        BY <1>2, <3>2
      <4>2. wire'[j].length = m.length /\ wire'[j].timestamp = m.timestamp
        BY <1>2, <3>2
      <4>3. Expected(wire'[j]) = Expected(m)
        BY <4>1, <4>2 DEF Expected
      <4>4. wire'[j].value = m.value
        BY <1>2, <3>2
      <4>5. Yields(wire'[j]) = Yields(m)
        BY <4>1, <4>2, <4>4 DEF Yields, ReadsPast
      <4> QED  BY <2>1, <2>6, <2>8, <4>1, <4>3, <4>5
    <3> QED  BY <1>5, <3>1, <3>2
  <2>9. ASSUME NEW j \in 1..(Len(wire') - 1), Whole(wire'[j])
        PROVE  wire'[j + 1].order = wire'[j].order + Counted(wire'[j])
    <3>1. CASE j < n
      <4>1. j \in 1..(n - 1) /\ j \in 1..n /\ j + 1 \in 1..n
        BY <1>1, <3>1
      <4>2. wire'[j] = wire[j] /\ wire'[j + 1] = wire[j + 1]
        BY <1>4, <4>1
      <4> QED  BY <2>9, <4>1, <4>2 DEF DueInv
    <3>2. CASE j = n
      <4>1. n \in 1..n /\ wire # <<>> /\ wire'[n] = wire[n] /\ wire'[n + 1] = Chunks(m, fmt)[1]
        BY <1>1, <1>4, <3>2
      <4>2. Len(due) + 1 = wire[n].order + Counted(wire[n])
        BY <2>9, <3>2, <4>1 DEF DueInv
      <4>3. Chunks(m, fmt)[1].order = Len(due) + 1
        BY <1>1, <1>2
      <4> QED  BY <3>2, <4>1, <4>2, <4>3
    <3>3. CASE j > n
      <4>1. j - n \in 1..l /\ wire'[j] = Chunks(m, fmt)[j - n]
        <5>1. j \in 1..Len(wire') /\ j \notin 1..n
          BY <1>1, <1>4, <3>3
        <5> QED  BY <1>5, <5>1
      <4>2. j - n < l
        BY <1>1, <1>4
      <4>3. wire'[j].opens /\ wire'[j].length <= wire'[j].size
        BY <2>9 DEF Whole
      <4>4. j - n = 1
        BY <1>f, <4>1, <4>3
      <4>5. m.length <= outSize
        BY <1>f, <1>g, <4>1, <4>3
      <4>6. l = 1
        BY <1>1, <4>5
      <4> QED  BY <4>2, <4>4, <4>6
    <3> QED  BY <1>1, <3>1, <3>2, <3>3
  <2>10. ASSUME Whole(wire'[Len(wire')])
         PROVE  Len(due') + 1 = wire'[Len(wire')].order + Counted(wire'[Len(wire')])
    <3>1. l \in 1..l /\ wire'[Len(wire')] = Chunks(m, fmt)[l]
      BY <1>1, <1>4
    <3>2. /\ Chunks(m, fmt)[l].order = Len(due) + 1 /\ Chunks(m, fmt)[l].type = m.type
          /\ Chunks(m, fmt)[l].length = m.length /\ Chunks(m, fmt)[l].value = m.value
      BY <1>2, <3>1
    <3>3. Yields(Chunks(m, fmt)[l]) = Yields(m)
      BY <3>2 DEF Yields, ReadsPast
    <3> QED  BY <2>1, <2>6, <3>1, <3>2, <3>3 DEF Counted
  <2>11. ASSUME misread = "no", wire'[1].opens
         PROVE  wire'[1].order = Len(packets) + 1
    <3>1. CASE wire = <<>>
      <4>1. Len(packets) = Len(due)
        BY <2>11, <3>1 DEF DueInv
      <4>2. Chunks(m, fmt)[1].order = Len(due) + 1
        BY <1>1, <1>2
      <4> QED  BY <1>8, <3>1, <4>1, <4>2
    <3>2. CASE wire # <<>>
      BY <1>8, <2>11, <3>2 DEF DueInv
    <3> QED  BY <3>1, <3>2
  <2> QED  BY <1>8, <2>1, <2>2, <2>6, <2>7, <2>8, <2>9, <2>10, <2>11 DEF DueInv
<1> QED  BY <1>7, <1>9, <1>10, <1>11, <1>12, <1>13

\* The payload a first chunk is taken to have: the smaller of the message and
\* the client's chunk size, which is right when the message has one chunk.
LEMMA PayloadIs ==
    ASSUME IInv, misread = "no", wire # <<>>, wire[1].opens,
           NEW k, k.msg_length = wire[1].length, k.current = 0
    PROVE  /\ PayloadLength(k) = IF wire[1].length <= in_chunk_size THEN wire[1].length
                                 ELSE in_chunk_size
           /\ PayloadLength(k) \in Nat /\ PayloadLength(k) <= wire[1].length
           /\ Whole(wire[1]) =>
                PayloadLength(k) = wire[1].length /\ PayloadLength(k) = wire[1].body
<1> DEFINE c == wire[1]
           paid == PayloadLength(k)
<1>1. c \in Chunk /\ Cut(c) /\ Agreed(c.size)
  BY DEF IInv, WireInv, ParserInv
<1>2. c.length \in Nat /\ c.size \in Nat
  BY <1>1 DEF Chunk
<1>3. in_chunk_size \in Nat /\ in_chunk_size >= RTMP_DEFAULT_CHUNKSIZE
  BY DEF IInv, ParserInv
<1>4. paid = IF c.length <= in_chunk_size THEN c.length ELSE in_chunk_size
  <2>1. k.msg_length - k.current = c.length
    BY <1>2
  <2>2. paid = Min({c.length, in_chunk_size})
    BY <2>1 DEF PayloadLength
  <2> QED  BY <1>2, <1>3, <2>2, MinIs
<1>5. ASSUME Whole(c) PROVE c.length <= in_chunk_size /\ c.body = c.length
  <2>1. c.length <= c.size
    BY <1>5 DEF Whole
  <2>2. c.body = c.length
    BY <1>1, <2>1 DEF Cut
  <2>3. c.length <= in_chunk_size
    <3>1. CASE c.size >= RTMP_DEFAULT_CHUNKSIZE
      BY <1>1, <2>1, <3>1 DEF Agreed
    <3>2. CASE ~(c.size >= RTMP_DEFAULT_CHUNKSIZE)
      BY <1>2, <1>3, <2>1, <3>2, ChunkSizeAssumption
    <3> QED  BY <3>1, <3>2
  <2> QED  BY <2>2, <2>3
<1>6. paid \in Nat /\ paid <= c.length
  BY <1>2, <1>3, <1>4
<1>7. Whole(c) => paid = c.length /\ paid = c.body
  BY <1>4, <1>5
<1> QED  BY <1>4, <1>6, <1>7

\* The bytes the parser asks for before it takes a first chunk.
Asked(c, k) ==
    BaseLength(c.cs) + HeaderLength(0) + ExtendedLength(c.field) + PayloadLength(k)

\* The record of a chunk stream when the bytes of its chunk are incomplete.
Kept(k) ==
    /\ k \in Record /\ k.current = chunk_cache_[wire[1].cs].current
    /\ k.current <= k.msg_length
    /\ Full(wire[1]) => data_cache_ < WireLength(wire[1])

\* The record of a chunk stream when its first chunk is taken.
Read(k) ==
    /\ k \in Record /\ k.current = chunk_cache_[wire[1].cs].current
    /\ k.msg_length = wire[1].length /\ k.msg_type_id = wire[1].type
    /\ k.timestamp = Expected(wire[1]).timestamp
    /\ data_cache_ >= Asked(wire[1], k)

\* One turn of processData's loop loses the format, or reads past a body that is
\* too short, or takes nothing from the stream and leaves the parts of messages
\* as they are, or takes a first chunk.
LEMMA RecvCases ==
    ASSUME IInv, RecvRtmpMessage
    PROVE  /\ misread = "no" /\ wire # <<>> /\ wire[1] \in Chunk /\ parsing
           /\ UNCHANGED <<outSize, inflight, written, sent, previous, due, shortened>>
           /\ \/ wire[1].fmt # 0 /\ Misreads("format")
              \/ ReadsPast(wire[1]) /\ Misreads("body")
              \/ \E k : Kept(k) /\ GiveUp(wire[1].cs, k)
              \/ wire[1].fmt = 0 /\ \E k : Read(k) /\ Take(wire[1], k, Asked(wire[1], k))
<1> DEFINE c    == Head(wire)
           fmt  == DecodedFmt(c)
           old  == chunk_cache_[c.cs]
           k    == ApplyHeader(old, c, fmt, old.current <= 0)
           header == BaseLength(c.cs) + HeaderLength(fmt)
           ext  == IF k.time_delta >= RTMP_EXTENDED_TIMESTAMP THEN 4 ELSE 0
           size == header + ext + PayloadLength(k)
           e    == ApplyExtended(k, c.field)
           past == Finishes(k) /\ ReadsPast(Message(k, c))
           r    == [e EXCEPT !.timestamp = (@ - e.time_delta + TimeWord) % TimeWord]
           tf   == TimeField(c.field)
<1>1. /\ misread = "no" /\ wire # <<>> /\ parsing
      /\ UNCHANGED <<outSize, inflight, written, sent, previous, due, shortened>>
  BY DEF RecvRtmpMessage
<1>2. c = wire[1] /\ c \in Chunk /\ 1 \in 1..Len(wire) /\ Cut(c)
  BY <1>1 DEF IInv, WireInv
<1>3. fmt = 0
  BY <1>2, FormatLost
<1>4. /\ c.length \in Nat /\ c.type \in Types /\ c.timestamp \in 0..(TimeWord - 1)
      /\ c.field \in 0..(TimeWord - 1) /\ c.cs \in Streams /\ c.body \in Nat
      /\ c.fmt = 0 => c.opens /\ c.field = c.timestamp
  BY <1>2 DEF Chunk, Cut, IInv, CacheInv
<1>5. old \in Record /\ old.current <= old.msg_length
  BY <1>4 DEF IInv, CacheInv
<1>6. /\ tf \in 0..(TimeWord - 1) /\ tf \in Nat
      /\ tf >= RTMP_EXTENDED_TIMESTAMP <=> c.field >= RTMP_EXTENDED_TIMESTAMP
      /\ c.field < RTMP_EXTENDED_TIMESTAMP => tf = c.field
  BY <1>4, TimeAssumption DEF TimeField
<1>7. k = [old EXCEPT !.time_delta = tf,
                      !.timestamp = IF c.field >= RTMP_EXTENDED_TIMESTAMP THEN @ ELSE tf,
                      !.msg_length = c.length, !.msg_type_id = c.type]
  <2> DEFINE first == old.current <= 0
  <2>1. k = ApplyHeader(old, c, fmt, first)
    OBVIOUS
  <2>2. ApplyHeader(old, c, 0, first)
          = [old EXCEPT !.time_delta = tf,
                        !.timestamp = IF tf >= RTMP_EXTENDED_TIMESTAMP THEN @ ELSE tf,
                        !.msg_length = c.length, !.msg_type_id = c.type]
    <3> HIDE DEF first, old, c
    <3> QED  BY DEF ApplyHeader
  <2> HIDE DEF k, first, fmt, old, c, tf
  <2> QED  BY <1>3, <1>6, <2>1, <2>2
<1> HIDE DEF k, tf
<1>8. /\ k \in Record /\ k.current = old.current /\ k.msg_length = c.length
      /\ k.msg_type_id = c.type /\ k.time_delta = tf
      /\ c.field < RTMP_EXTENDED_TIMESTAMP => k.timestamp = c.field
  <2> HIDE DEF old
  <2>1. k \in Record
    BY <1>4, <1>5, <1>6, <1>7 DEF Record
  <2>2. /\ k.current = old.current /\ k.msg_length = c.length
        /\ k.msg_type_id = c.type /\ k.time_delta = tf
    BY <1>5, <1>7 DEF Record
  <2>3. c.field < RTMP_EXTENDED_TIMESTAMP => k.timestamp = c.field
    <3>1. k.timestamp = IF c.field >= RTMP_EXTENDED_TIMESTAMP THEN old.timestamp ELSE tf
      BY <1>5, <1>7 DEF Record
    <3> QED  BY <1>4, <1>6, <3>1, TimeAssumption
  <2> QED  BY <2>1, <2>2, <2>3
<1>9. ext = ExtendedLength(c.field) /\ ext \in Nat
  BY <1>6, <1>8 DEF ExtendedLength
<1>10. e = IF c.field >= RTMP_EXTENDED_TIMESTAMP
           THEN [k EXCEPT !.timestamp = c.field % (TimeWord \div 2)] ELSE k
  BY <1>6, <1>8 DEF ApplyExtended
<1> HIDE DEF e
<1>11. c.fmt = 0 =>
         /\ Expected(c).timestamp \in 0..(TimeWord - 1)
         /\ Expected(c).timestamp = IF c.field >= RTMP_EXTENDED_TIMESTAMP
                                    THEN c.field % (TimeWord \div 2) ELSE c.field
  <2>1. Expected(c) \in Packet
    BY <1>4, ExpectedIs
  <2> HIDE DEF c
  <2>2. Expected(c).timestamp \in 0..(TimeWord - 1)
    BY <2>1 DEF Packet
  <2> QED  BY <1>4, <2>2, ExpectedIs
<1>12. /\ e \in Record /\ e.current = old.current /\ e.msg_length = c.length
       /\ e.msg_type_id = c.type
       /\ c.fmt = 0 => e.timestamp = Expected(c).timestamp
  <2> DEFINE half == TimeWord \div 2
             x == c.field % half
  <2>0. x \in 0..(TimeWord - 1)
    <3>1. half \in Nat \ {0} /\ half <= TimeWord
      BY TimeAssumption
    <3> HIDE DEF half, c
    <3>2. x \in 0..(half - 1)
      BY <1>4, <3>1
    <3> HIDE DEF x
    <3> QED  BY <3>1, <3>2, TimeAssumption
  <2>x. c.field >= RTMP_EXTENDED_TIMESTAMP => e = [k EXCEPT !.timestamp = x]
    BY <1>10
  <2>y. c.fmt = 0 /\ c.field >= RTMP_EXTENDED_TIMESTAMP => x = Expected(c).timestamp
    BY <1>11
  <2> HIDE DEF x, old, c
  <2>1. CASE c.field >= RTMP_EXTENDED_TIMESTAMP
    <3>1. e = [k EXCEPT !.timestamp = x]
      BY <2>1, <2>x
    <3>3. e \in Record
      BY <1>8, <2>0, <3>1 DEF Record
    <3>4. /\ e.current = k.current /\ e.msg_length = k.msg_length
          /\ e.msg_type_id = k.msg_type_id /\ e.timestamp = x
      BY <1>8, <3>1 DEF Record
    <3> QED  BY <1>8, <2>1, <2>y, <3>3, <3>4
  <2>2. CASE ~(c.field >= RTMP_EXTENDED_TIMESTAMP)
    <3>1. e = k /\ (c.fmt = 0 => Expected(c).timestamp = c.field)
      BY <1>10, <1>11, <2>2
    <3>2. c.field < RTMP_EXTENDED_TIMESTAMP
      BY <1>4, <2>2, TimeAssumption
    <3> QED  BY <1>8, <3>1, <3>2
  <2> QED  BY <2>1, <2>2
<1>13. r \in Record /\ r.current = old.current /\ r.msg_length = c.length
  <2> DEFINE x == (e.timestamp - e.time_delta + TimeWord) % TimeWord
  <2>1. e.timestamp \in Int /\ e.time_delta \in Int /\ TimeWord \in Nat \ {0}
    BY <1>12, TimeAssumption DEF Record
  <2>2. e.timestamp - e.time_delta + TimeWord \in Int
    BY <2>1
  <2>3. x \in 0..(TimeWord - 1)
    BY <2>1, <2>2
  <2>4. r = [e EXCEPT !.timestamp = x]
    OBVIOUS
  <2> HIDE DEF x, r, old, c
  <2>5. r \in Record
    BY <1>12, <2>3, <2>4 DEF Record
  <2> QED  BY <1>12, <2>4, <2>5 DEF Record
<1>14. c.fmt = 0 => old.current = 0
  <2>1. \A cs \in DOMAIN chunk_cache_ : wire[1].opens => chunk_cache_[cs].current = 0
    BY <1>1 DEF IInv, ParserInv
  <2>2. DOMAIN chunk_cache_ = Streams
    BY DEF IInv, CacheInv
  <2> QED  BY <1>2, <1>4, <2>1, <2>2
<1>p. PayloadLength(k) = PayloadLength(e)
  BY <1>8, <1>12 DEF PayloadLength
<1>15. /\ header = BaseLength(c.cs) + HeaderLength(0) /\ header \in Nat
       /\ Asked(c, e) = header + ext + PayloadLength(e)
  BY <1>3, <1>9, HeadersAre DEF Asked
<1>16. ASSUME Full(c)
       PROVE  WireLength(c) = size /\ PayloadLength(e) \in Nat /\ c.fmt = 0
  <2>1. c.fmt = 0 /\ Whole(c) /\ c.opens
    BY <1>16 DEF Full, Whole
  <2>2. e.msg_length = wire[1].length /\ e.current = 0
    BY <1>2, <1>12, <1>14, <2>1
  <2>3. PayloadLength(e) \in Nat /\ PayloadLength(e) = c.body
    BY <1>1, <1>2, <2>1, <2>2, PayloadIs
  <2>4. WireLength(c) = BaseLength(c.cs) + HeaderLength(0) + ExtendedLength(c.field) + c.body
    BY <2>1 DEF WireLength
  <2>5. size = header + ext + PayloadLength(e)
    BY <1>p
  <2> HIDE DEF header, ext, size
  <2> QED  BY <1>9, <1>15, <2>1, <2>3, <2>4, <2>5
<1>17. \/ data_cache_ < header /\ GiveUp(c.cs, old)
       \/ fmt # c.fmt /\ Misreads("format")
       \/ fmt = c.fmt /\ data_cache_ < header + ext /\ GiveUp(c.cs, k)
       \/ fmt = c.fmt /\ data_cache_ < size /\ GiveUp(c.cs, r)
       \/ past /\ Misreads("body")
       \/ fmt = c.fmt /\ data_cache_ >= size /\ Take(c, e, size)
  BY DEF RecvRtmpMessage, k, e
<1>18. data_cache_ \in Nat
  BY DEF IInv, PlaceInv
<1>m. past => ReadsPast(c)
  <2>1. Message(k, c) = [type |-> c.type, length |-> c.length, value |-> c.value]
    BY <1>8 DEF Message
  <2> HIDE DEF c
  <2> QED  BY <2>1 DEF ReadsPast
<1>19. Asked(c, e) = size
  BY <1>15, <1>p
<1> HIDE DEF c, fmt, old, header, ext, r, past, size
<1>20. size = header + ext + PayloadLength(e)
  BY <1>p DEF size
<1>21. CASE data_cache_ < header /\ GiveUp(c.cs, old)
  <2>1. Full(c) => data_cache_ < WireLength(c)
    BY <1>9, <1>15, <1>16, <1>18, <1>20, <1>21
  <2>2. Kept(old)
    BY <1>2, <1>5, <2>1 DEF Kept, old
  <2> QED  BY <1>1, <1>2, <1>21, <2>2
<1>22. CASE fmt = c.fmt /\ data_cache_ < header + ext /\ GiveUp(c.cs, k)
  <2>1. Full(c) => data_cache_ < WireLength(c)
    BY <1>9, <1>15, <1>16, <1>18, <1>20, <1>22
  <2>2. k.current <= k.msg_length
    BY <1>3, <1>4, <1>8, <1>14, <1>22
  <2>3. Kept(k)
    BY <1>2, <1>8, <2>1, <2>2 DEF Kept, old
  <2> QED  BY <1>1, <1>2, <1>22, <2>3
<1>23. CASE fmt = c.fmt /\ data_cache_ < size /\ GiveUp(c.cs, r)
  <2>1. Full(c) => data_cache_ < WireLength(c)
    BY <1>16, <1>23
  <2>2. r.current <= r.msg_length
    BY <1>3, <1>4, <1>13, <1>14, <1>23
  <2>3. Kept(r)
    BY <1>2, <1>13, <2>1, <2>2 DEF Kept, old
  <2> QED  BY <1>1, <1>2, <1>23, <2>3
<1>24. CASE fmt = c.fmt /\ data_cache_ >= size /\ Take(c, e, size)
  <2>1. data_cache_ >= Asked(wire[1], e) /\ Take(wire[1], e, Asked(wire[1], e)) /\ wire[1].fmt = 0
    BY <1>2, <1>3, <1>19, <1>24
  <2>2. Read(e)
    BY <1>2, <1>12, <2>1 DEF Read, old
  <2> QED  BY <1>1, <1>2, <2>1, <2>2
<1>25. CASE fmt # c.fmt /\ Misreads("format")
  BY <1>1, <1>2, <1>3, <1>25
<1>26. CASE past /\ Misreads("body")
  BY <1>1, <1>2, <1>26, <1>m
<1> QED  BY <1>17, <1>21, <1>22, <1>23, <1>24, <1>25, <1>26

\* The bytes of a chunk are not complete: nothing but the stream's record
\* changes, and its payload count does not.
LEMMA GiveUpKeeps ==
    ASSUME IInv, misread = "no", wire # <<>>, NEW k, Kept(k), GiveUp(wire[1].cs, k),
           UNCHANGED <<outSize, inflight, written, previous, due, shortened>>
    PROVE  IInv'
<1> DEFINE cs == wire[1].cs
<1>0. cs \in Streams
  BY DEF IInv, WireInv, CacheInv
<1>1. /\ chunk_cache_' = [chunk_cache_ EXCEPT ![cs] = k] /\ parsing' = FALSE
      /\ UNCHANGED <<data_cache_, wire, outSize, shortened, misread, in_chunk_size, packets>>
  BY DEF GiveUp
<1>2. WireInv'
  BY <1>1 DEF IInv, WireInv
<1>3. /\ k \in Record /\ k.current = chunk_cache_[cs].current /\ k.current <= k.msg_length
      /\ Full(wire[1]) => data_cache_ < WireLength(wire[1])
  BY DEF Kept
<1>4. /\ chunk_cache_ \in [Streams -> Record] /\ DOMAIN chunk_cache_ = Streams
      /\ \A x \in Streams : chunk_cache_[x].current <= chunk_cache_[x].msg_length
  BY DEF IInv, CacheInv
<1> HIDE DEF cs
<1>5. /\ chunk_cache_' \in [Streams -> Record] /\ DOMAIN chunk_cache_' = Streams
      /\ \A x \in Streams : chunk_cache_'[x] = IF x = cs THEN k ELSE chunk_cache_[x]
  BY <1>0, <1>1, <1>3, <1>4
<1>6. \A x \in Streams : chunk_cache_'[x].current = chunk_cache_[x].current
  BY <1>3, <1>5
<1>7. ParserInv'
  <2>1. wire' = wire /\ misread' = misread /\ in_chunk_size' = in_chunk_size /\ outSize' = outSize
    BY <1>1
  <2>2. parsing' \in BOOLEAN
    BY <1>1
  <2>3. misread' # "body"
    BY <2>1
  <2> QED  BY <1>4, <1>5, <1>6, <2>1, <2>2, <2>3 DEF IInv, ParserInv, Agreed
<1>8. CacheInv'
  <2>1. \A x \in Streams : chunk_cache_'[x].current <= chunk_cache_'[x].msg_length
    BY <1>3, <1>4, <1>5
  <2>2. \A j \in 1..Len(wire') : wire'[j].cs \in Streams
    BY <1>1 DEF IInv, CacheInv
  <2>3. previous' \in [Streams -> Previous]
    BY DEF IInv, CacheInv
  <2> QED  BY <1>5, <2>1, <2>2, <2>3 DEF CacheInv
<1>9. PlaceInv'
  BY <1>1, <1>3 DEF IInv, PlaceInv
<1>10. DueInv'
  BY <1>1 DEF IInv, DueInv, InOrder
<1>11. StaysInStep'
  <2>1. misread' = "no"
    BY <1>1
  <2> QED  BY <2>1 DEF StaysInStep
<1> QED  BY <1>2, <1>7, <1>8, <1>9, <1>10, <1>11 DEF IInv

\* The parser stops where it is: the loss of a format means that a header left
\* something out, and a body is read past only when it is too short.
LEMMA MisreadsKeeps ==
    ASSUME IInv, misread = "no", wire # <<>>, parsing, NEW what, Misreads(what),
           \/ what = "format" /\ wire[1].fmt # 0
           \/ what = "body" /\ ReadsPast(wire[1]),
           UNCHANGED <<outSize, inflight, written, previous, due, shortened>>
    PROVE  IInv'
<1>u. /\ misread' = what /\ what \in {"format", "body"}
      /\ UNCHANGED <<data_cache_, parsing, in_chunk_size, chunk_cache_, packets, wire>>
  BY DEF Misreads
<1>1. 1 \in 1..Len(wire) /\ Head(wire) = wire[1]
  BY DEF IInv, WireInv
<1>2. what = "format" => ~Full(wire[1])
  BY DEF Full
<1>3. what = "format" => shortened
  BY <1>1, <1>2 DEF IInv, WireInv
<1>4. WireInv'
  BY <1>u DEF IInv, WireInv
<1>5. ParserInv'
  BY <1>u DEF IInv, ParserInv
<1>6. CacheInv'
  BY <1>u DEF IInv, CacheInv
<1>7. PlaceInv'
  BY <1>u DEF IInv, PlaceInv
<1>8. DueInv'
  BY <1>u DEF IInv, DueInv, InOrder
<1>9. StaysInStep'
  BY <1>u, <1>1, <1>3 DEF StaysInStep
<1> QED  BY <1>4, <1>5, <1>6, <1>7, <1>8, <1>9 DEF IInv

\* A first chunk with a full header is taken.  A whole message leaves the parser where the server
\* is; the first part of one either does so too, or the place is lost.
LEMMA TakeKeeps ==
    ASSUME IInv, misread = "no", wire # <<>>, wire[1].fmt = 0,
           parsing, UNCHANGED <<outSize, inflight, written, previous, due, shortened>>,
           NEW k, Read(k), Take(wire[1], k, Asked(wire[1], k))
    PROVE  IInv'
<1> DEFINE c == wire[1]
           n == Len(wire)
           paid == PayloadLength(k)
           finish == Finishes(k)
           kept == [k EXCEPT !.current = IF finish THEN 0 ELSE @ + paid]
           whole == Whole(c)
<1>1. /\ wire \in Seq(Chunk) /\ n \in Nat /\ n >= 1 /\ 1 \in 1..n /\ c \in Chunk
      /\ Cut(c) /\ (c.type = "SetChunkSize" => c.value > 0)
  BY DEF IInv, WireInv
<1>2. /\ c.length \in Nat /\ c.size \in Nat \ {0} /\ c.value \in Nat /\ c.body \in Nat
      /\ c.fmt = 0 /\ c.opens /\ c.cs \in Streams
  <2>1. c.opens
    <3>1. c.fmt # 3
      OBVIOUS
    <3> QED  BY <1>1, <3>1 DEF Cut
  <2>2. c.length \in Nat /\ c.size \in Nat \ {0} /\ c.value \in Nat /\ c.body \in Nat
    BY <1>1 DEF Chunk
  <2>3. c.cs \in Streams
    BY <1>1 DEF IInv, CacheInv
  <2> QED  BY <2>1, <2>2, <2>3
<1>r. /\ k \in Record /\ k.msg_length = c.length /\ k.msg_type_id = c.type
      /\ k.timestamp = Expected(c).timestamp /\ data_cache_ >= Asked(c, k)
  BY DEF Read
<1>3. k.current = 0
  <2>1. k.current = chunk_cache_[c.cs].current
    BY DEF Read
  <2>2. \A cs \in DOMAIN chunk_cache_ : chunk_cache_[cs].current = 0
    BY <1>2 DEF IInv, ParserInv
  <2>3. DOMAIN chunk_cache_ = Streams
    BY DEF IInv, CacheInv
  <2> QED  BY <1>2, <2>1, <2>2, <2>3
<1>4. in_chunk_size \in Nat /\ in_chunk_size >= RTMP_DEFAULT_CHUNKSIZE
  BY DEF IInv, ParserInv
<1>5. /\ paid = IF c.length <= in_chunk_size THEN c.length ELSE in_chunk_size
      /\ paid \in Nat /\ paid <= c.length
      /\ whole => paid = c.length /\ paid = c.body
  BY <1>2, <1>3, <1>r, PayloadIs
<1>6. paid \in Nat
  BY <1>5
<1>7. c.body = IF c.length <= c.size THEN c.length ELSE c.size
  BY <1>1, <1>2 DEF Cut
<1>8. Agreed(c.size)
  BY DEF IInv, ParserInv
<1>9. whole <=> c.length <= c.size
  BY <1>2 DEF Whole
<1>10. /\ Asked(c, k) \in Nat /\ WireLength(c) \in Nat
       /\ WireLength(c) = Asked(c, k) - paid + c.body
  <2> DEFINE x == BaseLength(c.cs) + HeaderLength(0) + ExtendedLength(c.field)
  <2>1. x \in Nat
    BY HeadersAre
  <2>2. WireLength(c) = x + c.body
    BY <1>2 DEF WireLength
  <2>3. Asked(c, k) = x + paid
    BY DEF Asked
  <2> HIDE DEF x, paid
  <2> QED  BY <1>2, <1>6, <2>1, <2>2, <2>3
<1> HIDE DEF paid
<1>12. finish <=> paid = c.length
  BY <1>3, <1>6, <1>r DEF Finishes, paid
<1> HIDE DEF finish
<1>11. /\ kept \in Record /\ kept.current = (IF finish THEN 0 ELSE paid)
       /\ kept.msg_length = c.length
  <2> DEFINE x == IF finish THEN 0 ELSE paid
  <2>1. kept = [k EXCEPT !.current = x]
    BY <1>3, <1>6
  <2>2. x \in Nat
    BY <1>6
  <2> HIDE DEF kept, x
  <2>3. kept \in Record
    BY <1>r, <2>1, <2>2 DEF Record
  <2>4. kept.current = x /\ kept.msg_length = c.length
    BY <1>r, <2>1 DEF Record
  <2> QED  BY <2>3, <2>4 DEF x
<1> HIDE DEF kept
<1>13. /\ wire' = Tail(wire)
       /\ data_cache_' = data_cache_ - Asked(c, k) /\ parsing' = parsing
       /\ packets' = IF finish THEN packets \o Decoded(k, c) ELSE packets
       /\ in_chunk_size' = IF finish THEN NewChunkSize(c) ELSE in_chunk_size
       /\ chunk_cache_' = [chunk_cache_ EXCEPT ![c.cs] = kept]
       /\ misread' = IF Asked(c, k) = WireLength(c) THEN "no" ELSE "size"
  BY DEF Take, paid, kept, finish
<1>14. misread' = IF paid = c.body THEN "no" ELSE "size"
  <2>1. Asked(c, k) = WireLength(c) <=> paid = c.body
    <3> DEFINE asked == Asked(c, k)
               long == WireLength(c)
               body == c.body
    <3>1. /\ asked \in Nat /\ long \in Nat /\ body \in Nat /\ paid \in Nat
          /\ long = asked - paid + body
      BY <1>2, <1>6, <1>10
    <3> HIDE DEF asked, long, body
    <3>2. asked = long <=> paid = body
      BY <3>1
    <3> QED  BY <3>2 DEF asked, long, body
  <2> QED  BY <1>13, <2>1
<1>15. whole => paid = c.length /\ paid = c.body
  BY <1>5
<1>16. ~whole /\ paid = c.body => paid # c.length
  BY <1>2, <1>7, <1>9
<1>17. /\ Len(wire') = n - 1 /\ wire' \in Seq(Chunk)
       /\ \A j \in 1..(n - 1) : wire'[j] = wire[j + 1] /\ j + 1 \in 1..n
  BY <1>1, <1>13
<1>18. n \in Nat \ {0}
  BY <1>1
<1>19. n > 1 => Follows(c, wire'[1]) /\ wire' # <<>>
  <2>1. ASSUME n > 1 PROVE 1 \in 1..(n - 1)
    BY <1>18, <2>1
  <2> QED  BY <1>1, <1>2, <1>17, <2>1 DEF IInv, WireInv
<1>20. n = 1 => whole /\ outSize = SizeAfter(c) /\ wire' = <<>>
  BY <1>1, <1>2, <1>17 DEF IInv, WireInv
<1>21. n = 1 \/ n > 1
  BY <1>18, OneOrMore, Zenon
<1>22. WireInv'
  <2>1. outSize' \in Nat \ {0} /\ shortened' \in BOOLEAN /\ outSize' = outSize
    BY DEF IInv, WireInv
  <2>2. ASSUME NEW j \in 1..Len(wire')
        PROVE  Cut(wire'[j]) /\ (wire'[j].type = "SetChunkSize" => wire'[j].value > 0)
    BY <1>17, <2>2 DEF IInv, WireInv
  <2>3. ASSUME NEW j \in 1..(Len(wire') - 1), wire'[j].opens
        PROVE  Follows(wire'[j], wire'[j + 1])
    <3>1. j \in 1..(n - 1) /\ j + 1 \in 1..(n - 1)
      BY <1>17, <1>18, <2>3
    <3>2. wire'[j] = wire[j + 1] /\ wire'[j + 1] = wire[(j + 1) + 1]
      BY <1>17, <3>1
    <3> QED  BY <2>3, <3>1, <3>2 DEF IInv, WireInv
  <2>4. ASSUME wire' # <<>>, wire'[Len(wire')].opens
        PROVE  Whole(wire'[Len(wire')]) /\ outSize' = SizeAfter(wire'[Len(wire')])
    <3>1. n > 1
      BY <1>20, <1>21, <2>4
    <3>2. Len(wire') \in 1..(n - 1) /\ Len(wire') + 1 = n
      BY <1>17, <1>18, <3>1
    <3>3. wire'[Len(wire')] = wire[n]
      BY <1>17, <3>2
    <3> QED  BY <2>1, <2>4, <3>3 DEF IInv, WireInv
  <2>5. ASSUME ~shortened', NEW j \in 1..Len(wire')
        PROVE  Full(wire'[j])
    BY <1>17, <2>5 DEF IInv, WireInv
  <2> QED  BY <1>17, <2>1, <2>2, <2>3, <2>4, <2>5 DEF WireInv
<1>23. NewChunkSize(c) = IF c.type = "SetChunkSize" /\ c.value >= RTMP_DEFAULT_CHUNKSIZE
                         THEN c.value ELSE in_chunk_size
  BY DEF NewChunkSize
<1>24. in_chunk_size' \in Nat /\ in_chunk_size' >= RTMP_DEFAULT_CHUNKSIZE
  BY <1>2, <1>4, <1>13, <1>23
<1>25. ASSUME misread' = "no" PROVE in_chunk_size' = IF whole THEN NewChunkSize(c)
                                                       ELSE in_chunk_size
  BY <1>12, <1>13, <1>14, <1>15, <1>16, <1>25
<1>26. ASSUME misread' = "no", SizeAfter(c) >= RTMP_DEFAULT_CHUNKSIZE
       PROVE  in_chunk_size' = SizeAfter(c)
  BY <1>2, <1>8, <1>23, <1>25, <1>26, ChunkSizeAssumption DEF Agreed, SizeAfter
<1>27. chunk_cache_ \in [Streams -> Record] /\ DOMAIN chunk_cache_ = Streams
  BY DEF IInv, CacheInv
<1>28. /\ chunk_cache_' \in [Streams -> Record] /\ DOMAIN chunk_cache_' = Streams
       /\ \A x \in Streams : x # c.cs => chunk_cache_'[x] = chunk_cache_[x]
       /\ chunk_cache_'[c.cs] = kept
  BY <1>2, <1>11, <1>13, <1>27
<1>29. /\ chunk_cache_'[c.cs].current <= chunk_cache_'[c.cs].msg_length
       /\ finish => chunk_cache_'[c.cs].current = 0
  <2>1. CASE finish
    BY <1>2, <1>11, <1>28, <2>1
  <2>2. CASE ~finish
    BY <1>2, <1>5, <1>11, <1>28, <2>2
  <2> QED  BY <2>1, <2>2
<1>30. ParserInv'
  <2>1. misread' \in {"no", "format", "size", "body"} /\ misread' # "body"
    BY <1>14
  <2>2. ASSUME misread' = "no", wire' = <<>> PROVE Agreed(outSize)'
    <3>1. outSize' = SizeAfter(c)
      BY <1>19, <1>20, <1>21, <2>2
    <3> QED  BY <1>26, <2>2, <3>1 DEF Agreed
  <2>3. ASSUME misread' = "no", wire' # <<>> PROVE Agreed(wire[1].size)'
    <3>1. wire'[1].size = SizeAfter(c)
      BY <1>19, <1>20, <1>21, <2>3 DEF Follows
    <3> QED  BY <1>26, <2>3, <3>1 DEF Agreed
  <2>4. ASSUME misread' = "no", wire' = <<>> \/ wire'[1].opens
        PROVE  \A x \in Streams : chunk_cache_'[x].current = 0
    <3>1. whole
      <4>1. CASE n = 1
        BY <1>20, <4>1
      <4>2. CASE n > 1
        <5>1. Follows(c, wire'[1]) /\ wire'[1].opens
          BY <1>19, <2>4, <4>2
        <5>2. Whole(c) <=> wire'[1].opens
          BY <5>1, Zenon DEF Follows
        <5> QED  BY <5>1, <5>2
      <4> QED  BY <1>21, <4>1, <4>2
    <3>2. chunk_cache_'[c.cs].current = 0
      BY <1>12, <1>15, <1>29, <3>1
    <3>3. \A x \in Streams : chunk_cache_[x].current = 0
      <4>1. wire[1].opens
        BY <1>2
      <4> QED  BY <1>27, <4>1 DEF IInv, ParserInv
    <3> QED  BY <1>28, <3>2, <3>3
  <2>5. parsing' \in BOOLEAN
    BY <1>13
  <2> QED  BY <1>24, <1>28, <2>1, <2>2, <2>3, <2>4, <2>5 DEF ParserInv
<1>31. CacheInv'
  <2>1. \A j \in 1..Len(wire') : wire'[j].cs \in Streams
    BY <1>17 DEF IInv, CacheInv
  <2>2. ASSUME NEW x \in Streams
        PROVE  chunk_cache_'[x].current <= chunk_cache_'[x].msg_length
    <3>1. CASE x = c.cs
      BY <1>29, <3>1
    <3>2. CASE x # c.cs
      BY <1>28, <3>2 DEF IInv, CacheInv
    <3> QED  BY <3>1, <3>2
  <2>3. previous' \in [Streams -> Previous]
    BY DEF IInv, CacheInv
  <2> QED  BY <1>28, <2>1, <2>2, <2>3 DEF CacheInv
<1>32. StaysInStep'
  <2>1. ~whole => shortened
    BY <1>1 DEF IInv, WireInv, Full
  <2>2. misread' # "no" => ~whole
    BY <1>14, <1>15
  <2>3. misread' # "body"
    BY <1>14
  <2> QED  BY <2>1, <2>2, <2>3 DEF StaysInStep
<1>33. PlaceInv'
  <2>1. /\ written \in Nat /\ inflight \in Nat /\ data_cache_ \in Nat
        /\ wire[1].at + data_cache_ + inflight = written
    BY DEF IInv, PlaceInv
  <2>2. data_cache_' \in Nat /\ data_cache_' = data_cache_ - Asked(c, k)
    BY <1>10, <1>13, <1>r, <2>1
  <2>3. ASSUME NEW j \in 1..(Len(wire') - 1)
        PROVE  wire'[j].at + WireLength(wire'[j]) = wire'[j + 1].at
    <3>1. j \in 1..(n - 1) /\ j + 1 \in 1..(n - 1)
      BY <1>17, <1>18, <2>3
    <3>2. wire'[j] = wire[j + 1] /\ wire'[j + 1] = wire[(j + 1) + 1]
      BY <1>17, <3>1
    <3> QED  BY <3>1, <3>2 DEF IInv, PlaceInv
  <2>4. ASSUME wire' # <<>>
        PROVE  wire'[Len(wire')].at + WireLength(wire'[Len(wire')]) = written
    <3>1. n > 1
      BY <1>20, <1>21, <2>4
    <3>2. Len(wire') \in 1..(n - 1) /\ Len(wire') + 1 = n
      BY <1>17, <1>18, <3>1
    <3>3. wire'[Len(wire')] = wire[n]
      BY <1>17, <3>2
    <3> QED  BY <3>3 DEF IInv, PlaceInv
  <2>5. ASSUME NEW j \in 1..Len(wire'), Whole(wire'[j])
        PROVE  wire'[j].at + WireLength(wire'[j]) <= written
    BY <1>17, <2>5 DEF IInv, PlaceInv
  <2>6. c.at \in Nat
    BY <1>1 DEF Chunk
  <2>7. ASSUME misread' = "no" PROVE Asked(c, k) = WireLength(c)
    BY <1>13, <2>7
  <2>8. ASSUME misread' = "no", wire' = <<>> PROVE data_cache_' + inflight = 0
    <3>1. n = 1
      BY <1>19, <1>21, <2>8
    <3>2. c.at + WireLength(c) = written
      BY <3>1 DEF IInv, PlaceInv
    <3> DEFINE long == WireLength(c)
               place == c.at
    <3>3. /\ long \in Nat /\ place \in Nat /\ place + long = written
          /\ place + data_cache_ + inflight = written /\ data_cache_' = data_cache_ - long
      BY <1>10, <2>1, <2>2, <2>6, <2>7, <2>8, <3>2
    <3> HIDE DEF long, place
    <3> QED  BY <2>1, <3>3
  <2>9. ASSUME misread' = "no", wire' # <<>>
        PROVE  wire'[1].at + data_cache_' + inflight = written
    <3>1. 1 \in 1..(n - 1)
      BY <1>18, <1>20, <1>21, <2>9
    <3>2. wire'[1] = wire[1 + 1] /\ c.at + WireLength(c) = wire[1 + 1].at
      BY <1>17, <3>1 DEF IInv, PlaceInv
    <3> QED  BY <1>10, <2>1, <2>2, <2>6, <2>7, <2>9, <3>2
  <2>10. parsing' /\ written' = written /\ inflight' = inflight
    BY <1>13
  <2> QED  BY <2>1, <2>2, <2>3, <2>4, <2>5, <2>8, <2>9, <2>10 DEF PlaceInv
<1>34. DueInv'
  <2>1. /\ due \in Seq(Packet) /\ packets \in Seq(Packet) /\ Len(due) \in Nat
        /\ Len(packets) \in Nat /\ Len(packets) <= Len(due)
        /\ \A i \in 1..Len(packets) : packets[i] = due[i]
    BY DEF IInv, DueInv, InOrder
  <2>2. c.order = Len(packets) + 1
    BY <1>2 DEF IInv, DueInv
  <2>3. ASSUME Yields(c)
        PROVE  c.order <= Len(due) /\ due[c.order] = Expected(c)
    BY <1>1, <2>3 DEF IInv, DueInv
  <2>4. Decoded(k, c) = IF Yields(c) THEN << Expected(c) >> ELSE <<>>
    <3>1. Message(k, c) = [type |-> c.type, length |-> c.length, value |-> c.value]
      BY <1>r DEF Message
    <3>2. Yields(Message(k, c)) = Yields(c)
      BY <3>1 DEF Yields, ReadsPast
    <3>3. [type |-> k.msg_type_id, length |-> k.msg_length, timestamp |-> k.timestamp]
             = Expected(c)
      BY <1>r DEF Expected
    <3> QED  BY <3>2, <3>3 DEF Decoded
  <2>5. c.type \in Types /\ c.timestamp \in 0..(TimeWord - 1)
    BY <1>1 DEF Chunk
  <2>6. Expected(c) \in Packet
    BY <1>2, <2>5, ExpectedIs
  <2>7. finish => Len(packets') = Len(packets) + Counted(c)
    BY <1>13, <2>1, <2>4, <2>6 DEF Counted
  <2>8. packets' \in Seq(Packet) /\ InOrder'
    <3>1. CASE finish /\ Yields(c)
      <4>1. packets' = packets \o << Expected(c) >>
        BY <1>13, <2>4, <3>1
      <4>2. /\ packets' \in Seq(Packet) /\ Len(packets') = Len(packets) + 1
            /\ \A i \in 1..Len(packets) : packets'[i] = packets[i]
            /\ packets'[Len(packets) + 1] = Expected(c)
        BY <2>1, <2>6, <4>1
      <4>3. Len(packets) + 1 <= Len(due) /\ due[Len(packets) + 1] = Expected(c)
        BY <2>2, <2>3, <3>1
      <4>4. ASSUME NEW i \in 1..Len(packets') PROVE packets'[i] = due[i]
        <5>1. i \in 1..Len(packets) \/ i = Len(packets) + 1
          BY <2>1, <4>2
        <5> QED  BY <2>1, <4>2, <4>3, <5>1
      <4> QED  BY <4>2, <4>3, <4>4 DEF InOrder
    <3>2. CASE ~(finish /\ Yields(c))
      <4>1. packets' = packets
        BY <1>13, <2>1, <2>4, <3>2
      <4> QED  BY <2>1, <4>1 DEF InOrder
    <3> QED  BY <3>1, <3>2
  <2>9. ASSUME NEW j \in 1..Len(wire'), Yields(wire'[j])
        PROVE  wire'[j].order <= Len(due) /\ due[wire'[j].order] = Expected(wire'[j])
    <3>1. wire'[j] = wire[j + 1] /\ j + 1 \in 1..n
      BY <1>17
    <3>2. Yields(wire[j + 1])
      BY <2>9, <3>1
    <3>3. \A i \in 1..n : Yields(wire[i]) =>
             wire[i].order <= Len(due) /\ due[wire[i].order] = Expected(wire[i])
      BY DEF IInv, DueInv
    <3> QED  BY <3>1, <3>2, <3>3
  <2>10. ASSUME NEW j \in 1..(Len(wire') - 1), Whole(wire'[j])
         PROVE  wire'[j + 1].order = wire'[j].order + Counted(wire'[j])
    <3>1. j \in 1..(n - 1) /\ j + 1 \in 1..(n - 1)
      BY <1>17, <1>18, <2>10
    <3>2. wire'[j] = wire[j + 1] /\ wire'[j + 1] = wire[(j + 1) + 1]
      BY <1>17, <3>1
    <3> QED  BY <2>10, <3>1, <3>2 DEF IInv, DueInv
  <2>11. ASSUME wire' # <<>>, Whole(wire'[Len(wire')])
         PROVE  Len(due) + 1 = wire'[Len(wire')].order + Counted(wire'[Len(wire')])
    <3>1. n > 1
      BY <1>20, <1>21, <2>11
    <3>2. Len(wire') \in 1..(n - 1) /\ Len(wire') + 1 = n
      BY <1>17, <1>18, <3>1
    <3>3. wire'[Len(wire')] = wire[n]
      BY <1>17, <3>2
    <3> QED  BY <2>11, <3>3 DEF IInv, DueInv
  <2>12. Counted(c) \in Nat
    BY DEF Counted
  <2>13. ASSUME misread' = "no", wire' = <<>> PROVE Len(packets') = Len(due)
    <3>1. n = 1 /\ whole
      BY <1>19, <1>20, <1>21, <2>13
    <3>2. Len(due) + 1 = c.order + Counted(c)
      BY <3>1 DEF IInv, DueInv
    <3>3. Len(packets') = Len(packets) + Counted(c)
      BY <1>12, <1>15, <2>7, <3>1
    <3> QED  BY <2>1, <2>2, <2>12, <3>2, <3>3
  <2>14. ASSUME misread' = "no", wire' # <<>>, wire'[1].opens
         PROVE  wire'[1].order = Len(packets') + 1
    <3>1. 1 \in 1..(n - 1)
      BY <1>18, <1>20, <1>21, <2>14
    <3>2. whole
      BY <1>19, <1>20, <1>21, <2>14 DEF Follows
    <3>3. wire'[1] = wire[1 + 1] /\ wire[1 + 1].order = c.order + Counted(c)
      BY <1>17, <3>1, <3>2 DEF IInv, DueInv
    <3>4. Len(packets') = Len(packets) + Counted(c)
      BY <1>12, <1>15, <2>7, <3>2
    <3> QED  BY <2>1, <2>2, <2>12, <3>3, <3>4
  <2> QED  BY <2>1, <2>8, <2>9, <2>10, <2>11, <2>13, <2>14 DEF DueInv
<1> QED  BY <1>22, <1>30, <1>31, <1>32, <1>33, <1>34 DEF IInv

\* A turn of the loop of processData.
LEMMA RecvKeeps ==
    ASSUME IInv, RecvRtmpMessage
    PROVE  IInv'
<1>1. /\ misread = "no" /\ wire # <<>> /\ wire[1] \in Chunk /\ parsing
      /\ UNCHANGED <<outSize, inflight, written, previous, due, shortened>>
  BY RecvCases
<1>2. CASE wire[1].fmt # 0 /\ Misreads("format")
  BY <1>1, <1>2, MisreadsKeeps
<1>5. CASE ReadsPast(wire[1]) /\ Misreads("body")
  BY <1>1, <1>5, MisreadsKeeps
<1>3. ASSUME NEW k, Kept(k), GiveUp(wire[1].cs, k)
      PROVE  IInv'
  BY <1>1, <1>3, GiveUpKeeps
<1>4. ASSUME wire[1].fmt = 0, NEW k, Read(k), Take(wire[1], k, Asked(wire[1], k))
      PROVE  IInv'
  BY <1>1, <1>4, TakeKeeps
<1> QED  BY <1>2, <1>3, <1>4, <1>5, RecvCases

\* Bytes arrive and the loop starts; or it ends, with nothing left.
LEMMA LoopKeeps ==
    ASSUME IInv,
           UNCHANGED <<in_chunk_size, chunk_cache_, packets, misread, outSize, wire,
                       written, previous, due, shortened>>,
           \/ (\E i \in 1..inflight : OnRecvData(i)) \/ LoopEnds
    PROVE  IInv'
<1>1. WireInv'
  BY DEF IInv, WireInv
<1>2. ParserInv'
  <2>1. parsing' \in BOOLEAN /\ misread' # "body"
    BY DEF OnRecvData, LoopEnds
  <2> QED  BY <2>1 DEF IInv, ParserInv, Agreed
<1>3. CacheInv'
  BY DEF IInv, CacheInv
<1>4. DueInv'
  BY DEF IInv, DueInv, InOrder
<1>5. PlaceInv'
  <2>0. /\ data_cache_ \in Nat /\ inflight \in Nat /\ written \in Nat
        /\ wire \in Seq(Chunk)
    BY DEF IInv, PlaceInv, WireInv
  <2>1. ASSUME NEW i \in 1..inflight, OnRecvData(i) PROVE PlaceInv'
    <3>1. data_cache_' = data_cache_ + i /\ inflight' = inflight - i /\ parsing'
      BY <2>1 DEF OnRecvData
    <3>i. i \in Nat /\ i <= inflight
      BY <2>0
    <3>2. data_cache_' \in Nat /\ inflight' \in Nat
      BY <2>0, <3>1, <3>i
    <3>s. data_cache_' + inflight' = data_cache_ + inflight
      BY <2>0, <3>1, <3>i
    <3>3. ASSUME wire # <<>>, misread = "no"
          PROVE  wire[1].at + data_cache_' + inflight' = written
      <4>1. wire[1] \in Chunk
        BY <2>0, <3>3
      <4>2. wire[1].at \in Nat
        BY <4>1 DEF Chunk
      <4>3. wire[1].at + data_cache_ + inflight = written
        BY <3>3 DEF IInv, PlaceInv
      <4> DEFINE at == wire[1].at
      <4>4. at \in Nat /\ at + data_cache_ + inflight = written
        BY <4>2, <4>3
      <4> HIDE DEF at
      <4>5. at + (data_cache_ + inflight) = written
        BY <2>0, <4>4
      <4>6. at + (data_cache_' + inflight') = written
        BY <3>s, <4>5
      <4>7. at + data_cache_' + inflight' = written
        BY <3>2, <4>4, <4>6
      <4> QED  BY <4>7 DEF at
    <3> QED  BY <3>1, <3>2, <3>3, <3>s DEF IInv, PlaceInv
  <2>2. CASE LoopEnds
    <3>1. data_cache_ = 0 /\ data_cache_' = 0 /\ inflight' = inflight
      BY <2>2 DEF LoopEnds, server
    <3>2. ASSUME wire # <<>> PROVE data_cache_' < WireLength(wire[1])
      <4>1. wire[1] \in Chunk
        BY <2>0, <3>2
      <4> QED  BY <3>1, <4>1, ChunkHasBytes
    <3> QED  BY <3>1, <3>2 DEF IInv, PlaceInv
  <2> QED  BY <2>1, <2>2
<1> QED  BY <1>1, <1>2, <1>3, <1>4, <1>5 DEF IInv, StaysInStep

\* Nothing changes.
LEMMA StutterKeeps == ASSUME IInv, UNCHANGED vars PROVE IInv'
<1> USE DEF IInv, vars, client, server
<1>1. WireInv'
  BY DEF WireInv
<1>2. ParserInv'
  BY DEF ParserInv, Agreed
<1>3. CacheInv'
  BY DEF CacheInv
<1>4. PlaceInv'
  BY DEF PlaceInv
<1>5. DueInv'
  BY DEF DueInv, InOrder
<1> QED  BY <1>1, <1>2, <1>3, <1>4, <1>5 DEF StaysInStep

\* Every step keeps the invariant.
THEOREM Inductive == IInv /\ [Next]_vars => IInv'
<1> SUFFICES ASSUME IInv, [Next]_vars PROVE IInv'
  OBVIOUS
<1>1. ASSUME NEW m \in ServerMessages, NEW fmt \in 0..3, ServerSend(m, fmt) PROVE IInv'
  BY <1>1, ServerSendKeeps
<1>2. ASSUME NEW i \in 1..inflight, OnRecvData(i) PROVE IInv'
  <2>1. UNCHANGED <<in_chunk_size, chunk_cache_, packets, misread, outSize, wire,
                    written, previous, due, shortened>>
    BY <1>2 DEF OnRecvData
  <2> QED  BY <1>2, <2>1, LoopKeeps
<1>3. CASE RecvRtmpMessage
  BY <1>3, RecvKeeps
<1>4. CASE LoopEnds
  <2>1. UNCHANGED <<in_chunk_size, chunk_cache_, packets, misread, outSize, wire,
                    written, previous, due, shortened>>
    BY <1>4 DEF LoopEnds, server
  <2> QED  BY <1>4, <2>1, LoopKeeps
<1>5. CASE UNCHANGED vars
  BY <1>5, StutterKeeps
<1> QED  BY <1>1, <1>2, <1>3, <1>4, <1>5 DEF Next, Idle

-----------------------------------------------------------------------------
(* The properties *)

\* The invariant implies the two halves of InStep.
LEMMA ImpliesInStep == IInv => InStep
<1> SUFFICES ASSUME IInv PROVE ChunkSizeInStep
  BY DEF IInv, InStep
<1>1. SUFFICES ASSUME wire # <<>>, Head(wire).size >= RTMP_DEFAULT_CHUNKSIZE, misread = "no"
               PROVE  in_chunk_size = Head(wire).size
  BY DEF ChunkSizeInStep
<1>2. Head(wire) = wire[1]
  BY <1>1 DEF IInv, WireInv
<1> QED  BY <1>1, <1>2 DEF IInv, ParserInv, Agreed

\* It implies the types, and that the bytes cached and in flight are those of
\* the chunks not consumed.
LEMMA ImpliesTypeOK == IInv => TypeOK
<1> SUFFICES ASSUME IInv PROVE TypeOK
  OBVIOUS
<1>1. /\ data_cache_ \in Nat /\ inflight \in Nat /\ written \in Nat
      /\ parsing \in BOOLEAN /\ misread \in {"no", "format", "size", "body"}
      /\ in_chunk_size \in Nat /\ in_chunk_size >= RTMP_DEFAULT_CHUNKSIZE
  BY DEF IInv, ParserInv, PlaceInv
<1>2. ASSUME NEW cs \in DOMAIN chunk_cache_
      PROVE  /\ chunk_cache_[cs].timestamp \in 0..(TimeWord - 1)
             /\ chunk_cache_[cs].current \in 0..chunk_cache_[cs].msg_length
  <2>1. cs \in Streams /\ chunk_cache_[cs] \in Record
    BY DEF IInv, CacheInv
  <2>2. chunk_cache_[cs].current <= chunk_cache_[cs].msg_length
    BY <2>1 DEF IInv, CacheInv
  <2> QED  BY <2>1, <2>2 DEF Record
<1>3. ASSUME misread = "no"
      PROVE  data_cache_ + inflight = IF wire = <<>> THEN 0 ELSE written - Head(wire).at
  <2>1. CASE wire = <<>>
    BY <1>3, <2>1 DEF IInv, PlaceInv
  <2>2. CASE wire # <<>>
    <3>1. wire[1] \in Chunk /\ Head(wire) = wire[1]
      BY <2>2 DEF IInv, WireInv
    <3>2. wire[1].at \in Nat
      BY <3>1 DEF Chunk
    <3>3. wire[1].at + data_cache_ + inflight = written
      BY <1>3, <2>2 DEF IInv, PlaceInv
    <3> QED  BY <1>1, <2>2, <3>1, <3>2, <3>3
  <2> QED  BY <2>1, <2>2
<1> QED  BY <1>1, <1>2, <1>3 DEF TypeOK

\* It implies that what is handed up is what was sent.
LEMMA ImpliesReceived == IInv => ReceivedAsSent
<1> SUFFICES ASSUME IInv PROVE ReceivedAsSent
  OBVIOUS
<1>1. InOrder
  BY DEF IInv, DueInv
<1>2. ASSUME ~parsing, inflight = 0, ~shortened
      PROVE  wire = <<>> /\ Len(packets) = Len(due)
  <2>1. misread = "no"
    BY <1>2 DEF IInv, StaysInStep, ParserInv
  <2>2. ASSUME wire # <<>> PROVE FALSE
    <3>1. 1 \in 1..Len(wire) /\ wire[1] \in Chunk
      BY <2>2 DEF IInv, WireInv
    <3>2. Full(wire[1]) /\ Whole(wire[1])
      BY <1>2, <3>1 DEF IInv, WireInv, Full
    <3>3. data_cache_ < WireLength(wire[1])
      BY <1>2, <2>1, <2>2, <3>2 DEF IInv, PlaceInv
    <3>4. wire[1].at + WireLength(wire[1]) <= written
      BY <3>1, <3>2 DEF IInv, PlaceInv
    <3>5. wire[1].at + data_cache_ + inflight = written
      BY <2>1, <2>2 DEF IInv, PlaceInv
    <3>6. data_cache_ \in Nat /\ written \in Nat
      BY DEF IInv, PlaceInv
    <3>7. wire[1].at \in Nat /\ WireLength(wire[1]) \in Nat
      BY <3>1, ChunkHasBytes DEF Chunk
    <3> QED  BY <1>2, <3>3, <3>4, <3>5, <3>6, <3>7
  <2>3. Len(packets) = Len(due)
    BY <2>1, <2>2 DEF IInv, DueInv
  <2> QED  BY <2>2, <2>3
<1> QED  BY <1>1, <1>2 DEF ReceivedAsSent, NothingHeldBack

\* Whatever the server sends, in whatever segments, the chunk size in force is
\* the one the next chunk was written with, the parser loses its place only
\* after a chunk that leaves header fields out, and it reads past a body only
\* when that is an audio or video message too short to decode.
THEOREM ParserInStep == Spec => []InStep
<1>1. Init => IInv
  BY Initially
<1>2. IInv /\ [Next]_vars => IInv'
  BY Inductive
<1>3. IInv => InStep
  BY ImpliesInStep
<1> QED  BY <1>1, <1>2, <1>3, PTL DEF Spec

\* The fields of processData and recvRtmpMessage keep their types: data_cache_
\* holds, with the bytes in flight, what the server wrote and the client has
\* not consumed, and no stream has more payload than its message.
THEOREM TypesAreRight == Spec => []TypeOK
<1>1. Init => IInv
  BY Initially
<1>2. IInv /\ [Next]_vars => IInv'
  BY Inductive
<1>3. IInv => TypeOK
  BY ImpliesTypeOK
<1> QED  BY <1>1, <1>2, <1>3, PTL DEF Spec

\* For any messages, chunk formats, chunk sizes and TCP segments, the packets
\* recvRtmpMessage hands up are those of the messages sent, in order, with their
\* types, lengths and timestamps, up to the first it misreads; and as long as
\* every chunk has a full header processData stops with none held back.
THEOREM HandsUpWhatWasSent == Spec => []ReceivedAsSent
<1>1. Init => IInv
  BY Initially
<1>2. IInv /\ [Next]_vars => IInv'
  BY Inductive
<1>3. IInv => ReceivedAsSent
  BY ImpliesReceived
<1> QED  BY <1>1, <1>2, <1>3, PTL DEF Spec
=============================================================================
