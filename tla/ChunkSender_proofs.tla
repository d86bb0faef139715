------------------------- MODULE ChunkSender_proofs -------------------------
(***************************************************************************)
(* Proofs about ChunkSender for every cache size, chunk size and load.     *)
(***************************************************************************)
EXTENDS ChunkSender, TLAPS

\* The sender and the peer between two messages and in the middle of one.
PeerInv ==
    /\ peer.ok
    /\ peer.size = out_chunk_size
    /\ pc = "idle" => peer.left = 0
    /\ pc = "copy" => peer.left = IF start = 0 THEN 0 ELSE msg.length - start

\* The cache has room for one more header, and holds what is not handed over.
CacheInv ==
    /\ CacheSize - index > RTMP_CHUNK_FMT0_HEADER_MAX_SIZE
    /\ pc = "copy" => emitted = handed + index
    /\ pc = "idle" => emitted = handed /\ index = 0

IInv ==
    /\ TypeOK
    /\ PeerInv
    /\ CacheInv
    /\ OverrunBounded
    /\ OnlyLargeOverrun
    /\ msg \in Messages \/ pc = "idle"

-----------------------------------------------------------------------------
\* Sequences: one element, one more, one less, another head.
LEMMA SeqFacts ==
    ASSUME NEW S, NEW e \in S, NEW s \in Seq(S)
    PROVE  /\ <<>> \in Seq(S) /\ <<e>> \in Seq(S) /\ Append(s, e) \in Seq(S)
           /\ s # <<>> => /\ s[1] \in S /\ Tail(s) \in Seq(S)
                          /\ [s EXCEPT ![1] = e] \in Seq(S)
  OBVIOUS

Part == [from : Nat, to : Nat]

\* What libuv's queue becomes.
LEMMA UvWriteType ==
    ASSUME NEW n \in Nat, writes \in Seq(Part), UvWrite(n)
    PROVE  writes' \in Seq(Part)
<1>1. CASE writes = <<>>
  <2>1. PICK k \in KernelTakes(n) :
               writes' = IF k = n THEN <<>> ELSE <<[from |-> k, to |-> n]>>
    BY <1>1 DEF UvWrite
  <2>2. [from |-> k, to |-> n] \in Part
    BY LoadAssumption DEF KernelTakes, Part
  <2> QED
    BY <2>1, <2>2, SeqFacts
<1>2. CASE writes # <<>>
  <2>1. [from |-> 0, to |-> n] \in Part
    BY DEF Part
  <2>2. writes' = Append(writes, [from |-> 0, to |-> n])
    BY <1>2 DEF UvWrite
  <2> QED
    BY <2>1, <2>2, SeqFacts
<1> QED
  BY <1>1, <1>2

LEMMA InitIInv == Init => IInv
<1> SUFFICES ASSUME Init PROVE IInv
  OBVIOUS
<1>1. /\ writes \in Seq([from : Nat, to : Nat])
      /\ msg \in [type : {"SetChunkSize", "other"}, length : Nat, extended : BOOLEAN,
                  value : ChunkSizes \cup {1}]
      /\ peer \in [size : ChunkSizes \cup {DefaultChunk}, left : Nat, ok : BOOLEAN]
  BY CacheAssumption DEF Init
<1>2. /\ out_chunk_size \in ChunkSizes \cup {DefaultChunk}
      /\ start \in 0..msg.length /\ overruns = {}
  BY DEF Init
<1>3. TypeOK
  BY <1>1, <1>2 DEF Init, TypeOK
<1> QED
  BY <1>2, <1>3, CacheAssumption
  DEF Init, IInv, PeerInv, CacheInv, OverrunBounded, OnlyLargeOverrun,
      RTMP_CHUNK_FMT0_HEADER_MAX_SIZE

\* The messages sent.
LEMMA MessageFacts ==
    ASSUME NEW m \in Messages
    PROVE  /\ m \in [type : {"SetChunkSize", "other"}, length : Nat,
                     extended : BOOLEAN, value : ChunkSizes \cup {1}]
           /\ m.length \in Nat \ {0}
           /\ m.type = "SetChunkSize" => m.value \in ChunkSizes
<1>1. CASE m \in [type : {"SetChunkSize"}, length : {4}, extended : {FALSE},
                 value : ChunkSizes]
  <2>1. m.length = 4 /\ m.extended \in BOOLEAN /\ m.value \in ChunkSizes
    BY <1>1
  <2>2. m = [type |-> m.type, length |-> m.length, extended |-> m.extended,
             value |-> m.value]
    BY <1>1
  <2>3. m.type = "SetChunkSize"
    BY <1>1
  <2> QED
    BY <2>1, <2>2, <2>3
<1>2. CASE m \in [type : {"other"}, length : Lengths, extended : BOOLEAN, value : {1}]
  <2>1. m.length \in Nat \ {0} /\ m.extended \in BOOLEAN /\ m.value = 1
    BY <1>2, LoadAssumption
  <2>2. m = [type |-> m.type, length |-> m.length, extended |-> m.extended,
             value |-> m.value]
    BY <1>2
  <2>3. m.type = "other"
    BY <1>2
  <2> QED
    BY <2>1, <2>2, <2>3
<1> QED
  BY <1>1, <1>2 DEF Messages

LEMMA SendIInv == ASSUME IInv, NEW m \in Messages, SendRtmpMessage(m) PROVE IInv'
<1>1. /\ m \in [type : {"SetChunkSize", "other"}, length : Nat, extended : BOOLEAN,
                value : ChunkSizes \cup {1}]
      /\ m.length \in Nat
  BY MessageFacts
<1>2. TypeOK'
  BY <1>1 DEF SendRtmpMessage, IInv, TypeOK
<1> QED
  BY <1>1, <1>2, CacheAssumption
  DEF SendRtmpMessage, IInv, PeerInv, CacheInv, OverrunBounded, OnlyLargeOverrun,
      RTMP_CHUNK_FMT0_HEADER_MAX_SIZE

LEMMA CopyIInv == ASSUME IInv, CopyChunk PROVE IInv'
<1> DEFINE first == start = 0
           header == HeaderLength(first, msg.extended)
           len == LeastOf(out_chunk_size, msg.length - start)
           filled == index + header + len
<1>1. /\ TypeOK /\ PeerInv /\ CacheInv /\ OverrunBounded /\ OnlyLargeOverrun
      /\ pc = "copy" /\ msg \in Messages /\ start < msg.length
  BY DEF IInv, CopyChunk
<1>2. /\ start \in Nat /\ msg.length \in Nat /\ index \in Nat /\ CacheSize \in Nat
      /\ emitted \in Nat /\ handed \in Nat
      /\ out_chunk_size \in Nat \ {0} /\ msg.extended \in BOOLEAN
  BY <1>1, CacheAssumption, LoadAssumption DEF TypeOK
<1>3. /\ len \in 1..(msg.length - start) /\ len <= out_chunk_size
  <2> DEFINE rest == msg.length - start
  <2>1. rest \in Nat /\ rest > 0
    BY <1>1, <1>2
  <2> HIDE DEF rest
  <2>2. /\ LeastOf(out_chunk_size, rest) \in 1..rest
        /\ LeastOf(out_chunk_size, rest) <= out_chunk_size
    BY <1>2, <2>1 DEF LeastOf
  <2> QED
    BY <2>2 DEF rest
<1>4. header \in 1..16
  BY <1>2 DEF HeaderLength
<1>5. /\ start' = start + len /\ emitted' = emitted + header + len
      /\ PeerTakes(first, msg.length, len)
      /\ overruns' = IF filled <= CacheSize THEN overruns
                     ELSE overruns \cup {[emitted |-> emitted + header + len,
                                          past |-> filled - CacheSize,
                                          size |-> out_chunk_size]}
      /\ clobbered' \in BOOLEAN
      /\ IF FlushNeeded(filled)
         THEN UvWrite(filled) /\ index' = 0 /\ handed' = handed + filled
         ELSE index' = filled /\ UNCHANGED <<writes, handed>>
      /\ UNCHANGED <<out_chunk_size, pc, msg, count>>
  <2>1. clobbered' \in BOOLEAN
    BY DEF CopyChunk
  <2> QED
    BY <2>1 DEF CopyChunk
<1> HIDE DEF header, len
<1>6. filled \in Nat /\ filled > 0
  BY <1>2, <1>3, <1>4
<1>7. /\ peer' = [size |-> peer.size, left |-> msg.length - start - len, ok |-> TRUE]
  <2>1. peer = [size |-> peer.size, left |-> peer.left, ok |-> TRUE]
    BY <1>1 DEF TypeOK, PeerInv
  <2>2. (IF first THEN msg.length ELSE peer.left) = msg.length - start
    BY <1>1, <1>2 DEF PeerInv
  <2>3. first <=> peer.left = 0
    BY <1>1, <1>2 DEF PeerInv
  <2>4. len = LeastOf(msg.length - start, peer.size)
    BY <1>1, <1>2 DEF len, PeerInv, LeastOf
  <2> QED
    BY <1>1, <1>5, <2>1, <2>2, <2>3, <2>4 DEF PeerTakes, PeerInv
<1>8. PeerInv'
  BY <1>1, <1>2, <1>3, <1>5, <1>7 DEF PeerInv
<1>9. CacheInv'
  <2>1. CASE FlushNeeded(filled)
    BY <1>1, <1>2, <1>3, <1>4, <1>5, <2>1, CacheAssumption
    DEF CacheInv, RTMP_CHUNK_FMT0_HEADER_MAX_SIZE
  <2>2. CASE ~FlushNeeded(filled)
    BY <1>1, <1>2, <1>3, <1>4, <1>5, <2>2
    DEF CacheInv, FlushNeeded, RTMP_CHUNK_FMT0_HEADER_MAX_SIZE
  <2> QED
    BY <2>1, <2>2
<1>10. ASSUME filled > CacheSize
       PROVE  /\ filled - CacheSize \in Nat /\ filled - CacheSize < out_chunk_size
              /\ emitted + header + len > CacheSize
              /\ emitted + header + len \in Nat
  BY <1>1, <1>2, <1>3, <1>4, <1>10 DEF CacheInv, RTMP_CHUNK_FMT0_HEADER_MAX_SIZE
<1>11. OverrunBounded' /\ OnlyLargeOverrun'
  BY <1>1, <1>2, <1>5, <1>6, <1>10 DEF OverrunBounded, OnlyLargeOverrun
<1>12. TypeOK'
  <2>1. writes' \in Seq([from : Nat, to : Nat])
    BY <1>1, <1>5, <1>6, UvWriteType DEF TypeOK, Part
  <2>2. index' \in Nat /\ handed' \in Nat /\ emitted' \in Nat
    BY <1>2, <1>3, <1>4, <1>5, <1>6
  <2>3. start' \in 0..msg'.length
    BY <1>2, <1>3, <1>5
  <2>4. overruns' \subseteq [emitted : Nat, past : Nat, size : Nat]
    BY <1>1, <1>2, <1>5, <1>6, <1>10 DEF TypeOK
  <2>5. peer' \in [size : ChunkSizes \cup {DefaultChunk}, left : Nat, ok : BOOLEAN]
    BY <1>1, <1>2, <1>3, <1>7 DEF TypeOK
  <2> QED
    BY <1>1, <1>5, <2>1, <2>2, <2>3, <2>4, <2>5 DEF TypeOK
<1> QED
  BY <1>1, <1>5, <1>8, <1>9, <1>11, <1>12 DEF IInv

LEMMA EndIInv == ASSUME IInv, EndMessage PROVE IInv'
<1>1. /\ TypeOK /\ PeerInv /\ CacheInv /\ OverrunBounded /\ OnlyLargeOverrun
      /\ pc = "copy" /\ msg \in Messages /\ start = msg.length
  BY DEF IInv, EndMessage
<1>2. /\ msg.length \in Nat \ {0} /\ index \in Nat
      /\ msg.type = "SetChunkSize" => msg.value \in ChunkSizes
  BY <1>1, MessageFacts DEF TypeOK
<1>3. writes' \in Seq([from : Nat, to : Nat])
  BY <1>1, <1>2, UvWriteType DEF EndMessage, TypeOK, Part
<1>4. TypeOK'
  <2>1. peer' \in [size : ChunkSizes \cup {DefaultChunk}, left : Nat, ok : BOOLEAN]
    <3>1. CASE msg.type = "SetChunkSize"
      BY <1>1, <1>2, <3>1 DEF EndMessage, TypeOK
    <3>2. CASE msg.type # "SetChunkSize"
      BY <1>1, <3>2 DEF EndMessage, TypeOK
    <3> QED
      BY <3>1, <3>2
  <2>2. /\ out_chunk_size' \in ChunkSizes \cup {DefaultChunk}
        /\ index' = 0 /\ handed' \in Nat /\ pc' = "idle"
    BY <1>1, <1>2 DEF EndMessage, TypeOK
  <2>3. UNCHANGED <<msg, start, count, emitted, overruns, clobbered>>
    BY DEF EndMessage
  <2> QED
    BY <1>1, <1>3, <2>1, <2>2, <2>3 DEF TypeOK
<1>5. PeerInv'
  BY <1>1, <1>2 DEF EndMessage, PeerInv, TypeOK
<1>6. CacheInv'
  BY <1>1, <1>2, CacheAssumption
  DEF EndMessage, CacheInv, TypeOK, RTMP_CHUNK_FMT0_HEADER_MAX_SIZE
<1> QED
  BY <1>1, <1>4, <1>5, <1>6 DEF EndMessage, IInv, OverrunBounded, OnlyLargeOverrun

LEMMA DrainIInv == ASSUME IInv, NEW k \in Nat, Drain(k) PROVE IInv'
<1>1. writes' \in Seq([from : Nat, to : Nat])
  <2> DEFINE head == writes[1]
  <2>1. writes \in Seq(Part) /\ writes # <<>> /\ head \in Part /\ Tail(writes) \in Seq(Part)
    <3>1. writes \in Seq(Part) /\ writes # <<>>
      BY DEF Drain, IInv, TypeOK, Part
    <3>2. [from |-> 0, to |-> 0] \in Part
      BY DEF Part
    <3> QED
      BY <3>1, <3>2, SeqFacts
  <2>2. [head EXCEPT !.from = @ + k] \in Part
    BY <2>1 DEF Part
  <2>3. [writes EXCEPT ![1] = [head EXCEPT !.from = @ + k]] \in Seq(Part)
    BY <2>1, <2>2, SeqFacts
  <2>4. \/ writes' = Tail(writes)
        \/ writes' = [writes EXCEPT ![1] = [head EXCEPT !.from = @ + k]]
    BY DEF Drain
  <2> QED
    BY <2>1, <2>3, <2>4 DEF Part
<1>2. TypeOK'
  BY <1>1 DEF Drain, IInv, TypeOK
<1> QED
  BY <1>2 DEF Drain, IInv, PeerInv, CacheInv, OverrunBounded, OnlyLargeOverrun

\* Every step keeps it.
LEMMA SenderStep == ASSUME IInv, [Next]_vars PROVE IInv'
<1>1. ASSUME NEW m \in Messages, SendRtmpMessage(m) PROVE IInv'
  BY <1>1, SendIInv
<1>2. CASE CopyChunk
  BY <1>2, CopyIInv
<1>3. CASE EndMessage
  BY <1>3, EndIInv
<1>4. ASSUME writes # <<>>,
             NEW k \in KernelTakes(writes[1].to - writes[1].from), Drain(k)
      PROVE  IInv'
  <2>1. writes[1] \in [from : Nat, to : Nat]
    <3>1. writes \in Seq(Part) /\ [from |-> 0, to |-> 0] \in Part
      BY DEF IInv, TypeOK, Part
    <3> QED
      BY <1>4, <3>1, SeqFacts DEF Part
  <2>2. k \in Int /\ 0 < k
    BY <1>4, <2>1, LoadAssumption DEF KernelTakes, Drain
  <2> QED
    BY <1>4, <2>2, DrainIInv
<1>5. CASE Idle \/ UNCHANGED vars
  BY <1>5 DEF Idle, vars, IInv, TypeOK, PeerInv, CacheInv, OverrunBounded,
              OnlyLargeOverrun
<1> QED
  BY <1>1, <1>2, <1>3, <1>4, <1>5 DEF Next

\* The inductive invariant holds of every reachable state.
THEOREM Invariance == Spec => []IInv
<1>1. IInv /\ [Next]_vars => IInv'
  BY SenderStep
<1> QED
  BY <1>1, InitIInv, PTL DEF Spec

\* A conforming receiver and do_send_message agree on every chunk boundary.
THEOREM PeerAgrees == Spec => []PeerInStep
<1>1. IInv => PeerInStep
  BY DEF IInv, PeerInv, PeerInStep
<1> QED
  BY <1>1, Invariance, PTL

\* Every byte of a message is handed to libuv by the time it is sent.
THEOREM EverythingHandedOver == Spec => []NothingLeftBehind
<1>1. IInv => NothingLeftBehind
  BY DEF IInv, CacheInv, NothingLeftBehind
<1> QED
  BY <1>1, Invariance, PTL

\* do_send_message overruns send_cache_buf by less than the chunk size, ...
THEOREM OverrunIsBounded == Spec => []OverrunBounded
<1>1. IInv => OverrunBounded
  BY DEF IInv
<1> QED
  BY <1>1, Invariance, PTL

\* ... and only for a message that is longer on the wire than the cache.
THEOREM OverrunNeedsLargeMessage == Spec => []OnlyLargeOverrun
<1>1. IInv => OnlyLargeOverrun
  BY DEF IInv
<1> QED
  BY <1>1, Invariance, PTL

\* Together: the peer cuts the stream where do_send_message did, and nothing of
\* a message that was sent stays in the cache.
THEOREM ChunksStayInStep == Spec => []ChunksInStep
<1> QED
  BY PeerAgrees, EverythingHandedOver, PTL DEF ChunksInStep

\* Together: how far send_cache_buf is overrun, and by which messages.
THEOREM OverrunIsExplained == Spec => []OverrunExplained
<1> QED
  BY OverrunIsBounded, OverrunNeedsLargeMessage, PTL DEF OverrunExplained
=============================================================================
