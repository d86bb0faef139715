---------------------------- MODULE DataBuffers ----------------------------
(***************************************************************************)
(* The two buffers of net/DataBuf.cc, side by side.  DataRingBuf writes    *)
(* over two positions that wrap; equal positions mean a full buffer to     *)
(* writeData and an empty one to readData, while an empty buffer is r_Pos_ *)
(* at length_ and w_Pos_ at 0.  DataCacheBuf, which the RTMP client uses,  *)
(* moves its contents to the front at every pop and grows when needed.     *)
(***************************************************************************)
EXTENDS Integers, Sequences

CONSTANTS
  Bytes,        (* The values of a byte.                                   *)
  MaxPush,      (* The longest piece written or read at once.              *)
  RingLen,      (* length_ of a new ring.                                  *)
  MaxRing,      (* The length a ring may grow to.  Bounds the model.       *)
  CacheLen,     (* MAX_CACHE_LEN.                                          *)
  Slack,        (* The 2048 added at each reallocation of the cache.       *)
  MaxCache      (* Bytes in the cache.  Bounds the model.                  *)

LengthsAssumption ==
  /\ RingLen \in Nat \ {0} /\ MaxRing \in Nat /\ RingLen <= MaxRing
  /\ CacheLen \in Nat /\ Slack \in Nat /\ MaxCache \in Nat

VARIABLES
  length_, buf_, r_Pos_, w_Pos_,   (* DataRingBuf.                         *)
  ringGiven, ringTaken,            (* What the last call put in, took out. *)
  ringHeld,                        (* History: written and not yet read.   *)
  nbytes, bytes, length,           (* DataCacheBuf.                        *)
  cacheGiven, cacheTaken           (* What the last call put in, took out. *)

ring  == <<length_, buf_, r_Pos_, w_Pos_, ringGiven, ringTaken, ringHeld>>
cache == <<nbytes, bytes, length, cacheGiven, cacheTaken>>
vars  == <<ring, cache>>

Pieces == UNION {[1 .. n -> Bytes] : n \in 1 .. MaxPush}

(* memcpy of d to offset at of a buffer.                                   *)
CopyTo(b, at, d) ==
  [i \in DOMAIN b |-> IF i \in at .. at + Len(d) - 1 THEN d[i - at + 1] ELSE b[i]]

(* len bytes of a buffer from offset at.                                   *)
CopyFrom(b, at, len) == [i \in 1 .. len |-> b[at + i - 1]]

(* New memory: what is in it no one has written.                           *)
Fresh(n) == [i \in 0 .. n - 1 |-> 0]

-----------------------------------------------------------------------------
(* DataRingBuf                                                             *)

GetUsed(r, w, len) ==
  CASE w > r -> w - r
    [] w < r -> len - (r - w)
    [] w = r -> 0

IsFull == r_Pos_ = w_Pos_

(* The bytes readData would return, from r_Pos_ round to w_Pos_.           *)
Readable(b, r, w, len) ==
  [i \in 1 .. GetUsed(r, w, len) |-> b[(r + i - 1) % len]]

(* writeData: the space left, and whether the piece goes in one copy.      *)
Left == IF w_Pos_ > r_Pos_ THEN length_ - (w_Pos_ - r_Pos_) ELSE r_Pos_ - w_Pos_

Straight(n) == w_Pos_ < r_Pos_ \/ length_ - w_Pos_ >= n

WriteRefused(d) ==
  /\ Len(d) > Left
  /\ ringGiven' = << >>
  /\ ringTaken' = << >>
  /\ UNCHANGED <<length_, buf_, r_Pos_, w_Pos_, ringHeld>>

WriteStraight(d) ==
  /\ Len(d) <= Left
  /\ Straight(Len(d))
  /\ buf_'   = CopyTo(buf_, w_Pos_, d)
  /\ w_Pos_' = w_Pos_ + Len(d)
  /\ ringHeld' = ringHeld \o d
  /\ ringGiven' = d
  /\ ringTaken' = << >>
  /\ UNCHANGED <<length_, r_Pos_>>

(* Mutant: the second half of a piece that wraps is its beginning again.   *)
WriteFirstHalfTwice(d) ==
  /\ Len(d) <= Left
  /\ ~Straight(Len(d))
  /\ LET l == length_ - w_Pos_
     IN  /\ buf_' = CopyTo(CopyTo(buf_, w_Pos_, SubSeq(d, 1, l)), 0, SubSeq(d, 1, Len(d) - l))
         /\ w_Pos_' = Len(d) - l
  /\ ringHeld' = ringHeld \o d
  /\ ringGiven' = d
  /\ ringTaken' = << >>
  /\ UNCHANGED <<length_, r_Pos_>>

WriteWrapped(d) ==
  /\ Len(d) <= Left
  /\ ~Straight(Len(d))
  /\ LET l == length_ - w_Pos_
     IN  /\ buf_' = CopyTo(CopyTo(buf_, w_Pos_, SubSeq(d, 1, l)), 0, SubSeq(d, l + 1, Len(d)))
         /\ w_Pos_' = Len(d) - l
  /\ ringHeld' = ringHeld \o d
  /\ ringGiven' = d
  /\ ringTaken' = << >>
  /\ UNCHANGED <<length_, r_Pos_>>

WriteData(d) == WriteRefused(d) \/ WriteStraight(d) \/ WriteWrapped(d)

(* Mutant: a read does not wrap.                                           *)
NextReadStraight(len) == r_Pos_ + len

(* The position after a read of len, before the reset of an empty buffer.  *)
NextRead(len) ==
  IF w_Pos_ > r_Pos_ \/ len <= length_ - r_Pos_
  THEN r_Pos_ + len
  ELSE len - (length_ - r_Pos_)

ReadData(size) ==
  /\ ~IsFull
  /\ ringGiven' = << >>
  /\ LET used == GetUsed(r_Pos_, w_Pos_, length_)
         len  == IF used >= size THEN size ELSE used
         r    == NextRead(len)
     IN  /\ ringTaken' = SubSeq(Readable(buf_, r_Pos_, w_Pos_, length_), 1, len)
         /\ ringHeld'  = SubSeq(ringHeld, len + 1, Len(ringHeld))
         /\ r_Pos_' = IF r = w_Pos_ THEN length_ ELSE r
         /\ w_Pos_' = IF r = w_Pos_ THEN 0 ELSE w_Pos_
  /\ UNCHANGED <<length_, buf_>>

(* ERROR_NOT_HAVE_DATA                                                     *)
ReadNothing ==
  /\ IsFull
  /\ ringGiven' = << >>
  /\ ringTaken' = << >>
  /\ UNCHANGED <<length_, buf_, r_Pos_, w_Pos_, ringHeld>>

(* What is readable is copied out, and into the new memory from its start. *)
AddRingBufSpace(addSize) ==
  /\ length_ + addSize <= MaxRing
  /\ LET tmp == Readable(buf_, r_Pos_, w_Pos_, length_)
     IN  /\ buf_'   = CopyTo(Fresh(length_ + addSize), 0, tmp)
         /\ w_Pos_' = Len(tmp)
         /\ ringHeld' = tmp
  /\ length_' = length_ + addSize
  /\ r_Pos_'  = length_ + addSize
  /\ ringGiven' = << >>
  /\ ringTaken' = << >>

ClearRing ==
  /\ r_Pos_' = length_
  /\ w_Pos_' = 0
  /\ ringHeld' = << >>
  /\ ringGiven' = << >>
  /\ ringTaken' = << >>
  /\ UNCHANGED <<length_, buf_>>

RingNext ==
  \/ \E d \in Pieces : WriteData(d)
  \/ \E size \in 1 .. MaxPush : ReadData(size)
  \/ ReadNothing
  \/ AddRingBufSpace(1)
  \/ ClearRing

-----------------------------------------------------------------------------
(* DataCacheBuf                                                            *)

PushInPlace(d) ==
  /\ length + Len(d) <= nbytes
  /\ bytes' = CopyTo(bytes, length, d)
  /\ UNCHANGED nbytes

PushGrow(d) ==
  /\ length + Len(d) > nbytes
  /\ nbytes' = length + Len(d) + Slack
  /\ bytes' = CopyTo(CopyTo(Fresh(nbytes'), 0, CopyFrom(bytes, 0, length)), length, d)

PushData(d) ==
  /\ length + Len(d) <= MaxCache
  /\ PushInPlace(d) \/ PushGrow(d)
  /\ length' = length + Len(d)
  /\ cacheGiven' = d
  /\ cacheTaken' = << >>

(* require(len), then data() and pop_data(len), as every reader does.      *)
PopData(len) ==
  /\ len <= length
  /\ cacheGiven' = << >>
  /\ cacheTaken' = CopyFrom(bytes, 0, len)
  /\ bytes'  = CopyTo(bytes, 0, CopyFrom(bytes, len, length - len))
  /\ length' = length - len
  /\ UNCHANGED nbytes

CacheNext ==
  \/ \E d \in Pieces : PushData(d)
  \/ \E len \in 1 .. MaxPush : PopData(len)

-----------------------------------------------------------------------------
Init ==
  /\ length_ = RingLen
  /\ buf_    = Fresh(RingLen)
  /\ r_Pos_  = RingLen
  /\ w_Pos_  = 0
  /\ ringGiven = << >> /\ ringTaken = << >>
  /\ ringHeld  = << >>
  /\ nbytes = CacheLen
  /\ bytes  = Fresh(CacheLen)
  /\ length = 0
  /\ cacheGiven = << >> /\ cacheTaken = << >>

RingSpec  == Init /\ [][RingNext /\ UNCHANGED cache]_vars
CacheSpec == Init /\ [][CacheNext /\ UNCHANGED ring]_vars

TypeOK ==
  /\ length_ \in RingLen .. MaxRing
  /\ DOMAIN buf_ = 0 .. length_ - 1
  /\ r_Pos_ \in 0 .. length_
  /\ w_Pos_ \in 0 .. length_
  /\ ringGiven \in Seq(Bytes) /\ ringTaken \in Seq(Bytes) /\ ringHeld \in Seq(Bytes)
  /\ DOMAIN bytes = 0 .. nbytes - 1
  /\ length \in 0 .. nbytes
  /\ cacheGiven \in Seq(Bytes) /\ cacheTaken \in Seq(Bytes)

RingQueue == INSTANCE ByteQueue WITH
  MayLose <- TRUE,
  queue   <- Readable(buf_, r_Pos_, w_Pos_, length_),
  given   <- ringGiven,
  taken   <- ringTaken

CacheQueue == INSTANCE ByteQueue WITH
  MayLose <- FALSE,
  queue   <- CopyFrom(bytes, 0, length),
  given   <- cacheGiven,
  taken   <- cacheTaken

(* DataRingBuf is a queue of bytes, through wraps, growth and clear, but   *)
(* for what it loses when it is filled.                                    *)
RingImplementsQueue == RingQueue!QSpec

(* DataCacheBuf is a queue of bytes and loses nothing (push_data,          *)
(* pop_data), however often it is moved and reallocated.                   *)
CacheImplementsQueue == CacheQueue!QSpec

(* Nothing is overwritten or forgotten unless the two positions meet, and  *)
(* they meet only when every byte of the ring is used.                     *)
LosesOnlyWhenFull ==
  IF IsFull THEN Len(ringHeld) = length_
            ELSE ringHeld = Readable(buf_, r_Pos_, w_Pos_, length_)

(* An empty ring is at the positions isEmpty looks for, so that a write of *)
(* any size up to length_ is taken.                                        *)
EmptyIsReset == ringHeld = << >> => r_Pos_ = length_ /\ w_Pos_ = 0

-----------------------------------------------------------------------------
(* What the two refinements rest on, inductive.                            *)

(* The positions are within the buffer, whose bytes are some byte's value  *)
(* or what Fresh left, and what has been written is readable or lost.      *)
RingInv ==
  /\ length_ \in Nat \ {0}
  /\ buf_ \in [0 .. length_ - 1 -> Bytes \cup {0}]
  /\ r_Pos_ \in 0 .. length_ /\ w_Pos_ \in 0 .. length_
  /\ ringHeld \in Seq(Bytes)
  /\ LosesOnlyWhenFull /\ EmptyIsReset

CacheInv ==
  /\ nbytes \in Nat /\ length \in 0 .. nbytes
  /\ bytes \in [0 .. nbytes - 1 -> Bytes \cup {0}]
=============================================================================
