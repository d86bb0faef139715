----------------------------- MODULE ByteQueue -----------------------------
(***************************************************************************)
(* What a buffer between a producer and a consumer of bytes promises: the  *)
(* bytes come out as they went in.  It takes all of what it is given or    *)
(* nothing.  A buffer that is filled to the brim may lose what it holds    *)
(* (Overfill): DataRingBuf does, DataCacheBuf, which grows, never.         *)
(***************************************************************************)
EXTENDS Naturals, Sequences

CONSTANTS
  Bytes,      (* The values of a byte.                                     *)
  MaxPush,    (* The longest piece given at once.                          *)
  MayLose     (* Whether the buffer has a brim.                            *)

VARIABLES
  queue,      (* What is inside.                                           *)
  given,      (* What the last call put in.                                *)
  taken       (* What the last call took out.                              *)

Pieces == UNION {[1 .. n -> Bytes] : n \in 1 .. MaxPush}

QInit == queue = << >> /\ given = << >> /\ taken = << >>

Push(d)     == queue' = queue \o d /\ given' = d /\ taken' = << >>
Overfill(d) == MayLose /\ queue' = << >> /\ given' = d /\ taken' = << >>
Refuse      == UNCHANGED queue /\ given' = << >> /\ taken' = << >>
Clear       == queue' = << >> /\ given' = << >> /\ taken' = << >>

Pop(n) ==
  /\ given' = << >>
  /\ taken' = SubSeq(queue, 1, n)
  /\ queue' = SubSeq(queue, n + 1, Len(queue))

QNext ==
  \/ \E d \in Pieces : Push(d) \/ Overfill(d)
  \/ \E n \in 0 .. Len(queue) : Pop(n)
  \/ Refuse \/ Clear

QSpec == QInit /\ [][QNext]_<<queue, given, taken>>
=============================================================================
