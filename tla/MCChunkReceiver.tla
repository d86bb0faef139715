-------------------------- MODULE MCChunkReceiver --------------------------
(***************************************************************************)
(* Messages for TLC: chunk sizes below and above the default, one and two  *)
(* byte basic headers, a timestamp below, at and beyond the extended mark  *)
(* and one with the bit the client drops; a message that fills the larger  *)
(* chunk size, two that share a chunk stream, so that the second may leave *)
(* out header fields, an empty audio message, a video message without a    *)
(* packet, and one of a type decode_msg does not know.                     *)
(***************************************************************************)
EXTENDS ChunkReceiver

Offer(type, cs, length, timestamp, value) ==
    [type |-> type, cs |-> cs, length |-> length, timestamp |-> timestamp,
     value |-> value]

Offered ==
    { Offer("SetChunkSize", 2, 4, 0, 6), Offer("SetChunkSize", 2, 4, 0, 2),
      Offer("command", 3, 2, 2, 0),      Offer("audio", 3, 6, 3, 0),
      Offer("audio", 64, 0, 2, 0),       Offer("video", 64, 2, 6, 1),
      Offer("video", 64, 3, 6, 2),       Offer("unknown", 3, 1, 1, 0) }
=============================================================================
