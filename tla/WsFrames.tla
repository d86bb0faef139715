------------------------------ MODULE WsFrames ------------------------------
(***************************************************************************)
(* WebSocket frames as wsProtocol.cc writes and reads them, as operators   *)
(* on sequences of bytes: WsHeader::encode and decode, and encodeData and  *)
(* decodeData of WebSocketProtocolBase.                                    *)
(***************************************************************************)
EXTENDS Integers, Sequences, Bitwise, FiniteSetsExt

TEXT_FRAME   == 1
BINARY_FRAME == 2
CLOSE_FRAME  == 8
PING_FRAME   == 9
PONG_FRAME   == 10

MAX_UINT16 == 65535

(* The n bytes of a number, most significant first.  A length is an int,   *)
(* so the four upper bytes of eight are zero.                              *)
BigEndian(v, n) ==
  [i \in 1 .. n |-> IF n - i > 3 THEN 0 ELSE (v \div 256 ^ (n - i)) % 256]

(* And back: decode shifts an int, so that of eight bytes only the last    *)
(* four can be told from one another; the others are zero here.            *)
FromBigEndian(bytes) ==
  LET n == Len(bytes)
  IN  MapThenSumSet(LAMBDA i : bytes[i] * 256 ^ (n - i), {i \in 1 .. n : n - i <= 3})

Bit7(b) == IF b THEN 128 ELSE 0

(* WsHeader::encode of [eof, opcode, mask, len, key].                      *)
EncodeHeader(h) ==
  <<Bit7(h.eof) + h.opcode>>
  \o (IF h.len < 126 THEN <<Bit7(h.mask) + h.len>>
      ELSE IF h.len < MAX_UINT16 THEN <<Bit7(h.mask) + 126>> \o BigEndian(h.len, 2)
      ELSE <<Bit7(h.mask) + 127>> \o BigEndian(h.len, 8))
  \o (IF h.mask THEN h.key ELSE << >>)

(* Bytes the length takes after the second byte.                           *)
LengthBytes(short) == CASE short = 126 -> 2 [] short = 127 -> 8 [] OTHER -> 0

(* WsHeader::decode reads as many bytes as the first two ask for, whatever *)
(* there are.                                                              *)
HeaderLen(b) == 2 + LengthBytes(b[2] % 128) + (IF b[2] >= 128 THEN 4 ELSE 0)

DecodeHeader(b) ==
  LET short == b[2] % 128
      n     == LengthBytes(short)
  IN  [eof    |-> b[1] >= 128,
       opcode |-> b[1] % 16,
       mask   |-> b[2] >= 128,
       len    |-> IF n = 0 THEN short ELSE FromBigEndian(SubSeq(b, 3, 2 + n)),
       key    |-> IF b[2] >= 128 THEN SubSeq(b, 3 + n, 6 + n) ELSE << >>]

(* encodeData: never masked, and a control frame has no payload, whatever  *)
(* length its header has.                                                  *)
EncodeData(data, opcode) ==
  EncodeHeader([eof |-> TRUE, opcode |-> opcode, mask |-> FALSE, len |-> Len(data), key |-> << >>])
  \o (IF opcode \in {TEXT_FRAME, BINARY_FRAME} THEN data ELSE << >>)

Unmask(payload, key) == [i \in 1 .. Len(payload) |-> payload[i] ^^ key[((i - 1) % 4) + 1]]

(* decodeData: dest gets all that follows the header, unmasked.            *)
DecodeData(b) ==
  LET h == DecodeHeader(b)
      payload == SubSeq(b, HeaderLen(b) + 1, Len(b))
  IN  [len |-> h.len, hlen |-> HeaderLen(b), opcode |-> h.opcode, finish |-> h.eof,
       dest |-> IF h.mask THEN Unmask(payload, h.key) ELSE payload]
=============================================================================
