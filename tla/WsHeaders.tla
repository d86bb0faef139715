------------------------------ MODULE WsHeaders ------------------------------
(***************************************************************************)
(* The round trip of one WebSocket header, and of one frame that           *)
(* encodeData writes: what is written is read again, at every length where *)
(* the format of the header changes.                                       *)
(***************************************************************************)
EXTENDS WsFrames

CONSTANTS
  Lengths,     (* Lengths of payload a header is written for.              *)
  KeyBytes     (* Bytes of masking keys.                                   *)

VARIABLES
  header,      (* The header that is written.                              *)
  bytes,       (* What encode makes of it, << >> before.                   *)
  read,        (* What decode makes of that, or << >>.                     *)
  frame        (* What encodeData makes of a payload of that length, when  *)
               (* it is short.                                             *)

vars == <<header, bytes, read, frame>>

Opcodes == {0, TEXT_FRAME, BINARY_FRAME, CLOSE_FRAME, PING_FRAME, PONG_FRAME}

Headers ==
  [eof : BOOLEAN, opcode : Opcodes, mask : {FALSE}, len : Lengths, key : {<< >>}]
  \cup [eof : BOOLEAN, opcode : Opcodes, mask : {TRUE}, len : Lengths, key : [1 .. 4 -> KeyBytes]]

(* The frames the program writes: data, a close with the three bytes "EOF",*)
(* pings and pongs with nothing; those short enough to be written out.     *)
ShortLength == 200

Written(op, len) ==
  \/ op \in {TEXT_FRAME, BINARY_FRAME} /\ len < ShortLength
  \/ op = CLOSE_FRAME /\ len = 3
  \/ op \in {PING_FRAME, PONG_FRAME} /\ len = 0

Payload(n) == [i \in 1 .. n |-> i]

Init == header \in Headers /\ bytes = << >> /\ read = << >> /\ frame = << >>

Encode ==
  /\ bytes = << >>
  /\ bytes' = EncodeHeader(header)
  /\ frame' = IF Written(header.opcode, header.len)
              THEN EncodeData(Payload(header.len), header.opcode) ELSE << >>
  /\ UNCHANGED <<header, read>>

Decode ==
  /\ bytes # << >>
  /\ read = << >>
  /\ read' = <<DecodeHeader(bytes)>>
  /\ UNCHANGED <<header, bytes, frame>>

Next == Encode \/ Decode

Spec == Init /\ [][Next]_vars

TypeOK == /\ header \in Headers
          /\ \A i \in DOMAIN bytes : bytes[i] \in 0 .. 255
          /\ \A i \in DOMAIN frame : frame[i] \in 0 .. 255

(* A header that encode writes is read as itself by decode, and is as long *)
(* as decode takes it to be, for every length an int can be (encode's      *)
(* three formats, decode's shifts of an int).                              *)
HeaderRoundTrip ==
  /\ read # << >> => read[1] = header
  /\ bytes # << >> => Len(bytes) = HeaderLen(bytes)

(* A data frame of encodeData is read back whole by decodeData.            *)
DataRoundTrip ==
  frame # << >> /\ header.opcode \in {TEXT_FRAME, BINARY_FRAME} =>
    LET d == DecodeData(frame)
    IN  d.dest = Payload(header.len) /\ d.len = header.len /\ d.opcode = header.opcode
=============================================================================
