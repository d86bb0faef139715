---------------------------- MODULE MCMessages ----------------------------
(***************************************************************************)
(* The bytes of messages for TLC: the packets of RtmpPackets, the          *)
(* containers of Amf0Values, and the frames of WebSocket, one by one       *)
(* (WsHeaders) and as a stream (WsStream).  They share no state, so a      *)
(* behaviour runs one of them, system; the variables of the others stay as *)
(* they are initially.                                                     *)
(***************************************************************************)
EXTENDS RtmpPackets

VARIABLES
    system,
    obj, ops, wire, amfCut, got, table, stamp,                    \* Amf0Values
    header, bytes, read, frame,                                   \* WsHeaders
    server, sSent, sWire, cacheMsg, msgLen, delivered, replies, closed, disorder
                                                                  \* WsStream

\* Two keys, one of them empty; the doubles 0.0 and 1.0.
TwoKeys == {<<>>, <<107>>}
PlainNumbers == {<<0, 0, 0, 0, 0, 0, 0, 0>>, <<63, 240, 0, 0, 0, 0, 0, 0>>}

Amf == INSTANCE Amf0Values WITH
    Keys <- TwoKeys, Numbers <- PlainNumbers, Lengths <- {0, 1}, MaxOps <- 3, cut <- amfCut

Headers == INSTANCE WsHeaders WITH
    Lengths <- {0, 1, 3, 125, 126, 127, 128, 255, 256, 65534, 65535, 65536, 16777216,
                2147483647},
    KeyBytes <- {0, 200}

Frames == INSTANCE WsStream WITH
    Kinds <- {"text", "long", "first", "empty", "ping", "ping_data", "pong", "pong_data",
              "close", "close_reason"},
    MaxFrames <- 3,
    sent <- sSent, wire <- sWire

ASSUME AmfAssumption ==
    Amf!KeysAssumption /\ Amf!NumbersAssumption /\ Amf!BoundsAssumption
ASSUME FramesAssumption == Frames!KindsAssumption /\ Frames!MaxFramesAssumption

amf == <<obj, ops, wire, amfCut, got, table, stamp>>
headers == <<header, bytes, read, frame>>
stream == <<server, sSent, sWire, cacheMsg, msgLen, delivered, replies, closed, disorder>>
all == <<system, vars, amf, headers, stream>>

MCInit ==
    /\ system \in {"packets", "amf", "headers", "stream"}
    /\ Init /\ Amf!Init /\ Frames!Init
    /\ system # "amf" => obj.t = "Object"
    /\ system # "stream" => ~server
    /\ IF system = "headers" THEN Headers!Init
       ELSE /\ header = [eof |-> TRUE, opcode |-> 0, mask |-> FALSE, len |-> 0,
                         key |-> <<>>]
            /\ bytes = <<>> /\ read = <<>> /\ frame = <<>>

MCNext ==
    \/ system = "packets" /\ Next /\ UNCHANGED <<system, amf, headers, stream>>
    \/ system = "amf" /\ Amf!Next /\ UNCHANGED <<system, vars, headers, stream>>
    \/ system = "headers" /\ Headers!Next /\ UNCHANGED <<system, vars, amf, stream>>
    \/ system = "stream" /\ Frames!Next /\ UNCHANGED <<system, vars, amf, headers>>

MCSpec == MCInit /\ [][MCNext]_all

-----------------------------------------------------------------------------
\* The type invariants of the four.
TypesOK == TypeOK /\ Amf!TypeOK /\ Headers!TypeOK /\ Frames!TypeOK

\* Values survive rtmp_amf0_write and rtmp_amf0_read_any (rtmp_stack_amf0.cc):
\* UnSortedHashtable keeps what was last set, total_size and write agree, a
\* message is read back as it was written, and one that is cut is refused or
\* gives what had arrived whole.
ValuesSurvive ==
    Amf!LastSetWins /\ Amf!SizeIsWritten /\ Amf!RoundTrip /\ Amf!CutIsPrefix

\* WebSocket frames survive (wsProtocol.cc, NetCore.cc): a header is read as it
\* was written at every length at which its format changes, a data frame whole;
\* what WebSocketClient::process and TcpSocketConn::onMessage hand up is what the
\* frames carried, control frames too, in order, but for the cuts named in
\* disorder, and nothing is missing.
FramesSurvive ==
    /\ Headers!HeaderRoundTrip /\ Headers!DataRoundTrip
    /\ Frames!InOrder /\ Frames!NothingMissing

\* rtmp_amf0_read_any leaves its caller nothing to delete again: "NULL if error"
\* (rtmp_stack_amf0.h).
FreedOnce == Amf!FreedOnce
=============================================================================
