---------------------------- MODULE RtmpPackets ----------------------------
(***************************************************************************)
(* The packet classes of rtmp_stack_packet.cc and decode_msg, which finds  *)
(* the class of a message from its type, its command name and the request  *)
(* it answers.  One endpoint encodes a packet; the other one decodes the   *)
(* body, or as much of it as the message header declares.                  *)
(*                                                                         *)
(* Each class is one definition: the message type, get_pkg_len, what       *)
(* encode_pkg writes and the steps of decode, in the order of the code.    *)
(***************************************************************************)
EXTENDS Amf0, TLC

CONSTANTS
    MaxSent,        \* bound: packets sent
    Values          \* AMF0 objects that occur in commands

ASSUME BoundAssumption == MaxSent \in Nat
ASSUME ValuesAssumption == \A v \in Values : v.t = "Object"

VARIABLES
    requests,       \* requestsMap_ of the endpoint that gets the answers
    pkt,            \* the packet sent
    body,           \* its payload
    sent,           \* packets sent so far
    cut,            \* bytes of the body received, -1 before
    result          \* what decode_msg or decode_media_msg gives

vars == <<requests, pkt, body, sent, cut, result>>

-----------------------------------------------------------------------------
(* A command name is one byte, a number the eight bytes of its double.     *)

Cmd == [connect |-> <<65>>, createStream |-> <<66>>, releaseStream |-> <<67>>,
        FCPublish |-> <<68>>, FCUnpublish |-> <<69>>, publish |-> <<70>>,
        play |-> <<71>>, pause |-> <<72>>, closeStream |-> <<73>>,
        setDataFrame |-> <<74>>, onMetaData |-> <<75>>, result |-> <<76>>,
        error |-> <<77>>, onStatus |-> <<78>>, onBWDone |-> <<79>>,
        sampleAccess |-> <<80>>, other |-> <<81>>]

N == [n \in -2..5 |->
        LET head == CASE n = -2 -> <<192, 0>>  [] n = -1 -> <<191, 240>>
                      [] n = 0  -> <<0, 0>>    [] n = 1  -> <<63, 240>>
                      [] n = 2  -> <<64, 0>>   [] n = 3  -> <<64, 8>>
                      [] n = 4  -> <<64, 16>>  [] n = 5  -> <<64, 20>>
        IN  head \o <<0, 0, 0, 0, 0, 0>>]

Num(n) == Scalar("Number", n)
Flag(b) == Scalar("Boolean", b)
Raw(bytes) == [t |-> "Raw", bytes |-> bytes]

NumberSize == 9
NullSize == 1
BooleanSize == 2
StringSize(s) == Size(String(s))
ValueSize(v) == IF v = NoValue THEN 0 ELSE Size(v)

Written(v) == IF v = NoValue THEN <<>> ELSE <<v>>
Optional(condition, item) == IF condition THEN <<item>> ELSE <<>>

-----------------------------------------------------------------------------
(* Steps of a decode: what is read, into which field, and whether the step *)
(* is left out at the end of the body.                                     *)

Read(do, field) == [do |-> do, field |-> field, more |-> FALSE]
ReadIfMore(do, field) == [do |-> do, field |-> field, more |-> TRUE]
Name(names) == [do |-> "name", field |-> "name", more |-> FALSE, names |-> names]
Number == Read("Number", "number")
SkipNull == Read("Null", "")

\* The read of r ends with the field set.
Advance(st, r, field, v) ==
    [st EXCEPT !.at = @ + r.ret,
               !.pkt = IF field = "" THEN @ ELSE [@ EXCEPT ![field] = v]]

\* n bytes are read without a look at what is left.
Take(st, d, n, field) ==
    [st EXCEPT !.at = @ + n, !.past = @ \/ st.at + n > Len(d),
               !.pkt = IF field = "" THEN @
                       ELSE [@ EXCEPT ![field] = Bytes(d, st.at + 1, n)]]

Unsigned(bytes) == FoldLeft(LAMBDA a, b : a * 256 + b, 0, bytes)

TakeCounted(st, d, width, field) ==
    LET head == Take(st, d, width, "")
    IN  IF head.past THEN head
        ELSE Take(head, d, Unsigned(Bytes(d, st.at + 1, width)), field)

\* The NAL units from at on, each with its length in four bytes.
RECURSIVE Units(_, _)
Units(d, at) ==
    LET n == Unsigned(Bytes(d, at + 1, 4))
        next == Units(d, at + 4 + n)
    IN  IF at >= Len(d) THEN [past |-> FALSE, units |-> <<>>]
        ELSE IF at + 4 > Len(d) THEN [past |-> TRUE, units |-> <<>>]
        ELSE IF at + 4 + n > Len(d) THEN [past |-> TRUE, units |-> <<>>]
        ELSE [next EXCEPT !.units = <<Bytes(d, at + 5, n)>> \o @]

\* What the reader of a step gives; a field of its own keeps its value when an
\* empty string is read into it.
Result(st, step, rest) ==
    CASE step.do \in {"name", "String", "frame"} ->
           ReadString(rest, st.pkt[step.field])
      [] step.do \in DOMAIN Width -> ReadScalar(step.do, rest)
      [] step.do = "Object" -> ReadObject(rest)
      [] step.do \in {"any", "anyObject", "reset", "metadata"} -> ReadAny(rest)
      [] OTHER -> Fail

Refuse(st) == [st EXCEPT !.ret = -1]

\* What becomes of the value read.
Accept(st, step, r) ==
    IF r.ret < 0 THEN Refuse(st) ELSE
    CASE step.do = "name" ->
           IF r.val \in step.names THEN Advance(st, r, "name", r.val) ELSE Refuse(st)
      [] step.do \in DOMAIN Width -> Advance(st, r, step.field, r.val.bytes)
      \* RtmpConnectResponsePacket keeps its empty object unless it reads one.
      [] step.do = "anyObject" ->
           Advance(st, r, IF r.val.t = "Object" THEN step.field ELSE "", r.val)
      \* RtmpPlayPacket takes reset from a boolean or a number.
      [] step.do = "reset" ->
           CASE r.val.t = "Boolean" -> Advance(st, r, step.field, r.val.bytes)
             [] r.val.t = "Number"  -> Advance(st, r, step.field,
                                               IF r.val.bytes = N[0] THEN <<0>> ELSE <<1>>)
             [] OTHER -> Refuse(st)
      \* RtmpOnMetaDataPacket copies an ecma-array into the object.
      [] step.do = "metadata" ->
           CASE r.val.t = "Object" -> Advance(st, r, step.field, r.val)
             [] r.val.t = "EcmaArray" ->
                  Advance(st, r, step.field, Object(CopyProperties(r.val.props)))
             [] OTHER -> Advance(st, r, "", r.val)
      [] OTHER -> Advance(st, r, step.field, r.val)

TakeUnits(st, d, u) == [st EXCEPT !.at = Len(d), !.past = u.past, !.pkt.nalus = u.units]

Apply(st, step, d) ==
    IF st.ret # 0 \/ st.past \/ (step.more /\ st.at >= Len(d)) THEN st ELSE
    CASE
      \* RtmpConnectPacket: any other number ends the decode, and what is
      \* returned is the result of the last read.
         step.do = "isOne"   -> IF st.pkt.number # N[1] THEN [st EXCEPT !.ret = 9] ELSE st
      \* RtmpOnMetaDataPacket: the name may follow "@setDataFrame".
      [] step.do = "frame" /\ st.pkt.name # Cmd["setDataFrame"] -> st
      [] step.do = "bytes"   -> Take(st, d, step.size, step.field)
      [] step.do = "atLeast" -> IF Len(d) < step.size THEN Refuse(st) ELSE st
      [] step.do = "counted" -> TakeCounted(st, d, step.size, step.field)
      [] step.do = "rest"    -> Take(st, d, Len(d) - st.at, step.field)
      [] step.do = "units"   -> TakeUnits(st, d, Units(d, st.at))
      [] OTHER -> Accept(st, step, Result(st, step, From(d, st.at)))

AtLeast(n) == [do |-> "atLeast", field |-> "", more |-> FALSE, size |-> n]
Fixed(n, field) == [do |-> "bytes", field |-> field, more |-> FALSE, size |-> n]
Counted(width, field) == [do |-> "counted", field |-> field, more |-> FALSE, size |-> width]

-----------------------------------------------------------------------------
(* The packet classes.  p is the packet to encode.                         *)

Audio(p) ==
    [type |-> "Audio", len |-> 1 + Len(p.data), out |-> <<Raw(<<130>> \o p.data)>>,
     in |-> <<Fixed(1, ""), Read("rest", "data")>>]

AVC(p) ==
    [type |-> "Video",
     len |-> 1 + 1 + 3 + 6 + 2 + Len(p.sps) + 1 + 2 + Len(p.pps),
     out |-> <<Raw(<<23, 0, 0, 0, 0, 1>> \o Bytes(p.sps, 2, 3) \o <<255, 225>>
                     \o Int16(Len(p.sps)) \o p.sps \o <<1>> \o Int16(Len(p.pps)) \o p.pps)>>,
     in |-> <<AtLeast(11), Fixed(11, ""), Counted(2, "sps"), Fixed(1, ""), Counted(2, "pps")>>]

FirstNalu(p) == IF p.nalus = <<>> THEN <<>> ELSE Head(p.nalus)

\* decode reads NAL units to the end of the body; encode writes the first.
Video(p) ==
    [type |-> "Video", len |-> 1 + 1 + 3 + 4 + Len(FirstNalu(p)),
     out |-> <<Raw(p.frame \o <<1, 0, 0, 0>> \o Int32(Len(FirstNalu(p))) \o FirstNalu(p))>>,
     in |-> <<Fixed(1, "frame"), Fixed(4, ""), Read("units", "nalus")>>]

Connect(p) ==
    [type |-> "AMF0Command",
     len |-> StringSize(p.name) + NumberSize + Size(p.object),
     out |-> <<String(p.name), Num(p.number), p.object>>,
     in |-> <<Name({Cmd["connect"]}), Number, Read("isOne", ""), Read("Object", "object")>>]

ConnectResponse(p) ==
    [type |-> "AMF0Command",
     len |-> StringSize(p.name) + NumberSize + Size(p.object) + Size(p.info),
     out |-> <<String(p.name), Num(p.number), p.object, p.info>>,
     in |-> <<Name({Cmd["result"]}), Number, ReadIfMore("anyObject", "object"),
              Read("Object", "info")>>]

SetWindowAckSize(p) ==
    [type |-> "WindowAcknowledgementSize", len |-> 4, out |-> <<Raw(p.value)>>,
     in |-> <<AtLeast(4), Fixed(4, "value")>>]

Acknowledgement(p) ==
    [type |-> "Acknowledgement", len |-> 4, out |-> <<Raw(p.value)>>,
     in |-> <<AtLeast(4), Fixed(4, "value")>>]

SetChunkSize(p) ==
    [type |-> "SetChunkSize", len |-> 4, out |-> <<Raw(p.value)>>,
     in |-> <<AtLeast(4), Fixed(4, "value")>>]

SetPeerBandwidth(p) ==
    [type |-> "SetPeerBandwidth", len |-> 5, out |-> <<Raw(p.value), Raw(p.kind)>>,
     in |-> <<AtLeast(5), Fixed(4, "value"), Fixed(1, "kind")>>]

SetBufferLength == <<0, 3>>
FmsEvent0 == <<0, 26>>

\* decode is a stub: the event is never known to the receiver.
UserControl(p) ==
    [type |-> "UserControl",
     len |-> 2 + (IF p.event = FmsEvent0 THEN 1 ELSE 4)
               + (IF p.event = SetBufferLength THEN 4 ELSE 0),
     out |-> <<Raw(p.event), Raw(IF p.event = FmsEvent0 THEN <<p.data[4]>> ELSE p.data)>>
               \o Optional(p.event = SetBufferLength, Raw(p.extra)),
     in |-> <<>>]

\* Any name but the empty one.
Call(p) ==
    [type |-> "AMF0Command",
     len |-> StringSize(p.name) + NumberSize + ValueSize(p.object) + ValueSize(p.args),
     out |-> <<String(p.name), Num(p.number)>> \o Written(p.object) \o Written(p.args),
     in |-> <<Name({Cmd[c] : c \in DOMAIN Cmd}), Number, Read("any", "object"),
              ReadIfMore("any", "args")>>]

\* decode is a stub.
CallResponse(p) ==
    [type |-> "AMF0Command",
     len |-> StringSize(p.name) + NumberSize + ValueSize(p.object) + ValueSize(p.response),
     out |-> <<String(p.name), Num(p.number)>> \o Written(p.object) \o Written(p.response),
     in |-> <<>>]

\* decode_msg never makes one: see ClassOf.
CreateStream(p) ==
    [type |-> "AMF0Command", len |-> StringSize(p.name) + NumberSize + NullSize,
     out |-> <<String(p.name), Num(p.number), Null>>,
     in |-> <<Name({Cmd["createStream"]}), Number, SkipNull>>]

CreateStreamResponse(p) ==
    [type |-> "AMF0Command",
     len |-> StringSize(p.name) + NumberSize + NullSize + NumberSize,
     out |-> <<String(p.name), Num(p.number), Null, Num(p.streamid)>>,
     in |-> <<Name({Cmd["result"]}), Number, SkipNull, Read("Number", "streamid")>>]

\* Only decoded: its length is 0 and encode_pkg writes nothing.
CloseStream(p) ==
    [type |-> "none", len |-> 0, out |-> <<>>,
     in |-> <<Read("String", "name"), Number, SkipNull>>]

FMLEStart(p) ==
    [type |-> "AMF0Command",
     len |-> StringSize(p.name) + NumberSize + NullSize + StringSize(p.stream),
     out |-> <<String(p.name), Num(p.number), Null, String(p.stream)>>,
     in |-> <<Name({Cmd[c] : c \in {"releaseStream", "FCPublish", "FCUnpublish"}}), Number,
              SkipNull, Read("String", "stream")>>]

FMLEStartResponse(p) ==
    [type |-> "AMF0Command", len |-> StringSize(p.name) + NumberSize + NullSize + 1,
     out |-> <<String(p.name), Num(p.number), Null, Undefined>>,
     in |-> <<Name({Cmd["result"]}), Number, SkipNull, Read("Undefined", "")>>]

Publish(p) ==
    [type |-> "AMF0Command",
     len |-> StringSize(p.name) + NumberSize + NullSize + StringSize(p.stream)
               + StringSize(p.kind),
     out |-> <<String(p.name), Num(p.number), Null, String(p.stream), String(p.kind)>>,
     in |-> <<Name({Cmd["publish"]}), Number, SkipNull, Read("String", "stream"),
              ReadIfMore("String", "kind")>>]

\* Only decoded, like CloseStream.
Pause(p) ==
    [type |-> "none", len |-> 0, out |-> <<>>,
     in |-> <<Name({Cmd["pause"]}), Number, SkipNull, Read("Boolean", "pause"),
              Read("Number", "time")>>]

\* The optional fields go to the last one that differs from its default.
HasReset(p) == p.reset = <<0>>
HasDuration(p) == p.duration # N[-1] \/ HasReset(p)
HasStart(p) == p.start # N[-2] \/ HasDuration(p)

PlaySize(p) ==
    StringSize(p.name) + NumberSize + NullSize + StringSize(p.stream)
      + (IF p.start # N[-2] \/ p.duration # N[-1] \/ p.reset = <<0>> THEN NumberSize ELSE 0)
      + (IF p.duration # N[-1] \/ p.reset = <<0>> THEN NumberSize ELSE 0)
      + (IF p.reset = <<0>> THEN BooleanSize ELSE 0)

Play(p) ==
    [type |-> "AMF0Command", len |-> PlaySize(p),
     out |-> <<String(p.name), Num(p.number), Null, String(p.stream)>>
               \o Optional(HasStart(p), Num(p.start))
               \o Optional(HasDuration(p), Num(p.duration))
               \o Optional(HasReset(p), Flag(p.reset)),
     in |-> <<Name({Cmd["play"]}), Number, SkipNull, Read("String", "stream"),
              ReadIfMore("Number", "start"), ReadIfMore("Number", "duration"),
              ReadIfMore("reset", "reset")>>]

\* The rest are only sent by servers; their decode is a stub, and decode_msg
\* makes an RtmpCallPacket of the ones that are commands.
PlayResponse(p) ==
    [type |-> "AMF0Command",
     len |-> StringSize(p.name) + NumberSize + NullSize + Size(p.desc),
     out |-> <<String(p.name), Num(p.number), Null, p.desc>>, in |-> <<>>]

OnBWDone(p) ==
    [type |-> "AMF0Command", len |-> StringSize(p.name) + NumberSize + NullSize,
     out |-> <<String(p.name), Num(p.number), Null>>, in |-> <<>>]

OnStatusCall(p) ==
    [type |-> "AMF0Command",
     len |-> StringSize(p.name) + NumberSize + NullSize + Size(p.data),
     out |-> <<String(p.name), Num(p.number), Null, p.data>>, in |-> <<>>]

OnStatusData(p) ==
    [type |-> "AMF0Data", len |-> StringSize(p.name) + Size(p.data),
     out |-> <<String(p.name), p.data>>, in |-> <<>>]

SampleAccess(p) ==
    [type |-> "AMF0Data", len |-> StringSize(p.name) + BooleanSize + BooleanSize,
     out |-> <<String(p.name), Flag(p.video), Flag(p.audio)>>, in |-> <<>>]

OnMetaData(p) ==
    [type |-> "AMF0Data", len |-> StringSize(p.name) + Size(p.metadata),
     out |-> <<String(p.name), p.metadata>>,
     in |-> <<Read("String", "name"), Read("frame", "name"),
              ReadIfMore("metadata", "metadata")>>]

Class(p) ==
    CASE p.class = "Audio" -> Audio(p)
      [] p.class = "AVC" -> AVC(p)
      [] p.class = "Video" -> Video(p)
      [] p.class = "Connect" -> Connect(p)
      [] p.class = "ConnectResponse" -> ConnectResponse(p)
      [] p.class = "SetWindowAckSize" -> SetWindowAckSize(p)
      [] p.class = "Acknowledgement" -> Acknowledgement(p)
      [] p.class = "SetChunkSize" -> SetChunkSize(p)
      [] p.class = "SetPeerBandwidth" -> SetPeerBandwidth(p)
      [] p.class = "UserControl" -> UserControl(p)
      [] p.class = "Call" -> Call(p)
      [] p.class = "CallResponse" -> CallResponse(p)
      [] p.class = "CreateStream" -> CreateStream(p)
      [] p.class = "CreateStreamResponse" -> CreateStreamResponse(p)
      [] p.class = "CloseStream" -> CloseStream(p)
      [] p.class = "FMLEStart" -> FMLEStart(p)
      [] p.class = "FMLEStartResponse" -> FMLEStartResponse(p)
      [] p.class = "Publish" -> Publish(p)
      [] p.class = "Pause" -> Pause(p)
      [] p.class = "Play" -> Play(p)
      [] p.class = "PlayResponse" -> PlayResponse(p)
      [] p.class = "OnBWDone" -> OnBWDone(p)
      [] p.class = "OnStatusCall" -> OnStatusCall(p)
      [] p.class = "OnStatusData" -> OnStatusData(p)
      [] p.class = "SampleAccess" -> SampleAccess(p)
      [] p.class = "OnMetaData" -> OnMetaData(p)

\* What the constructors set.
Command(class, name, n) == [class |-> class, name |-> name, number |-> N[n]]
Empty == Object(<<>>)
Zero == <<0, 0, 0, 0>>

New == [
  Audio |-> [class |-> "Audio", data |-> <<>>],
  AVC |-> [class |-> "AVC", sps |-> <<>>, pps |-> <<>>],
  Video |-> [class |-> "Video", frame |-> <<39>>, nalus |-> <<>>],
  Connect |-> Command("Connect", Cmd["connect"], 1) @@ [object |-> Empty],
  ConnectResponse |-> Command("ConnectResponse", Cmd["result"], 1)
                        @@ [object |-> Empty, info |-> Empty],
  SetWindowAckSize |-> [class |-> "SetWindowAckSize", value |-> Zero],
  Acknowledgement |-> [class |-> "Acknowledgement", value |-> Zero],
  SetChunkSize |-> [class |-> "SetChunkSize", value |-> <<0, 0, 0, 128>>],
  SetPeerBandwidth |-> [class |-> "SetPeerBandwidth", value |-> Zero, kind |-> <<2>>],
  UserControl |-> [class |-> "UserControl", event |-> <<0, 0>>, data |-> Zero, extra |-> Zero],
  Call |-> Command("Call", <<>>, 0) @@ [object |-> NoValue, args |-> NoValue],
  CallResponse |-> Command("CallResponse", Cmd["result"], 4)
                     @@ [object |-> NoValue, response |-> NoValue],
  CreateStream |-> Command("CreateStream", Cmd["createStream"], 2),
  CreateStreamResponse |-> Command("CreateStreamResponse", Cmd["result"], 0)
                             @@ [streamid |-> N[0]],
  CloseStream |-> Command("CloseStream", Cmd["closeStream"], 0),
  FMLEStart |-> Command("FMLEStart", Cmd["releaseStream"], 0) @@ [stream |-> <<>>],
  FMLEStartResponse |-> Command("FMLEStartResponse", Cmd["result"], 0),
  Publish |-> Command("Publish", Cmd["publish"], 0) @@ [stream |-> <<>>, kind |-> <<108>>],
  Pause |-> Command("Pause", Cmd["pause"], 0) @@ [pause |-> <<1>>, time |-> N[0]],
  Play |-> Command("Play", Cmd["play"], 0)
             @@ [stream |-> <<>>, start |-> N[-2], duration |-> N[-1], reset |-> <<1>>],
  PlayResponse |-> Command("PlayResponse", Cmd["result"], 0) @@ [desc |-> Empty],
  OnBWDone |-> Command("OnBWDone", Cmd["onBWDone"], 0),
  OnStatusCall |-> Command("OnStatusCall", Cmd["onStatus"], 0) @@ [data |-> Empty],
  OnStatusData |-> [class |-> "OnStatusData", name |-> Cmd["onStatus"], data |-> Empty],
  SampleAccess |-> [class |-> "SampleAccess", name |-> Cmd["sampleAccess"],
                    video |-> <<0>>, audio |-> <<0>>],
  OnMetaData |-> [class |-> "OnMetaData", name |-> Cmd["onMetaData"], metadata |-> Empty]]

-----------------------------------------------------------------------------
(* RtmpBasePacket::encode *)

Output(items) ==
    FoldLeft(LAMBDA bytes, i : bytes \o (IF i.t = "Raw" THEN i.bytes ELSE Write(i)), <<>>, items)

\* Nothing is written for a length of 0.  A writer that finds no room fails
\* the encode, which then leaves no payload.
Encode(p) ==
    LET c == Class(p)
    IN  IF c.len = 0 \/ Len(Output(c.out)) > c.len THEN <<>> ELSE Output(c.out)

-----------------------------------------------------------------------------
(* RtmpMessageTransport::decode_msg and decode_media_msg *)

Failed == [ret |-> -1, at |-> 0, past |-> FALSE, pkt |-> NoValue]

Decode(class, d) ==
    LET begin == [ret |-> 0, at |-> 0, past |-> FALSE, pkt |-> New[class]]
        end == FoldLeft(LAMBDA st, step : Apply(st, step, d), begin, Class(New[class]).in)
    IN  end

\* The class an answer is decoded as, by the name of the request.
AnswerClass(name) ==
    CASE name = Cmd["connect"] -> "ConnectResponse"
      [] name = Cmd["createStream"] -> "CreateStreamResponse"
      [] OTHER -> "FMLEStartResponse"

\* The class a command is decoded as; createStream gets closeStream's.
ClassOf(name, type) ==
    CASE name = Cmd["connect"] -> "Connect"
      [] name \in {Cmd["createStream"], Cmd["closeStream"]} -> "CloseStream"
      [] name = Cmd["play"] -> "Play"
      [] name = Cmd["pause"] -> "Pause"
      [] name \in {Cmd["releaseStream"], Cmd["FCPublish"], Cmd["FCUnpublish"]} -> "FMLEStart"
      [] name = Cmd["publish"] -> "Publish"
      [] name \in {Cmd["setDataFrame"], Cmd["onMetaData"]} -> "OnMetaData"
      [] OTHER -> IF type = "AMF0Data" THEN "none" ELSE "Call"

\* Mutant: the number of an answer is looked for at the start of the body.
NumberAtStart(d, offset) == ReadScalar("Number", d)

AnswerNumber(d, offset) == ReadScalar("Number", From(d, offset))

\* The class of a command or of the answer to a request; "none" is an error.
CommandClass(type, d, known, name) ==
    LET number == AnswerNumber(d, name.ret)
    IN  IF name.ret < 0 THEN "none"
        ELSE IF name.val \notin {Cmd["result"], Cmd["error"]} THEN ClassOf(name.val, type)
        ELSE IF number.ret < 0 \/ number.val.bytes \notin DOMAIN known THEN "none"
        ELSE AnswerClass(known[number.val.bytes])

Control == [WindowAcknowledgementSize |-> "SetWindowAckSize", Acknowledgement |-> "Acknowledgement",
            SetChunkSize |-> "SetChunkSize", SetPeerBandwidth |-> "SetPeerBandwidth",
            UserControl |-> "UserControl"]

\* decode_media_msg looks at the second byte of a video body.
MessageClass(type, d, known) ==
    CASE type = "Audio" -> "Audio"
      [] type = "Video" -> IF d[2] = 0 THEN "AVC" ELSE IF d[2] = 1 THEN "Video" ELSE "none"
      [] type \in DOMAIN Control -> Control[type]
      [] OTHER -> CommandClass(type, d, known, ReadString(d, <<>>))

\* The result of a media decode is not looked at.
DecodeMsg(type, body_, known) ==
    LET d == IF type = "AMF3Command" THEN From(body_, 1) ELSE body_
        class == MessageClass(type, d, known)
        result_ == IF class = "none" THEN Failed ELSE Decode(class, d)
    IN  IF type = "Video" /\ Len(d) < 2 THEN [Failed EXCEPT !.past = TRUE]
        ELSE IF type = "Video" THEN [result_ EXCEPT !.ret = 0]
        ELSE result_

-----------------------------------------------------------------------------
(* Packets that are sent: what the client sends, what servers send to it,  *)
(* and one of each other class.                                            *)

\* The packets of class c with the fields of f, one for each choice.
With(c, choices) == {f @@ New[c] : f \in choices}

Named(names, numbers) == [name : {Cmd[c] : c \in names}, number : {N[n] : n \in numbers}]
Stream == <<115>>
Four == {<<0, 0, 16, 0>>}

Requests ==
    With("Connect", [object : Values])
      \cup With("CreateStream", [number : {N[2], N[4]}])
      \cup With("FMLEStart", Named({"releaseStream"}, {2}) \cup Named({"FCPublish"}, {3}))

Answers ==
    With("ConnectResponse", [object : Values, info : Values])
      \cup With("CreateStreamResponse", [number : {N[2], N[4]}, streamid : {N[1]}])
      \cup With("FMLEStartResponse", [number : {N[2], N[3]}])

Commands ==
    With("Publish", [number : {N[5]}, stream : {<<>>, Stream}, kind : {<<108>>, <<114>>}])
      \cup With("Play", [number : {N[5]}, stream : {Stream}, start : {N[-2], N[-1]},
                         duration : {N[-1], N[0]}, reset : {<<0>>, <<1>>}])
      \cup With("Call", [name : {Cmd["other"]}, number : {N[4]}, object : {Null} \cup Values,
                         args : {NoValue, String(Stream)} \cup Values])
      \cup With("OnStatusCall", [data : Values])
      \cup {New["OnBWDone"], New["CloseStream"], New["Pause"]}

Others ==
    With("Audio", [data : {<<>>, <<1, 2>>}])
      \cup With("AVC", [sps : {<<1, 2, 3, 4>>}, pps : {<<5>>}])
      \cup With("Video", [frame : {<<23>>, <<39>>}, nalus : {<<(<<1, 2>>)>>}])
      \cup UNION {With(c, [value : Four]) : c \in {"SetWindowAckSize", "Acknowledgement",
                                                   "SetChunkSize", "SetPeerBandwidth"}}
      \cup With("UserControl", [event : {<<0, 0>>, SetBufferLength, FmsEvent0}])
      \cup With("OnMetaData", [metadata : Values])
      \cup With("OnStatusData", [data : Values])
      \cup With("CallResponse", [object : {NoValue, Null}, response : {NoValue} \cup Values])
      \cup With("PlayResponse", [desc : Values]) \cup {New["SampleAccess"]}

Packets == Requests \cup Answers \cup Commands \cup Others

-----------------------------------------------------------------------------
Init ==
    /\ requests = <<>> /\ pkt = NoValue /\ body = <<>>
    /\ sent = 0 /\ cut = -1 /\ result = Failed

\* sendRtmpMessage, and on_send_message for the requests it remembers.
Send(p) ==
    /\ sent < MaxSent
    /\ pkt' = p /\ body' = Encode(p)
    /\ requests' = IF p.class \in {"Connect", "CreateStream", "FMLEStart"}
                   THEN (p.number :> p.name) @@ requests ELSE requests
    /\ sent' = sent + 1
    /\ cut' = -1 /\ result' = Failed

\* The peer may send a command as AMF3, with one byte before the AMF0 body.
Receive(n, amf3) ==
    /\ sent > 0 /\ cut = -1
    /\ Class(pkt).type # "none"
    /\ amf3 => Class(pkt).type = "AMF0Command"
    /\ cut' = n
    /\ result' = LET d == SubSeq(body, 1, n)
                 IN  IF amf3 THEN DecodeMsg("AMF3Command", <<0>> \o d, requests)
                     ELSE DecodeMsg(Class(pkt).type, d, requests)
    /\ UNCHANGED <<requests, pkt, body, sent>>

Next ==
    \/ \E p \in Packets : Send(p)
    \/ \E n \in 0..Len(body), amf3 \in BOOLEAN : Receive(n, amf3)

Spec == Init /\ [][Next]_vars

-----------------------------------------------------------------------------
TypeOK ==
    /\ DOMAIN requests \subseteq {N[n] : n \in 1..5}
    /\ body \in Seq(0..255)
    /\ sent \in 0..MaxSent /\ cut \in -1..Len(body)
    /\ result.ret \in Int /\ result.at \in Nat /\ result.past \in BOOLEAN

\* get_pkg_len and encode_pkg, written apart from each other, agree for every
\* class and every choice of optional fields: the payload is full, without a
\* byte past its end and without one that was never written.
PayloadFilled == sent > 0 => Len(body) = Class(pkt).len

\* The packet the other endpoint has of p; NoValue for a class that decode_msg
\* does not read, or an answer to a request that is not remembered.
Understood(p) ==
    LET asked(name) == p.number \in DOMAIN requests /\ requests[p.number] = Cmd[name]
    IN  CASE p.class = "OnStatusCall" ->
               [New["Call"] EXCEPT !.name = p.name, !.object = Null, !.args = p.data]
          [] p.class = "OnBWDone" -> [New["Call"] EXCEPT !.name = p.name, !.object = Null]
          [] p.class = "ConnectResponse" -> IF asked("connect") THEN p ELSE NoValue
          [] p.class = "CreateStreamResponse" -> IF asked("createStream") THEN p ELSE NoValue
          [] p.class = "FMLEStartResponse" ->
               IF asked("releaseStream") \/ asked("FCPublish") THEN p ELSE NoValue
          [] p.class \in {"UserControl", "CreateStream", "CloseStream", "Pause", "CallResponse",
                          "PlayResponse", "OnStatusData", "SampleAccess"} -> NoValue
          [] OTHER -> p

\* A whole body is decoded to the packet that was encoded: the class is found,
\* an answer by the request it belongs to, and every field survives, as AMF0
\* and as AMF3 command.
DecodesWhatWasSent ==
    (cut >= 0 /\ cut = Len(body) /\ Understood(pkt) # NoValue) =>
      result.ret >= 0 /\ result.pkt = Understood(pkt)

RECURSIVE IsCut(_, _)
IsCut(v, w) ==
    \/ v = w
    \/ /\ v.t = "Object" /\ w.t = "Object"
       /\ Len(v.props) <= Len(w.props)
       /\ \A i \in DOMAIN v.props : /\ v.props[i].key = w.props[i].key
                                    /\ IsCut(v.props[i].value, w.props[i].value)

\* A body that ends early is refused, or gives a packet each of whose fields is
\* the one sent, the constructor's, or an object with its last properties
\* missing: never a value nobody sent.
NothingInvented ==
    (cut >= 0 /\ cut < Len(body) /\ result.ret >= 0 /\ ~result.past
       /\ Understood(pkt) # NoValue /\ result.pkt # NoValue) =>
      LET whole == Understood(pkt)
      IN  /\ result.pkt.class = whole.class
          /\ \A f \in DOMAIN whole :
               \/ result.pkt[f] = whole[f]
               \/ result.pkt[f] = New[whole.class][f]
               \/ f \in {"object", "info", "args", "metadata"} /\ IsCut(result.pkt[f], whole[f])
               \/ f \in {"data", "nalus"} /\ IsPrefix(result.pkt[f], whole[f])

\* Commands and control messages are read within their body whatever its
\* length; only the media packets take lengths on trust.  The one byte more is
\* the object that RtmpAmf0Object::read claims to have read from nothing.
CommandsStayInBody ==
    (cut >= 0 /\ Class(pkt).type \notin {"Audio", "Video"}) =>
      /\ ~result.past
      /\ result.at <= cut + (IF pkt.class \in {"Connect", "ConnectResponse"} THEN 1 ELSE 0)

\* Together: a packet survives encode_pkg and decode_msg, whole or cut.
PacketsSurvive == PayloadFilled /\ DecodesWhatWasSent /\ NothingInvented /\ CommandsStayInBody

-----------------------------------------------------------------------------
\* Objects for the configuration.
CommandObjects == {Empty, Object(<<[key |-> <<107>>, value |-> String(Stream)],
                                   [key |-> <<108>>, value |-> Flag(<<1>>)]>>)}
=============================================================================
