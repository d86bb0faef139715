---------------------------- MODULE EncoderOutput ----------------------------
(***************************************************************************)
(* From the encoder to the wire: VideoCodec::encode hands a frame to       *)
(* libx264, takes the packets that are ready, parseH264 splits each into   *)
(* NAL units, YuvDataIsAvailable queues a share of every unit and the      *)
(* 20 ms timer sends them, numbering the units by 40 ms.  AudioCodec's     *)
(* path has the same shape without the splitting.                          *)
(*                                                                         *)
(* The loops of encode, parseH264 and onTimer take a step a turn; pc is    *)
(* the one that runs.  No handler begins before it has ended: MediaPipeline*)
(* interleaves the handlers.  libx264's part is external: it may hold a    *)
(* frame back, fail on sending or between two packets, and it puts one or  *)
(* two NAL units in a packet.                                              *)
(***************************************************************************)
EXTENDS Integers, Sequences

CONSTANTS
    Bodies,       \* what follows the first byte of a NAL unit
    Sps, Pps,     \* the sets the encoder was opened with
    MaxFrames     \* bound: frames captured of each kind

BoundAssumption == MaxFrames \in Nat

\* The encoder escapes 0 0 0 and 0 0 1 inside a unit and ends it with a one bit.
Escaped(nalu) ==
    /\ nalu \in Seq(0..255) /\ nalu # <<>> /\ nalu[1] # 0 /\ nalu[Len(nalu)] # 0
    /\ \A k \in 1..(Len(nalu) - 2) : nalu[k] = 0 /\ nalu[k + 1] = 0 => nalu[k + 2] > 1

BodiesAssumption ==
    /\ \A b \in Bodies : b \in Seq(0..255) /\ b # <<>> /\ Escaped(<<1>> \o b)
    /\ Escaped(Sps) /\ Escaped(Pps)

VARIABLES
    ready,        \* the codecs that have their context, frame and packet
    inside,       \* the frames the video encoder holds
    video_pts, audio_pts,
    pc,           \* "idle", or whose loop runs: "encode", "parse", "timer"
    packet,       \* encode_pkt
    i, nalus,     \* of parseH264
    outpkts,
    datalist,
    lost,         \* shares no variable holds any more
    video_timestamp, audio_timestamp,
    found,        \* history: the units parseH264 has found
    emitted,      \* history: the units the encoder has put in packets
    sent,         \* history: the messages sent
    errors,       \* history: encode has returned -1
    fault

clocks == <<video_pts, audio_pts>>
parser == <<packet, i, nalus>>
stamps == <<video_timestamp, audio_timestamp>>
vars == <<ready, inside, clocks, pc, parser, outpkts, datalist, lost, stamps, found,
          emitted, sent, errors, fault>>

-----------------------------------------------------------------------------
(* Annex B *)

IDR == 5
NalType(nalu) == nalu[1] % 32

\* The first bytes of libx264's units: of a picture that starts anew, of another
\* one and of an SEI.
Idr == 101
Slice == 65
Sei == 6

StartCodes == {<<0, 0, 1>>, <<0, 0, 0, 1>>}
Units(first) == {<<first>> \o b : b \in Bodies}
Pieces(first) == [code : StartCodes, nalu : Units(first)]

\* What one packet of libx264 may hold: a unit, or an SEI before it.
AccessUnits == {<<p>> : p \in Pieces(Idr) \cup Pieces(Slice)}
               \cup {<<s, p>> : s \in Pieces(Sei), p \in Pieces(Idr)}

Bytes(unit) ==
    unit[1].code \o unit[1].nalu
      \o (IF Len(unit) = 1 THEN <<>> ELSE unit[2].code \o unit[2].nalu)

\* AV_CODEC_FLAG_GLOBAL_HEADER.
extradata == (<<0, 0, 0, 1>> \o Sps) \o (<<0, 0, 0, 1>> \o Pps)

\* h264[i], which libavcodec pads with zeros past the end.
At(b, n) == IF n < Len(b) THEN b[n + 1] ELSE 0

StartCodeAt(b, n) ==
    IF At(b, n) = 0 /\ At(b, n + 1) = 0 /\ At(b, n + 2) = 1 /\ n + 2 < Len(b) THEN 3
    ELSE IF At(b, n) = 0 /\ At(b, n + 1) = 0 /\ At(b, n + 2) = 0 /\ At(b, n + 3) = 1
              /\ n + 3 < Len(b) THEN 4
    ELSE 0

\* copySpspps: the offset of the second start code, or the length without one.
SecondCode(data) ==
    LET at == {n \in 4..(Len(data) - 1) : \A k \in 0..3 : At(data, n + k) = data[k + 1]}
    IN  IF at = {} THEN Len(data) ELSE CHOOSE n \in at : \A m \in at : n <= m

CopySpspps(data) ==
    LET n == SecondCode(data)
    IN  [sps |-> SubSeq(data, 5, n), pps |-> SubSeq(data, n + 5, Len(data))]

NoSets == [sps |-> <<>>, pps |-> <<>>]

\* n is history: the packet is the n-th that parseH264 makes.
Packet(nalu, pts, n) ==
    [type |-> "video", pts |-> pts, data |-> nalu, keyframe_ |-> NalType(nalu) = IDR,
     sets |-> IF NalType(nalu) = IDR THEN CopySpspps(extradata) ELSE NoSets, n |-> n]

-----------------------------------------------------------------------------
(* The encoder and its callers *)

\* initEncodeCodec gives up at the first of its steps that fails.
OpenVideo == {{}, {"video"}}
OpenAudio == {{}, {"audio"}}

NoPacket == [pts |-> 0, unit |-> <<>>]

\* onPublishStart opens both codecs and ignores what initCodec returns.
Init ==
    /\ \E v \in OpenVideo, a \in OpenAudio : ready = v \cup a
    /\ inside = <<>> /\ video_pts = 0 /\ audio_pts = 0
    /\ pc = "idle" /\ packet = NoPacket /\ i = 0 /\ nalus = <<>>
    /\ outpkts = <<>> /\ datalist = <<>> /\ lost = <<>>
    /\ video_timestamp = 0 /\ audio_timestamp = 0
    /\ found = 0 /\ emitted = <<>> /\ sent = <<>> /\ errors = 0 /\ fault = FALSE

\* encode uses its packet and frame, which are NULL.
NoCodec ==
    /\ fault' = TRUE
    /\ UNCHANGED <<inside, pc, errors>>

SendFrameFails ==
    /\ errors' = errors + 1
    /\ UNCHANGED <<inside, pc, fault>>

\* A frame in libx264, and the packet it becomes.
SendFrame ==
    /\ \E u \in AccessUnits : inside' = Append(inside, [pts |-> video_pts, unit |-> u])
    /\ pc' = "encode"
    /\ UNCHANGED <<errors, fault>>

\* YuvDataIsAvailable up to the loop of VideoCodec::encode.
YuvDataIsAvailable ==
    /\ pc = "idle" /\ ~fault /\ video_pts < MaxFrames
    /\ video_pts' = video_pts + 1
    /\ \/ "video" \notin ready /\ NoCodec
       \/ "video" \in ready /\ (SendFrameFails \/ SendFrame)
    /\ UNCHANGED <<ready, audio_pts, parser, outpkts, datalist, lost, stamps, found,
                   emitted, sent>>

\* avcodec_receive_packet gives encode the first of its packets.
ReceivePacket ==
    /\ pc = "encode" /\ inside # <<>>
    /\ pc' = "parse"
    /\ packet' = Head(inside) /\ inside' = Tail(inside)
    /\ LET unit == Head(inside).unit
           told(k) == [pts |-> Head(inside).pts, data |-> unit[k].nalu]
       IN  emitted' = (IF Len(unit) = 1 THEN Append(emitted, told(1))
                       ELSE Append(Append(emitted, told(1)), told(2)))
    /\ UNCHANGED <<ready, clocks, i, nalus, outpkts, datalist, lost, stamps, found, sent,
                   errors, fault>>

\* A unit ends, if there is one.
Flush ==
    IF nalus = <<>> THEN UNCHANGED <<nalus, outpkts, found>>
    ELSE /\ outpkts' = Append(outpkts, Packet(nalus, packet.pts, found + 1))
         /\ found' = found + 1 /\ nalus' = <<>>

\* One turn of the loop of parseH264.
ParseH264 ==
    LET h264 == Bytes(packet.unit)
        code == StartCodeAt(h264, i)
    IN  /\ pc = "parse" /\ i < Len(h264)
        /\ IF code > 0 THEN i' = i + code /\ Flush
           ELSE /\ i' = i + 1 /\ nalus' = Append(nalus, At(h264, i))
                /\ UNCHANGED <<outpkts, found>>
        /\ UNCHANGED <<ready, inside, clocks, pc, packet, datalist, lost, stamps, emitted,
                       sent, errors, fault>>

\* Mutant: what is left at the end of the packet is not a unit.
ParseLeavesTail ==
    /\ pc = "parse" /\ i >= Len(Bytes(packet.unit))
    /\ pc' = "encode" /\ packet' = NoPacket /\ i' = 0
    /\ nalus' = <<>>
    /\ UNCHANGED <<ready, inside, clocks, outpkts, datalist, lost, stamps, found, emitted,
                   sent, errors, fault>>

\* parseH264 once the loop has ended.
ParseEnds ==
    /\ pc = "parse" /\ i >= Len(Bytes(packet.unit))
    /\ pc' = "encode" /\ packet' = NoPacket /\ i' = 0
    /\ Flush
    /\ UNCHANGED <<ready, inside, clocks, datalist, lost, stamps, emitted, sent, errors,
                   fault>>

\* ret >= 0: a share of each packet is queued and the first one is freed.
\* ret < 0: the caller returns, and nothing names the packets any more.
Deliver(pkts, ok) ==
    /\ datalist' = IF ok THEN datalist \o pkts ELSE datalist
    /\ lost' = IF ok THEN lost ELSE lost \o pkts
    /\ errors' = IF ok THEN errors ELSE errors + 1

\* encode returns at EAGAIN, which leaves frames inside, or at an error.
EncodeReturns ==
    /\ pc = "encode" /\ pc' = "idle"
    /\ \E ok \in BOOLEAN : Deliver(outpkts, ok)
    /\ outpkts' = <<>>
    /\ UNCHANGED <<ready, inside, clocks, parser, stamps, found, emitted, sent, fault>>

AudioPacket == [type |-> "audio", pts |-> audio_pts]

\* pcm_mulaw holds nothing back, so encode takes one packet and then EAGAIN.
RecordDataIsAvailable ==
    /\ pc = "idle" /\ ~fault /\ audio_pts < MaxFrames
    /\ audio_pts' = audio_pts + 1
    /\ \/ "audio" \notin ready /\ NoCodec /\ UNCHANGED <<datalist, lost>>
       \/ "audio" \in ready /\ SendFrameFails /\ UNCHANGED <<datalist, lost>>
       \/ /\ "audio" \in ready /\ UNCHANGED <<inside, pc, fault>>
          /\ \E ok \in BOOLEAN : Deliver(<<AudioPacket>>, ok)
    /\ UNCHANGED <<ready, video_pts, parser, outpkts, stamps, found, emitted, sent>>

VideoMessage(p) ==
    [type |-> "video", pts |-> p.pts, data |-> p.data, timestamp |-> video_timestamp,
     n |-> p.n]

SendVideo(p) ==
    /\ sent' = Append(IF p.keyframe_ THEN Append(sent, [type |-> "avc", sets |-> p.sets])
                      ELSE sent,
                      VideoMessage(p))
    /\ video_timestamp' = video_timestamp + 40
    /\ UNCHANGED audio_timestamp

SendAudio(p) ==
    /\ sent' = Append(sent, [type |-> "audio", pts |-> p.pts, timestamp |-> audio_timestamp])
    /\ audio_timestamp' = audio_timestamp + 20
    /\ UNCHANGED video_timestamp

\* One turn of the loop of onTimer, which goes on until nothing is queued.
OnTimer ==
    /\ pc \in {"idle", "timer"} /\ ~fault /\ datalist # <<>>
    /\ LET p == Head(datalist) IN IF p.type = "video" THEN SendVideo(p) ELSE SendAudio(p)
    /\ datalist' = Tail(datalist)
    /\ pc' = IF Len(datalist) = 1 THEN "idle" ELSE "timer"
    /\ UNCHANGED <<ready, inside, clocks, parser, outpkts, lost, found, emitted, errors,
                   fault>>

Next ==
    \/ YuvDataIsAvailable \/ ReceivePacket \/ ParseH264 \/ ParseEnds \/ EncodeReturns
    \/ RecordDataIsAvailable \/ OnTimer

Spec == Init /\ [][Next]_vars

-----------------------------------------------------------------------------
(* Properties *)

Times == 0..MaxFrames
Videos(s) == {k \in DOMAIN s : s[k].type = "video"}
Numbers(s) == {s[k].n : k \in Videos(s)}

\* What the fields hold: a keyframe has the sets, and the stamps are multiples
\* of their periods.
TypeOK ==
    /\ ready \subseteq {"video", "audio"} /\ fault \in BOOLEAN
    /\ pc \in {"idle", "encode", "parse", "timer"}
    /\ video_pts \in Times /\ audio_pts \in Times /\ Len(inside) <= MaxFrames
    /\ errors \in 0..(2 * MaxFrames) /\ found \in 0..(2 * MaxFrames)
    /\ \A k \in Videos(datalist) : LET p == datalist[k] IN
          p.keyframe_ <=> p.sets = [sps |-> Sps, pps |-> Pps]
    /\ video_timestamp \in {40 * k : k \in 0..(2 * MaxFrames)}
    /\ audio_timestamp \in {20 * k : k \in 0..MaxFrames}

\* Each is, as a whole, the unit the encoder emitted under its number, and they
\* are in order.
Faithful(s) ==
    /\ \A k \in Videos(s) :
          s[k].n \in DOMAIN emitted /\ emitted[s[k].n] = [pts |-> s[k].pts, data |-> s[k].data]
    /\ \A j, k \in Videos(s) : j < k => s[j].n < s[k].n

\* parseH264 finds in the encoder's packets exactly the units the encoder put
\* there, whatever start codes separate them and whatever zeros they contain,
\* and a frame's units all go out, once and in order, or are all lost to one
\* failed encode.
EveryUnitOnce ==
    /\ Faithful(sent) /\ Faithful(datalist) /\ Faithful(lost)
    /\ \A m \in Numbers(sent), n \in Numbers(datalist) : m < n
    /\ \A m \in Numbers(lost), n \in Numbers(sent) \cup Numbers(datalist) :
          emitted[m].pts # emitted[n].pts
    /\ pc \in {"idle", "timer"} =>
          DOMAIN emitted = Numbers(sent) \cup Numbers(datalist) \cup Numbers(lost)

\* A picture that starts anew is preceded on the wire by the sets the encoder
\* was opened with: copySpspps cuts them at the second start code, and onTimer
\* sends them first.
SetsBeforePicture ==
    \A k \in Videos(sent) :
        NalType(sent[k].data) = IDR <=>
            k > 1 /\ sent[k - 1] = [type |-> "avc", sets |-> [sps |-> Sps, pps |-> Pps]]

OneUnitAFrame == \A j, k \in DOMAIN emitted : emitted[j].pts = emitted[k].pts => j = k

\* The time stamps count messages, not frames, and still tell the time of
\* capture as long as every frame is one unit and no encode has failed.
StampsTellFrames ==
    errors = 0 => \A k \in DOMAIN sent :
        /\ sent[k].type = "audio" => sent[k].timestamp = 20 * sent[k].pts
        /\ sent[k].type = "video" /\ OneUnitAFrame => sent[k].timestamp = 40 * sent[k].pts

-----------------------------------------------------------------------------
(* The inductive invariant of the properties, in parts.                    *)

TheSets == [sps |-> Sps, pps |-> Pps]
VideoPackets ==
    {p \in [type : {"video"}, pts : Nat, data : Seq(0..255) \ {<<>>}, keyframe_ : BOOLEAN,
            sets : {NoSets, TheSets}, n : Nat] :
        /\ p.keyframe_ <=> NalType(p.data) = IDR
        /\ p.keyframe_ <=> p.sets = TheSets}
AudioPackets == [type : {"audio"}, pts : Nat]
Messages ==
    [type : {"avc"}, sets : {TheSets}]
      \cup [type : {"video"}, pts : Nat, data : Seq(0..255), timestamp : Nat, n : Nat]
      \cup [type : {"audio"}, pts : Nat, timestamp : Nat]
Frames == [pts : Nat, unit : AccessUnits]

TypesInv ==
    /\ ready \subseteq {"video", "audio"} /\ fault \in BOOLEAN
    /\ pc \in {"idle", "encode", "parse", "timer"}
    /\ video_pts \in Times /\ audio_pts \in Times
    /\ inside \in Seq(Frames) /\ packet \in Frames \cup {NoPacket}
    /\ i \in Nat /\ nalus \in Seq(0..255)
    /\ outpkts \in Seq(VideoPackets)
    /\ datalist \in Seq(VideoPackets \cup AudioPackets)
    /\ lost \in Seq(VideoPackets \cup AudioPackets)
    /\ found \in Nat /\ emitted \in Seq([pts : Nat, data : Seq(0..255)])
    /\ sent \in Seq(Messages) /\ errors \in Nat

\* What each frame and each call of encode counts for.
CountInv ==
    /\ Len(inside) <= video_pts
    /\ Len(emitted) + 2 * Len(inside) <= 2 * video_pts
    /\ errors <= video_pts + audio_pts
    /\ pc \in {"encode", "parse"} => errors < video_pts + audio_pts
    /\ fault => pc = "idle"

\* Where the k-th unit begins in its packet, behind its start code.
From(unit, k) ==
    IF k = 1 THEN Len(unit[1].code)
    ELSE Len(unit[1].code) + Len(unit[1].nalu) + Len(unit[2].code)

\* The k-th unit of the packet is being copied, or about to be found.
AtUnit(k) ==
    LET nalu == packet.unit[k].nalu
        from == From(packet.unit, k)
    IN  \/ k = 1 /\ i = 0 /\ nalus = <<>>
        \/ from <= i /\ i <= from + Len(nalu) /\ nalus = SubSeq(nalu, 1, i - from)

\* What parseH264 has found is what was emitted, but for the rest of the packet.
ParseInv ==
    /\ pc # "parse" => i = 0 /\ nalus = <<>> /\ packet = NoPacket /\ found = Len(emitted)
    /\ pc \in {"idle", "timer"} => outpkts = <<>>
    /\ pc = "parse" =>
         /\ packet \in Frames
         /\ \E k \in 1..Len(packet.unit) :
              /\ AtUnit(k)
              /\ Len(emitted) + k = found + 1 + Len(packet.unit)
              /\ \A l \in k..Len(packet.unit) :
                   emitted[found + 1 + l - k] = [pts |-> packet.pts, data |-> packet.unit[l].nalu]

Gone == Numbers(sent) \cup Numbers(datalist) \cup Numbers(lost)

\* Every unit found is somewhere, and what is somewhere is such a unit.
UnitsInv ==
    /\ Faithful(sent) /\ Faithful(datalist) /\ Faithful(lost) /\ Faithful(outpkts)
    /\ \A m \in Numbers(sent), n \in Numbers(datalist) : m < n
    /\ \A m \in Gone, n \in Numbers(outpkts) : m < n
    /\ Gone \cup Numbers(outpkts) = 1..found

\* Each call of encode gives out the units of later frames than those before it.
PtsInv ==
    /\ \A k \in DOMAIN inside :
         /\ inside[k].pts < video_pts
         /\ \A j \in 1..(k - 1) : inside[j].pts < inside[k].pts
         /\ \A m \in DOMAIN emitted : emitted[m].pts < inside[k].pts
    /\ \A m \in DOMAIN emitted : emitted[m].pts < video_pts
    /\ \A m \in Gone, n \in Numbers(outpkts) : emitted[m].pts < emitted[n].pts
    /\ pc = "parse" => \A m \in Gone : emitted[m].pts < packet.pts
    /\ \A m \in Numbers(lost), n \in Numbers(sent) \cup Numbers(datalist) :
          emitted[m].pts # emitted[n].pts

SetsInv ==
    /\ SetsBeforePicture
    /\ sent # <<>> => sent[Len(sent)].type # "avc"

\* How the clock of each kind counts what is sent.
VideoClock ==
    \E v \in 0..found :
        /\ video_timestamp = 40 * v
        /\ \A n \in Numbers(datalist) \cup Numbers(outpkts) : v < n
        /\ errors = 0 => /\ Numbers(sent) = 1..v /\ lost = <<>>
                         /\ \A k \in Videos(sent) : sent[k].timestamp = 40 * (sent[k].n - 1)

Audios(s) == {k \in DOMAIN s : s[k].type = "audio"}
AudioPts(s) == {s[k].pts : k \in Audios(s)}

AudioClock ==
    \E a \in 0..audio_pts :
        /\ audio_timestamp = 20 * a
        /\ \A p \in AudioPts(datalist) : a <= p /\ p < audio_pts
        /\ \A j, k \in Audios(datalist) : j < k => datalist[j].pts < datalist[k].pts
        /\ errors = 0 =>
             /\ ~fault => a..(audio_pts - 1) \subseteq AudioPts(datalist)
             /\ \A k \in Audios(sent) : sent[k].timestamp = 20 * sent[k].pts

\* As long as each frame is one unit, a unit's number is its frame's.
FrameNumbers ==
    errors = 0 /\ OneUnitAFrame =>
        /\ \A n \in DOMAIN emitted : emitted[n].pts = n - 1
        /\ ~fault =>
             /\ \A k \in DOMAIN inside : inside[k].pts = Len(emitted) + k - 1
             /\ video_pts = Len(emitted) + Len(inside)

EncoderInv ==
    /\ TypesInv /\ CountInv /\ ParseInv /\ UnitsInv /\ PtsInv /\ SetsInv
    /\ VideoClock /\ AudioClock /\ FrameNumbers
=============================================================================
