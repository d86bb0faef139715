----------------------------- MODULE MCCapture -----------------------------
(***************************************************************************)
(* What is captured, for TLC: a device as any user may call it (AvDevice)  *)
(* and the way of its frames through the encoder (EncoderOutput), whose    *)
(* units contain what a start code is made of.  They share no state, so a  *)
(* behaviour runs one of them, system; the variables of the other stay as  *)
(* they are initially.                                                     *)
(***************************************************************************)
EXTENDS AvDevice

CONSTANTS Bodies, Sps, Pps, MaxFrames     \* EncoderOutput

VARIABLES
    system,
    ready, inside, video_pts, audio_pts, pc, packet, i, nalus, outpkts, datalist, lost,
    video_timestamp, audio_timestamp, found, emitted, sent, errors, fault

Encoder == INSTANCE EncoderOutput

ASSUME EncoderAssumption == Encoder!BoundAssumption /\ Encoder!BodiesAssumption

\* Bodies and sets with zeros and ones that look like start codes.
SomeBodies == {<<9>>, <<0, 0, 3, 1>>}
SomeSps == <<7, 1>>
SomePps == <<8, 0, 0, 3, 0, 1>>

encoder == <<ready, inside, video_pts, audio_pts, pc, packet, i, nalus, outpkts, datalist,
             lost, video_timestamp, audio_timestamp, found, emitted, sent, errors, fault>>
all == <<system, vars, encoder>>

MCInit ==
    /\ system \in {"device", "encoder"}
    /\ Init
    /\ system # "device" =>
         kind = "audio" /\ format = CHOOSE f \in Formats : f.channels = 1
    /\ Encoder!Init /\ (system # "encoder" => ready = {})

MCNext ==
    \/ system = "device" /\ Next /\ UNCHANGED <<system, encoder>>
    \/ system = "encoder" /\ Encoder!Next /\ UNCHANGED <<system, vars>>

MCSpec == MCInit /\ [][MCNext]_all /\ Fairness

-----------------------------------------------------------------------------
\* The type invariants of both.
TypesOK == TypeOK /\ Encoder!TypeOK

\* parseH264 (av_codec.cc) finds every unit of the encoder's, once; onTimer
\* (rtmpclient.cc) sends a picture that starts anew behind its sets, and time
\* stamps tell the frame while each frame is one unit.
UnitsSurvive ==
    Encoder!EveryUnitOnce /\ Encoder!SetsBeforePicture /\ Encoder!StampsTellFrames
=============================================================================
