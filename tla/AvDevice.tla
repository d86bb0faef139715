------------------------------ MODULE AvDevice ------------------------------
(***************************************************************************)
(* One capture device (av_device.cc): AudioDevices, which plays and        *)
(* records, or VideoDevices, which only records.  A thread that starts,    *)
(* stops and deletes the device, and the device's own thread, which calls  *)
(* back under a recursive mutex; the callback may start, stop and delete   *)
(* too, and start and stop while the destructor waits.                     *)
(* MediaPipeline has what the callback of RtmpPublishClient does, for a    *)
(* device started once; here it is any user's, who starts as he likes.     *)
(*                                                                         *)
(* A behaviour ends with its first undefined behaviour, named in faults.   *)
(***************************************************************************)
EXTENDS Naturals

CONSTANTS
  Rates, Bits, Channels, Durations,   (* Formats of audio.                 *)
  MaxCalls                            (* Calls that start and stop.        *)
                                      (* Bounds the model.                 *)

ASSUME FormatsAssumption ==
  /\ Rates \subseteq Nat \ {0} /\ Bits \subseteq Nat /\ Channels \subseteq Nat
  /\ Durations \subseteq 1 .. 1000
ASSUME MaxCallsAssumption == MaxCalls \in Nat

Formats == [rate : Rates, bits : Bits, channels : Channels, duration : Durations]

VARIABLES
  kind,                                    (* "audio" or "video".          *)
  format,                                  (* Of audio.                    *)
  play_is_initialized_, rec_is_initialized_,
  playing_, recording_, start_,
  callback_,                               (* A callback is registered.    *)
  thread,       (* "none", or where the device's thread is: "top",         *)
                (* "locked", "playing", "played", "recording", "recorded", *)
                (* "sleep", "ended".                                       *)
  mutex,        (* audioThreadMutex_: "free" or "thread".                  *)
  object,       (* "alive", "stopping", "joining", "deleted".              *)
  calls,
  lastStop,     (* History: the last stop was called by the callback.      *)
  restarted,    (* History: the callback started the device while its      *)
                (* destructor ran.                                         *)
  faults

flags == <<playing_, recording_, start_>>
setup == <<kind, format, play_is_initialized_, rec_is_initialized_, callback_>>
vars  == <<setup, flags, thread, mutex, object, calls, lastStop, restarted, faults>>

(* CreateAudioDevice and CreateVideoDevice.                                *)
Init ==
  /\ kind \in {"audio", "video"}
  /\ format \in Formats
  /\ play_is_initialized_ = FALSE /\ rec_is_initialized_ = FALSE
  /\ playing_ = FALSE /\ recording_ = FALSE /\ start_ = FALSE
  /\ callback_ = FALSE
  /\ thread = "none" /\ mutex = "free"
  /\ object = "alive"
  /\ calls = 0 /\ lastStop = FALSE /\ restarted = FALSE
  /\ faults = {}

Usable == object = "alive" /\ faults = {}

-----------------------------------------------------------------------------
(* Setting up.  A callback of the other kind goes to BaseDevices, which    *)
(* ignores it; VideoDevices::InitPlayDevice does nothing.                  *)
RegisterCallback(which) ==
  /\ Usable
  /\ which = kind
  /\ callback_' = TRUE
  /\ UNCHANGED <<kind, format, play_is_initialized_, rec_is_initialized_, flags, thread,
                 mutex, object, calls, lastStop, restarted, faults>>

InitPlayDevice ==
  /\ Usable /\ kind = "audio"
  /\ play_is_initialized_' = TRUE
  /\ UNCHANGED <<kind, format, rec_is_initialized_, callback_, flags, thread, mutex, object,
                 calls, lastStop, restarted, faults>>

InitRecordDevice ==
  /\ Usable
  /\ rec_is_initialized_' = TRUE
  /\ UNCHANGED <<kind, format, play_is_initialized_, callback_, flags, thread, mutex, object,
                 calls, lastStop, restarted, faults>>

-----------------------------------------------------------------------------
(* Mutant: every start begins a thread.                                    *)
AlwaysNewThread ==
  /\ start_' = TRUE
  /\ IF thread = "none" THEN thread' = "top" /\ UNCHANGED faults
     ELSE faults' = faults \cup {"terminate"} /\ UNCHANGED thread

(* StartPlay and StartRecord, once they have the mutex.  A std::thread is  *)
(* assigned; over one that was never joined, that calls std::terminate.    *)
RunThread ==
  IF start_ THEN UNCHANGED <<start_, thread, faults>>
  ELSE /\ start_' = TRUE
       /\ IF thread = "none" THEN thread' = "top" /\ UNCHANGED faults
          ELSE faults' = faults \cup {"terminate"} /\ UNCHANGED thread

(* Who calls, and whether the mutex is his to take.  The user stops when   *)
(* he deletes the device; the callback goes on until the thread is joined. *)
CallingBack == thread \in {"playing", "recording"}

MayCall(inside) ==
  /\ faults = {} /\ calls < MaxCalls
  /\ IF inside THEN CallingBack ELSE object = "alive" /\ mutex = "free"

StartPlay(inside) ==
  /\ MayCall(inside) /\ kind = "audio"
  /\ play_is_initialized_
  /\ playing_' = TRUE
  /\ RunThread
  /\ calls' = calls + 1
  /\ restarted' = (restarted \/ object # "alive")
  /\ UNCHANGED <<setup, recording_, mutex, object, lastStop>>

StartRecord(inside) ==
  /\ MayCall(inside)
  /\ rec_is_initialized_
  /\ recording_' = TRUE
  /\ RunThread
  /\ calls' = calls + 1
  /\ restarted' = (restarted \/ object # "alive")
  /\ UNCHANGED <<setup, playing_, mutex, object, lastStop>>

StopPlay(inside) ==
  /\ MayCall(inside) /\ kind = "audio"
  /\ playing_' = FALSE
  /\ calls' = calls + 1
  /\ lastStop' = inside
  /\ UNCHANGED <<setup, recording_, start_, thread, mutex, object, restarted, faults>>

(* Mutant: StopRecord without the lock_guard.                              *)
StopRecordUnlocked(inside) ==
  /\ Usable /\ calls < MaxCalls
  /\ recording_' = FALSE
  /\ calls' = calls + 1
  /\ lastStop' = inside
  /\ UNCHANGED <<setup, playing_, start_, thread, mutex, object, restarted, faults>>

StopRecord(inside) ==
  /\ MayCall(inside)
  /\ recording_' = FALSE
  /\ calls' = calls + 1
  /\ lastStop' = inside
  /\ UNCHANGED <<setup, playing_, start_, thread, mutex, object, restarted, faults>>

(* The destructor on the user's thread: both stops, each under the mutex   *)
(* (VideoDevices has nothing to stop playing), then the thread is woken    *)
(* and joined.                                                             *)
DeleteBegins ==
  /\ Usable
  /\ \/ kind = "audio" /\ mutex = "free" /\ playing_' = FALSE
     \/ kind = "video" /\ UNCHANGED playing_
  /\ object' = "stopping"
  /\ UNCHANGED <<setup, recording_, start_, thread, mutex, calls, lastStop, restarted, faults>>

(* Mutant: the destructor only stops playing.                              *)
DeleteKeepsRecording ==
  /\ object = "stopping" /\ faults = {}
  /\ mutex = "free"
  /\ object' = "joining"
  /\ UNCHANGED <<setup, flags, thread, mutex, calls, lastStop, restarted, faults>>

DeleteStops ==
  /\ object = "stopping" /\ faults = {}
  /\ mutex = "free"
  /\ recording_' = FALSE
  /\ object' = "joining"
  /\ UNCHANGED <<setup, playing_, start_, thread, mutex, calls, lastStop, restarted, faults>>

DeleteJoins ==
  /\ object = "joining" /\ faults = {}
  /\ thread \in {"none", "ended"}
  /\ object' = "deleted"
  /\ UNCHANGED <<setup, flags, thread, mutex, calls, lastStop, restarted, faults>>

(* The destructor on the device's own thread, whose mutex it has: the      *)
(* thread cannot join itself, and what join throws no destructor lets out. *)
DeleteInside ==
  /\ Usable /\ CallingBack
  /\ playing_' = FALSE /\ recording_' = FALSE
  /\ object' = "joining"
  /\ lastStop' = TRUE
  /\ faults' = {"self_join"}
  /\ UNCHANGED <<setup, start_, thread, mutex, calls, restarted>>

-----------------------------------------------------------------------------
(* AudioDeviceThread and VideoDeviceThread.                                *)
ThreadGoes(from, to) ==
  /\ faults = {}
  /\ thread = from /\ thread' = to
  /\ UNCHANGED <<setup, playing_, recording_, object, calls, lastStop, restarted>>

Lock ==
  /\ ThreadGoes("top", "locked")
  /\ start_ /\ mutex = "free"
  /\ mutex' = "thread"
  /\ UNCHANGED <<start_, faults>>

GetPlayFrameData ==
  \/ /\ playing_ /\ callback_
     /\ ThreadGoes("locked", "playing")
     /\ UNCHANGED <<start_, mutex, faults>>
  \/ /\ ~(playing_ /\ callback_)
     /\ ThreadGoes("locked", "played")
     /\ UNCHANGED <<start_, mutex, faults>>

PlayReturns ==
  /\ ThreadGoes("playing", "played")
  /\ UNCHANGED <<start_, mutex, faults>>

(* The samples of a frame; generalPcmData reads them from an array of 160  *)
(* and writes them, two bytes each, to pcmRecordData_.                     *)
SamplesPerFrame == format.rate \div (1000 \div format.duration)
PcmBytes        == (format.bits \div 8) * SamplesPerFrame * format.channels

FrameFaults ==
  IF kind = "video" THEN {}
  ELSE (IF SamplesPerFrame > 160 THEN {"array_overread"} ELSE {})
       \cup (IF 2 * SamplesPerFrame > PcmBytes THEN {"buffer_overrun"} ELSE {})

SendRecordFrameData ==
  \/ /\ recording_ /\ callback_
     /\ ThreadGoes("played", "recording")
     /\ faults' = FrameFaults
     /\ UNCHANGED <<start_, mutex>>
  \/ /\ ~(recording_ /\ callback_)
     /\ ThreadGoes("played", "recorded")
     /\ UNCHANGED <<start_, mutex, faults>>

RecordReturns ==
  /\ ThreadGoes("recording", "recorded")
  /\ UNCHANGED <<start_, mutex, faults>>

(* ShouldStopAudioThread, ShouldStopVideoThread.                           *)
ShouldStop == ~recording_ /\ ~playing_

(* Mutants: start_ stays true in a thread that ends; the thread goes to    *)
(* sleep with the mutex.                                                   *)
EndWithoutFlag ==
  \/ /\ ShouldStop
     /\ ThreadGoes("recorded", "ended")
     /\ mutex' = "free"
     /\ UNCHANGED <<start_, faults>>
  \/ /\ ~ShouldStop
     /\ ThreadGoes("recorded", "sleep")
     /\ mutex' = "free"
     /\ UNCHANGED <<start_, faults>>

SleepWithMutex ==
  \/ /\ ShouldStop
     /\ ThreadGoes("recorded", "ended")
     /\ start_' = FALSE /\ mutex' = "free"
     /\ UNCHANGED faults
  \/ /\ ~ShouldStop
     /\ ThreadGoes("recorded", "sleep")
     /\ UNCHANGED <<start_, mutex, faults>>

EndTurn ==
  \/ /\ ShouldStop
     /\ ThreadGoes("recorded", "ended")
     /\ start_' = FALSE /\ mutex' = "free"
     /\ UNCHANGED faults
  \/ /\ ~ShouldStop
     /\ ThreadGoes("recorded", "sleep")
     /\ mutex' = "free"
     /\ UNCHANGED <<start_, faults>>

(* The wait ends after some milliseconds, notified or not.                 *)
WakeUp ==
  /\ ThreadGoes("sleep", "top")
  /\ UNCHANGED <<start_, mutex, faults>>

DeviceThread ==
  Lock \/ GetPlayFrameData \/ PlayReturns \/ SendRecordFrameData \/ RecordReturns
  \/ EndTurn \/ WakeUp

Next ==
  \/ \E which \in {"audio", "video"} : RegisterCallback(which)
  \/ InitPlayDevice \/ InitRecordDevice
  \/ \E inside \in BOOLEAN :
       StartPlay(inside) \/ StartRecord(inside) \/ StopPlay(inside) \/ StopRecord(inside)
  \/ DeleteBegins \/ DeleteStops \/ DeleteJoins \/ DeleteInside
  \/ DeviceThread

(* The thread is scheduled, a callback returns, and a destructor that has  *)
(* begun gets the mutex in one of the thread's sleeps.                     *)
Fairness == WF_vars(DeviceThread) /\ SF_vars(DeleteStops) /\ WF_vars(DeleteJoins)

Spec == Init /\ [][Next]_vars /\ Fairness

-----------------------------------------------------------------------------
Holding == {"locked", "playing", "played", "recording", "recorded"}

TypeOK ==
  /\ kind \in {"audio", "video"} /\ format \in Formats
  /\ playing_ \in BOOLEAN /\ recording_ \in BOOLEAN /\ start_ \in BOOLEAN
  /\ thread \in Holding \cup {"none", "top", "sleep", "ended"}
  /\ mutex = IF thread \in Holding THEN "thread" ELSE "free"
  /\ object \in {"alive", "stopping", "joining", "deleted"}
  /\ restarted \in BOOLEAN

(* A start is never lost: as long as one of the flags is set there is a    *)
(* thread that will see it, whether the start found it running, about to   *)
(* end or not there (StartPlay, StartRecord, the thread's last turn).      *)
StartIsServed ==
  (playing_ \/ recording_) /\ faults = {} => start_ /\ thread \notin {"none", "ended"}

(* Once StopRecord or StopPlay has returned on another thread no callback  *)
(* of that kind is under way or begins before the next start: the stop     *)
(* waited for it, and the thread looks at the flag under the same mutex.   *)
(* Only the callback's own stop finds it under way.                        *)
QuietAfterStop ==
  /\ thread = "recording" /\ ~recording_ => lastStop
  /\ thread = "playing" /\ ~playing_ => lastStop

(* The device's thread never runs on a deleted device, and it has ended or *)
(* never begun (the destructor's join).                                    *)
DeletedAfterThread == object = "deleted" => thread \in {"none", "ended"} /\ ~recording_

(* Together: after a stop, or the deletion, which stops, nothing calls.    *)
StopIsFinal == QuietAfterStop /\ DeletedAfterThread

(* A format the arrays of generalPcmData and InitRecordDevice hold never   *)
(* faults them; and std::terminate needs a start after the thread's end,   *)
(* or a callback that deletes its own device.                              *)
FaultsExplained ==
  /\ "terminate" \in faults => thread = "ended"
  /\ "self_join" \in faults => CallingBack /\ ~recording_ /\ ~playing_
  /\ faults \cap {"array_overread", "buffer_overrun"} # {} =>
       kind = "audio" /\ ((format.bits \div 8) * format.channels < 2 \/ SamplesPerFrame > 160)

(* The destructor comes to its end, unless the callback has started the    *)
(* device again behind its stops: then the join may wait for ever.         *)
DeleteEnds == object = "stopping" ~> object = "deleted" \/ faults # {} \/ restarted
=============================================================================
