--------------------------- MODULE Capture_proofs ---------------------------
(***************************************************************************)
(* Proofs about what is captured: AvDevice for any formats and any number  *)
(* of calls, EncoderOutput for any units, sets and number of frames, and   *)
(* MCCapture's specification, which runs one of them.                      *)
(*                                                                         *)
(* The encoder's lemmas come in the order of the way of a frame: what a    *)
(* packet's bytes are and where parseH264 finds a start code in them, what *)
(* the numbers of the units in a list are, one part of EncoderInv at a     *)
(* time as a relation on values, and one lemma an action.                  *)
(***************************************************************************)
EXTENDS MCCapture, Integers, Sequences, TLAPS

Running == thread \notin {"none", "ended"}

(* start_ says whether there is a thread, which the thread itself clears   *)
(* with the mutex held, in the turn in which it finds nothing to do.       *)
StartInv == faults = {} => (start_ <=> Running)

(* The join is over when the thread is, which has left no flag set.        *)
DeleteInv == object = "deleted" => ~recording_ /\ ~playing_ /\ ~Running

IInv ==
  /\ TypeOK
  /\ StartInv
  /\ StartIsServed
  /\ QuietAfterStop
  /\ DeleteInv
  /\ FaultsExplained

-----------------------------------------------------------------------------
(* A frame has a natural number of samples.                                *)
LEMMA SamplesAreNat == ASSUME format \in Formats PROVE SamplesPerFrame \in Nat
<1>0. format.rate \in Rates /\ format.duration \in Durations
  BY DEF Formats
<1>1. format.rate \in Nat /\ format.duration \in 1 .. 1000
  BY <1>0, FormatsAssumption, ZenonT(60)
<1>2. 1000 \div format.duration \in Nat \ {0}
  BY <1>1, SMTT(40)
<1> QED
  BY <1>1, <1>2, SMTT(40) DEF SamplesPerFrame

(* Two bytes for each sample fit if a sample of all channels has two.      *)
LEMMA TwoBytesFit ==
  ASSUME NEW n \in Nat, NEW b \in Nat, NEW c \in Nat, b * c >= 2
  PROVE  2 * n <= b * n * c
<1>1. (b * n) * c = (b * c) * n
  OBVIOUS
<1>2. b * c \in Nat
  OBVIOUS
<1>3. ASSUME NEW k \in Nat, k >= 2 PROVE 2 * n <= k * n
  BY <1>3
<1> QED
  BY <1>1, <1>2, <1>3

LEMMA FrameFaultsExplained ==
  ASSUME TypeOK, FrameFaults # {}
  PROVE  /\ kind = "audio"
         /\ (format.bits \div 8) * format.channels < 2 \/ SamplesPerFrame > 160
         /\ FrameFaults \cap {"terminate", "self_join"} = {}
<1>1. SamplesPerFrame \in Nat
  BY SamplesAreNat DEF TypeOK
<1>2. format.bits \in Nat /\ format.channels \in Nat
  BY FormatsAssumption, ZenonT(60) DEF TypeOK, Formats
<1>3. format.bits \div 8 \in Nat
  BY <1>2
<1>4. (format.bits \div 8) * format.channels >= 2 => 2 * SamplesPerFrame <= PcmBytes
  BY <1>1, <1>2, <1>3, TwoBytesFit DEF PcmBytes
<1>5. (format.bits \div 8) * format.channels \in Nat /\ PcmBytes \in Nat
  BY <1>1, <1>2, <1>3 DEF PcmBytes
<1>6. kind = "audio"
  BY DEF FrameFaults, TypeOK
<1>7. SamplesPerFrame > 160 \/ 2 * SamplesPerFrame > PcmBytes
  BY DEF FrameFaults
<1>8. FrameFaults \cap {"terminate", "self_join"} = {}
  BY DEF FrameFaults
<1> QED
  BY <1>1, <1>4, <1>5, <1>6, <1>7, <1>8

LEMMA InitInv == Init => IInv
  BY DEF Init, IInv, TypeOK, StartInv, Running, StartIsServed, QuietAfterStop, DeleteInv,
         FaultsExplained, Holding

-----------------------------------------------------------------------------
(* The parts of the invariant a step may disturb, expanded together.       *)
LEMMA SetUp ==
  ASSUME IInv,
         (\E which \in {"audio", "video"} : RegisterCallback(which))
           \/ InitPlayDevice \/ InitRecordDevice
  PROVE  IInv'
  BY DEF RegisterCallback, InitPlayDevice, InitRecordDevice, flags, IInv, TypeOK, StartInv,
         Running, StartIsServed, QuietAfterStop, DeleteInv, FaultsExplained, CallingBack, SamplesPerFrame

LEMMA Starts ==
  ASSUME IInv, NEW within \in BOOLEAN, StartPlay(within) \/ StartRecord(within)
  PROVE  IInv'
<1> USE DEF IInv
<1>1. /\ faults = {} /\ object # "deleted" /\ (CallingBack \/ object = "alive")
      /\ UNCHANGED <<kind, format, mutex, object, lastStop>>
  BY DEF StartPlay, StartRecord, MayCall, CallingBack, DeleteInv, Running, setup
<1>2. RunThread
  BY DEF StartPlay, StartRecord
<1>3. /\ playing_' \in BOOLEAN /\ recording_' \in BOOLEAN
      /\ (playing_ => playing_') /\ (recording_ => recording_')
      /\ restarted' \in BOOLEAN
  BY DEF StartPlay, StartRecord, TypeOK
<1>4. CASE start_
  <2>1. UNCHANGED <<start_, thread, faults>> /\ Running
    BY <1>1, <1>2, <1>4 DEF RunThread, StartInv
  <2> QED
    BY <1>1, <1>3, <2>1, <1>4 DEF TypeOK, StartInv, Running, StartIsServed, QuietAfterStop,
       DeleteInv, FaultsExplained, CallingBack
<1>5. CASE ~start_ /\ thread = "none"
  <2>1. start_' /\ thread' = "top" /\ UNCHANGED faults
    BY <1>2, <1>5 DEF RunThread
  <2> QED
    BY <1>1, <1>3, <2>1, <1>5 DEF TypeOK, Holding, StartInv, Running, StartIsServed,
       QuietAfterStop, DeleteInv, FaultsExplained, CallingBack
<1>6. CASE ~start_ /\ thread # "none"
  <2>1. thread = "ended"
    BY <1>1, <1>6 DEF StartInv, Running
  <2>2. start_' /\ faults' = {"terminate"} /\ UNCHANGED thread
    BY <1>1, <1>2, <1>6 DEF RunThread
  <2> QED
    BY <1>1, <1>3, <2>1, <2>2 DEF TypeOK, Holding, StartInv, Running, StartIsServed,
       QuietAfterStop, DeleteInv, FaultsExplained, CallingBack
<1> QED
  BY <1>4, <1>5, <1>6 DEF TypeOK

LEMMA Stops ==
  ASSUME IInv, NEW within \in BOOLEAN, StopPlay(within) \/ StopRecord(within)
  PROVE  IInv'
<1> USE DEF IInv
<1>1. /\ faults = {}
      /\ UNCHANGED <<kind, format, start_, thread, mutex, object, restarted, faults>>
  BY DEF StopPlay, StopRecord, MayCall, setup
<1>2. /\ playing_' \in BOOLEAN /\ recording_' \in BOOLEAN
      /\ (playing_' => playing_) /\ (recording_' => recording_)
  <2>1. CASE StopPlay(within)
    BY <2>1 DEF StopPlay, TypeOK
  <2>2. CASE StopRecord(within)
    BY <2>2 DEF StopRecord, TypeOK
  <2> QED
    BY <2>1, <2>2
<1>3. lastStop' \/ thread \notin Holding
  BY DEF StopPlay, StopRecord, MayCall, CallingBack, TypeOK
<1> QED
  BY <1>1, <1>2, <1>3 DEF TypeOK, Holding, StartInv, Running, StartIsServed, QuietAfterStop,
     DeleteInv, FaultsExplained

LEMMA Destructor ==
  ASSUME IInv, DeleteBegins \/ DeleteStops \/ DeleteJoins
  PROVE  IInv'
<1> USE DEF IInv
<1>1. /\ faults = {}
      /\ UNCHANGED <<kind, format, start_, thread, mutex, lastStop, restarted, faults>>
      /\ UNCHANGED <<playing_, recording_>> \/ thread \notin Holding
  <2>1. CASE DeleteBegins
    <3>1. faults = {} /\ UNCHANGED <<kind, format, start_, thread, mutex, lastStop, restarted, faults>>
      BY <2>1 DEF DeleteBegins, Usable, setup
    <3>2. UNCHANGED <<playing_, recording_>> \/ thread \notin Holding
      BY <2>1 DEF DeleteBegins, TypeOK
    <3> QED
      BY <3>1, <3>2
  <2>2. CASE DeleteStops
    BY <2>2 DEF DeleteStops, setup, TypeOK
  <2>3. CASE DeleteJoins
    BY <2>3 DEF DeleteJoins, setup, flags
  <2> QED
    BY <2>1, <2>2, <2>3
<1>2. /\ playing_' \in BOOLEAN /\ recording_' \in BOOLEAN
      /\ (playing_' => playing_) /\ (recording_' => recording_)
      /\ DeleteJoins => UNCHANGED <<playing_, recording_>>
  <2>1. CASE DeleteBegins
    <3>1. (playing_' = FALSE \/ playing_' = playing_) /\ recording_' = recording_
      BY <2>1 DEF DeleteBegins
    <3>2. ~DeleteJoins
      BY <2>1 DEF DeleteBegins, DeleteJoins, Usable
    <3>3. playing_ \in BOOLEAN /\ recording_ \in BOOLEAN
      BY DEF TypeOK
    <3>4. playing_' \in BOOLEAN /\ recording_' \in BOOLEAN
      BY <3>1, <3>3
    <3>5. (playing_' => playing_) /\ (recording_' => recording_)
      BY <3>1
    <3> QED
      BY <3>2, <3>4, <3>5
  <2>2. CASE DeleteStops
    BY <2>2 DEF DeleteStops, DeleteJoins, TypeOK
  <2>3. CASE DeleteJoins
    BY <2>3 DEF DeleteJoins, flags, TypeOK
  <2> QED
    BY <2>1, <2>2, <2>3
<1>3. DeleteInv' /\ object' \in {"alive", "stopping", "joining", "deleted"}
  <2>1. CASE DeleteBegins \/ DeleteStops
    BY <2>1 DEF DeleteBegins, DeleteStops, DeleteInv
  <2>2. CASE DeleteJoins
    <3>1. object' = "deleted" /\ thread' \in {"none", "ended"} /\ ~playing_ /\ ~recording_
      BY <1>1, <2>2 DEF DeleteJoins, StartIsServed
    <3> QED
      BY <1>2, <2>2, <3>1 DEF DeleteInv, Running
  <2> QED
    BY <2>1, <2>2
<1> QED
  BY <1>1, <1>2, <1>3 DEF TypeOK, Holding, StartInv, Running, StartIsServed, QuietAfterStop,
     FaultsExplained

LEMMA DeletedByCallback == ASSUME IInv, DeleteInside PROVE IInv'
<1> USE DEF IInv
<1>1. /\ playing_' = FALSE /\ recording_' = FALSE /\ object' = "joining" /\ lastStop' = TRUE
      /\ faults' = {"self_join"} /\ CallingBack
      /\ UNCHANGED <<kind, format, start_, thread, mutex, restarted>>
  BY DEF DeleteInside, setup
<1>2. TypeOK' /\ QuietAfterStop' /\ DeleteInv'
  BY <1>1 DEF TypeOK, Holding, QuietAfterStop, DeleteInv
<1>3. StartInv' /\ StartIsServed' /\ FaultsExplained'
  BY <1>1 DEF StartInv, StartIsServed, FaultsExplained, CallingBack
<1> QED
  BY <1>2, <1>3

(* The steps of the device's thread that change neither flag nor fault.    *)
LEMMA QuietSteps ==
  ASSUME IInv,
         Lock \/ GetPlayFrameData \/ PlayReturns \/ RecordReturns \/ WakeUp
  PROVE  IInv'
<1> USE DEF IInv
<1>1. /\ faults = {}
      /\ UNCHANGED <<kind, format, playing_, recording_, start_, object, lastStop, restarted, faults>>
  BY DEF Lock, GetPlayFrameData, PlayReturns, RecordReturns, WakeUp, ThreadGoes, setup
<1>2. /\ thread \notin {"none", "ended"} /\ thread' \notin {"none", "ended"}
      /\ thread' \in Holding \cup {"top"}
      /\ thread' # "recording" /\ (thread' = "playing" => playing_)
  BY DEF Lock, GetPlayFrameData, PlayReturns, RecordReturns, WakeUp, ThreadGoes, Holding
<1>3. mutex' = IF thread' \in Holding THEN "thread" ELSE "free"
  BY DEF Lock, GetPlayFrameData, PlayReturns, RecordReturns, WakeUp, ThreadGoes, Holding, TypeOK
<1> QED
  BY <1>1, <1>2, <1>3 DEF TypeOK, StartInv, Running, StartIsServed, QuietAfterStop, DeleteInv,
     FaultsExplained

LEMMA RecordStep == ASSUME IInv, SendRecordFrameData PROVE IInv'
<1> USE DEF IInv
<1>1. /\ faults = {} /\ thread = "played" /\ thread' \in {"recording", "recorded"}
      /\ UNCHANGED <<kind, format, playing_, recording_, start_, object, lastStop, restarted, mutex>>
      /\ thread' = "recording" => recording_
      /\ faults' \in {{}, FrameFaults}
  BY DEF SendRecordFrameData, ThreadGoes, setup
<1>2. TypeOK' /\ QuietAfterStop'
  BY <1>1 DEF TypeOK, Holding, QuietAfterStop
<1>3. StartInv' /\ StartIsServed' /\ DeleteInv'
  BY <1>1 DEF StartInv, Running, StartIsServed, DeleteInv
<1>4. FaultsExplained'
  <2>1. CASE faults' = {}
    BY <2>1 DEF FaultsExplained
  <2>2. CASE faults' = FrameFaults /\ faults' # {}
    <3>1. /\ kind = "audio"
          /\ (format.bits \div 8) * format.channels < 2 \/ SamplesPerFrame > 160
          /\ faults' \cap {"terminate", "self_join"} = {}
      BY <2>2, FrameFaultsExplained
    <3>2. SamplesPerFrame' = SamplesPerFrame
      BY <1>1 DEF SamplesPerFrame
    <3> QED
      BY <1>1, <3>1, <3>2 DEF FaultsExplained
  <2> QED
    BY <1>1, <2>1, <2>2
<1> QED
  BY <1>2, <1>3, <1>4

LEMMA LastStep == ASSUME IInv, EndTurn PROVE IInv'
<1> USE DEF IInv
<1>1. /\ faults = {} /\ thread = "recorded" /\ mutex' = "free"
      /\ UNCHANGED <<kind, format, playing_, recording_, object, lastStop, restarted, faults>>
      /\ \/ ShouldStop /\ thread' = "ended" /\ start_' = FALSE
         \/ ~ShouldStop /\ thread' = "sleep" /\ start_' = start_
  BY DEF EndTurn, ThreadGoes, setup
<1>2. TypeOK' /\ QuietAfterStop' /\ FaultsExplained'
  <2>1. TypeOK'
    BY <1>1 DEF TypeOK, Holding
  <2>2. QuietAfterStop' /\ FaultsExplained'
    BY <1>1 DEF QuietAfterStop, FaultsExplained
  <2> QED
    BY <2>1, <2>2
<1>3. StartInv' /\ StartIsServed' /\ DeleteInv'
  BY <1>1 DEF TypeOK, StartInv, Running, StartIsServed, DeleteInv, ShouldStop
<1> QED
  BY <1>2, <1>3

LEMMA StepInv == IInv /\ [Next]_vars => IInv'
<1> SUFFICES ASSUME IInv, [Next]_vars PROVE IInv'
  OBVIOUS
<1>1. CASE Next
  BY <1>1, SetUp, Starts, Stops, Destructor, DeletedByCallback, QuietSteps, RecordStep, LastStep
     DEF Next, DeviceThread
<1>2. CASE UNCHANGED vars
  BY <1>2 DEF vars, setup, flags, IInv, TypeOK, StartInv, Running, StartIsServed,
     QuietAfterStop, DeleteInv, FaultsExplained, CallingBack, SamplesPerFrame
<1> QED
  BY <1>1, <1>2

\* Every reachable state of a device satisfies the invariant.
THEOREM Invariance == Spec => []IInv
  BY InitInv, StepInv, PTL DEF Spec

-----------------------------------------------------------------------------
(* TypeOK, with the mutex held exactly where the thread has its lock_guard.*)
THEOREM TypeCorrect == Spec => []TypeOK
<1>1. IInv => TypeOK
  BY DEF IInv
<1> QED
  BY <1>1, Invariance, PTL

(* StartIsServed: no interleaving of StartRecord with the end of the       *)
(* thread loses the start (RunThread, EndTurn).                            *)
THEOREM NoStartIsLost == Spec => []StartIsServed
<1>1. IInv => StartIsServed
  BY DEF IInv
<1> QED
  BY <1>1, Invariance, PTL

(* QuietAfterStop: StopRecord and StopPlay wait for the callback of their  *)
(* kind, for any number of calls and for a callback that stops.            *)
THEOREM StopIsQuiet == Spec => []QuietAfterStop
<1>1. IInv => QuietAfterStop
  BY DEF IInv
<1> QED
  BY <1>1, Invariance, PTL

(* DeletedAfterThread: the destructor's join leaves no thread behind, even *)
(* if the callback starts the device while the destructor runs.            *)
THEOREM NoThreadAfterDelete == Spec => []DeletedAfterThread
<1>1. IInv => DeletedAfterThread
  BY DEF IInv, DeleteInv, Running, DeletedAfterThread
<1> QED
  BY <1>1, Invariance, PTL

(* FaultsExplained, for every format: generalPcmData overruns only with    *)
(* frames of more than 160 samples or samples of less than two bytes, and  *)
(* std::terminate needs a start after the thread's end, or a callback that *)
(* deletes its device.                                                     *)
THEOREM DeviceFaultsExplained == Spec => []FaultsExplained
<1>1. IInv => FaultsExplained
  BY DEF IInv
<1> QED
  BY <1>1, Invariance, PTL

(* StopIsFinal: both together, for what calls the device and what deletes it. *)
THEOREM StopsAreFinal == Spec => []StopIsFinal
<1> QED
  BY StopIsQuiet, NoThreadAfterDelete, PTL DEF StopIsFinal
-----------------------------------------------------------------------------
(* The encoder's output.  Sequences: what they are behind one another,     *)
(* with one more and without the first.                                    *)
LEMMA Behind ==
  ASSUME NEW S, NEW s \in Seq(S), NEW t \in Seq(S)
  PROVE  /\ s \o t \in Seq(S) /\ Len(s \o t) = Len(s) + Len(t)
         /\ \A k \in 1 .. Len(s) : (s \o t)[k] = s[k]
         /\ \A k \in 1 .. Len(t) : (s \o t)[Len(s) + k] = t[k]
OBVIOUS

LEMMA WithOneMore ==
  ASSUME NEW S, NEW s \in Seq(S), NEW x \in S
  PROVE  /\ Append(s, x) \in Seq(S) /\ Len(Append(s, x)) = Len(s) + 1
         /\ \A k \in 1 .. Len(s) : Append(s, x)[k] = s[k]
         /\ Append(s, x)[Len(s) + 1] = x
OBVIOUS

LEMMA WithoutFirst ==
  ASSUME NEW S, NEW s \in Seq(S), s # << >>
  PROVE  /\ Head(s) = s[1] /\ s[1] \in S /\ 1 \in 1 .. Len(s)
         /\ Tail(s) \in Seq(S) /\ Len(Tail(s)) = Len(s) - 1
         /\ \A k \in 1 .. Len(s) - 1 : Tail(s)[k] = s[k + 1]
OBVIOUS

LEMMA Places ==
  ASSUME NEW S, NEW s \in Seq(S)
  PROVE  Len(s) \in Nat /\ DOMAIN s = 1 .. Len(s) /\ \A k \in 1 .. Len(s) : s[k] \in S
OBVIOUS

LEMMA Same ==
  ASSUME NEW S, NEW s \in Seq(S), NEW t \in Seq(S), Len(s) = Len(t),
         \A k \in 1 .. Len(s) : s[k] = t[k]
  PROVE  s = t
OBVIOUS

LEMMA CutOut ==
  ASSUME NEW S, NEW s \in Seq(S), NEW m \in 1 .. Len(s) + 1, NEW n \in m - 1 .. Len(s)
  PROVE  /\ SubSeq(s, m, n) \in Seq(S) /\ Len(SubSeq(s, m, n)) = n + 1 - m
         /\ \A k \in 1 .. n + 1 - m : SubSeq(s, m, n)[k] = s[m + k - 1]
OBVIOUS

LEMMA NoneOf == ASSUME NEW S PROVE << >> \in Seq(S) /\ Len(<< >>) = 0
OBVIOUS

-----------------------------------------------------------------------------
(* Annex B: the constants, and what a unit is.                             *)
Octets == 0 .. 255

LEMMA EncoderBound == MaxFrames \in Nat
BY EncoderAssumption DEF Encoder!BoundAssumption

(* A unit without a start code in it.                                      *)
Clean(u) ==
  /\ u \in Seq(Octets) /\ Len(u) \in Nat /\ Len(u) > 0 /\ u[1] # 0 /\ u[Len(u)] # 0
  /\ \A k \in 1 .. Len(u) - 2 : u[k] = 0 /\ u[k + 1] = 0 => u[k + 2] > 1

LEMMA EscapedIsClean == ASSUME NEW u, Encoder!Escaped(u) PROVE Clean(u)
<1>1. u \in Seq(Octets) /\ u # << >>
  BY DEF Encoder!Escaped, Octets
<1>2. Len(u) \in Nat /\ Len(u) > 0
  BY <1>1
<1> QED  BY <1>1, <1>2 DEF Encoder!Escaped, Clean, Octets

LEMMA SetsAreClean == Clean(Sps) /\ Clean(Pps)
BY EncoderAssumption, EscapedIsClean DEF Encoder!BodiesAssumption

(* A unit of libx264's does not depend on its first byte.                  *)
LEMMA UnitIsClean ==
  ASSUME NEW first \in Octets, first # 0, NEW u \in Encoder!Units(first)
  PROVE  Clean(u) /\ u[1] = first
<1>1. PICK b \in Bodies : u = <<first>> \o b
  BY DEF Encoder!Units
<1>2. b \in Seq(Octets) /\ Clean(<<1>> \o b)
  BY EncoderAssumption, EscapedIsClean DEF Encoder!BodiesAssumption, Octets
<1>3. <<first>> \in Seq(Octets) /\ Len(<<first>>) = 1 /\ <<first>>[1] = first
  OBVIOUS
<1>4. <<1>> \in Seq(Octets) /\ Len(<<1>>) = 1 /\ <<1>>[1] = 1
  BY DEF Octets
<1>5. PICK m \in Nat : m = Len(b)
  BY <1>2
<1>6. /\ u \in Seq(Octets) /\ Len(u) = 1 + m /\ u[1] = first
      /\ \A k \in 1 .. m : u[1 + k] = b[k]
  BY <1>1, <1>2, <1>3, <1>5, Behind
<1>7. PICK v : v = <<1>> \o b
  OBVIOUS
<1>8. /\ v \in Seq(Octets) /\ Len(v) = 1 + m /\ v[1] = 1
      /\ \A k \in 1 .. m : v[1 + k] = b[k]
  BY <1>2, <1>4, <1>5, <1>7, Behind
<1>9. Clean(v)
  BY <1>2, <1>7
<1>10. m # 0
  <2>1. b # << >>
    BY EncoderAssumption DEF Encoder!BodiesAssumption
  <2> QED  BY <1>2, <1>5, <2>1
<1>11. \A k \in 2 .. m + 1 : u[k] = v[k]
  <2> SUFFICES ASSUME NEW k \in 2 .. m + 1 PROVE u[k] = v[k]
    OBVIOUS
  <2>1. k - 1 \in 1 .. m /\ k = 1 + (k - 1)
    OBVIOUS
  <2> QED  BY <1>6, <1>8, <2>1
<1>12. \A k \in 1 .. (m + 1) - 2 : u[k] = 0 /\ u[k + 1] = 0 => u[k + 2] > 1
  <2> SUFFICES ASSUME NEW k \in 1 .. (m + 1) - 2, u[k] = 0, u[k + 1] = 0 PROVE u[k + 2] > 1
    OBVIOUS
  <2>1. k # 1
    BY <1>6
  <2>2. k \in 2 .. m + 1 /\ k + 1 \in 2 .. m + 1 /\ k + 2 \in 2 .. m + 1 /\ k \in 1 .. Len(v) - 2
    BY <1>8, <2>1
  <2> QED  BY <1>9, <1>11, <2>2 DEF Clean
<1>13. u[m + 1] # 0
  <2>1. m + 1 \in 2 .. m + 1 /\ m + 1 = Len(v)
    BY <1>8, <1>10
  <2> QED  BY <1>9, <1>11, <2>1 DEF Clean
<1>14. Len(u) = m + 1 /\ Len(u) \in Nat /\ Len(u) > 0 /\ u[1] # 0
  BY <1>6
<1> QED  BY <1>6, <1>12, <1>13, <1>14 DEF Clean

(* What At and StartCodeAt find where a start code lies, and in a unit.    *)
LEMMA CodeIs ==
  ASSUME NEW c \in Encoder!StartCodes
  PROVE  /\ c \in Seq(Octets)
         /\ \/ Len(c) = 3 /\ c[1] = 0 /\ c[2] = 0 /\ c[3] = 1
            \/ Len(c) = 4 /\ c[1] = 0 /\ c[2] = 0 /\ c[3] = 0 /\ c[4] = 1
<1>1. c = <<0, 0, 1>> \/ c = <<0, 0, 0, 1>>
  BY DEF Encoder!StartCodes
<1>2. 0 \in Octets /\ 1 \in Octets
  BY DEF Octets
<1>3. CASE c = <<0, 0, 1>>
  BY <1>2, <1>3
<1>4. CASE c = <<0, 0, 0, 1>>
  BY <1>2, <1>4
<1> QED  BY <1>1, <1>3, <1>4

Lies(u, b, s) ==
  /\ s \in Nat /\ s + Len(u) <= Len(b) /\ \A k \in 1 .. Len(u) : b[s + k] = u[k]

LEMMA ReadsAt ==
  ASSUME NEW b \in Seq(Octets), NEW u \in Seq(Octets), NEW s, Lies(u, b, s),
         NEW k \in Nat, k < Len(u)
  PROVE  Encoder!At(b, s + k) = u[k + 1] /\ s + k < Len(b)
<1>1. Len(b) \in Nat /\ Len(u) \in Nat /\ s \in Nat /\ s + Len(u) <= Len(b)
  BY DEF Lies
<1>2. k + 1 \in 1 .. Len(u) /\ s + (k + 1) = (s + k) + 1 /\ s + k < Len(b)
  BY <1>1
<1> QED  BY <1>2 DEF Encoder!At, Lies

LEMMA CodeFound ==
  ASSUME NEW b \in Seq(Octets), NEW c \in Encoder!StartCodes, NEW s, Lies(c, b, s)
  PROVE  Encoder!StartCodeAt(b, s) = Len(c)
<1>1. s \in Nat /\ Len(b) \in Nat /\ c \in Seq(Octets)
  BY CodeIs DEF Lies
<1>2. s + 0 = s
  BY <1>1
<1>3. CASE Len(c) = 3 /\ c[1] = 0 /\ c[2] = 0 /\ c[3] = 1
  <2>1. 0 < Len(c) /\ 1 < Len(c) /\ 2 < Len(c) /\ 0 + 1 = 1 /\ 1 + 1 = 2 /\ 2 + 1 = 3
    BY <1>3
  <2>2. Encoder!At(b, s + 0) = c[0 + 1] /\ Encoder!At(b, s + 1) = c[1 + 1]
        /\ Encoder!At(b, s + 2) = c[2 + 1] /\ s + 2 < Len(b)
    BY <1>1, <2>1, ReadsAt
  <2>3. Encoder!At(b, s) = 0 /\ Encoder!At(b, s + 1) = 0 /\ Encoder!At(b, s + 2) = 1
    BY <1>2, <1>3, <2>1, <2>2
  <2> QED  BY <1>3, <2>2, <2>3 DEF Encoder!StartCodeAt
<1>4. CASE Len(c) = 4 /\ c[1] = 0 /\ c[2] = 0 /\ c[3] = 0 /\ c[4] = 1
  <2>1. 0 < Len(c) /\ 1 < Len(c) /\ 2 < Len(c) /\ 3 < Len(c)
        /\ 0 + 1 = 1 /\ 1 + 1 = 2 /\ 2 + 1 = 3 /\ 3 + 1 = 4
    BY <1>4
  <2>2. Encoder!At(b, s + 0) = c[0 + 1] /\ Encoder!At(b, s + 1) = c[1 + 1]
        /\ Encoder!At(b, s + 2) = c[2 + 1] /\ Encoder!At(b, s + 3) = c[3 + 1] /\ s + 3 < Len(b)
    BY <1>1, <2>1, ReadsAt
  <2>3. Encoder!At(b, s) = 0 /\ Encoder!At(b, s + 1) = 0 /\ Encoder!At(b, s + 2) = 0
        /\ Encoder!At(b, s + 3) = 1
    BY <1>2, <1>4, <2>1, <2>2
  <2> QED  BY <1>4, <2>2, <2>3 DEF Encoder!StartCodeAt
<1> QED  BY <1>3, <1>4, CodeIs

LEMMA NoCodeInside ==
  ASSUME NEW b \in Seq(Octets), NEW u, Clean(u), NEW s, Lies(u, b, s),
         NEW k \in Nat, k < Len(u)
  PROVE  /\ Encoder!StartCodeAt(b, s + k) = 0
         /\ Encoder!At(b, s + k) = u[k + 1] /\ s + k < Len(b)
         /\ ~(/\ Encoder!At(b, s + k) = 0 /\ Encoder!At(b, (s + k) + 1) = 0
              /\ Encoder!At(b, (s + k) + 2) \in {0, 1})
<1>1. u \in Seq(Octets) /\ Len(u) \in Nat /\ s \in Nat
  BY DEF Clean, Lies
<1>2. Encoder!At(b, s + k) = u[k + 1] /\ s + k < Len(b)
  BY <1>1, ReadsAt
<1>3. ASSUME Encoder!At(b, s + k) = 0, Encoder!At(b, (s + k) + 1) = 0
      PROVE  Encoder!At(b, (s + k) + 2) > 1
  <2>1. k + 1 < Len(u)
    BY <1>1, <1>2, <1>3 DEF Clean
  <2>2. Encoder!At(b, s + (k + 1)) = u[(k + 1) + 1]
    BY <1>1, <2>1, ReadsAt
  <2>3. s + (k + 1) = (s + k) + 1 /\ (k + 1) + 1 = k + 2
    BY <1>1
  <2>4. u[k + 2] = 0
    BY <1>3, <2>2, <2>3
  <2>5. k + 2 < Len(u)
    BY <1>1, <2>1, <2>4 DEF Clean
  <2>6. Encoder!At(b, s + (k + 2)) = u[(k + 2) + 1]
    BY <1>1, <2>5, ReadsAt
  <2>7. s + (k + 2) = (s + k) + 2 /\ (k + 2) + 1 = (k + 1) + 2 /\ k + 1 \in 1 .. Len(u) - 2
        /\ (k + 1) + 1 = k + 2
    BY <1>1, <2>5
  <2>8. u[k + 1] = 0 /\ u[(k + 1) + 1] = 0
    BY <1>2, <1>3, <2>4, <2>7
  <2>9. u[(k + 1) + 2] > 1
    BY <2>7, <2>8 DEF Clean
  <2> QED  BY <2>6, <2>7, <2>9
<1>4. ~(/\ Encoder!At(b, s + k) = 0 /\ Encoder!At(b, (s + k) + 1) = 0
        /\ Encoder!At(b, (s + k) + 2) \in {0, 1})
  BY <1>3
<1>5. Encoder!StartCodeAt(b, s + k) = 0
  BY <1>4 DEF Encoder!StartCodeAt
<1> QED  BY <1>2, <1>4, <1>5

-----------------------------------------------------------------------------
(* The parameter sets: copySpspps cuts them where they are.                *)
LEMMA SetsAreCut ==
  /\ Encoder!CopySpspps(Encoder!extradata) = Encoder!TheSets
  /\ Encoder!TheSets # Encoder!NoSets
<1> DEFINE four == <<0, 0, 0, 1>>
<1>1. four \in Seq(Octets) /\ Len(four) = 4 /\ four \in Encoder!StartCodes
      /\ four[1] = 0 /\ four[2] = 0 /\ four[3] = 0 /\ four[4] = 1
  BY DEF Octets, Encoder!StartCodes
<1> HIDE DEF four
<1>2. PICK m \in Nat, l \in Nat : m = Len(Sps) /\ l = Len(Pps) /\ m > 0 /\ l > 0
  BY SetsAreClean DEF Clean
<1>3. Sps \in Seq(Octets) /\ Pps \in Seq(Octets) /\ Clean(Sps) /\ Clean(Pps)
  BY SetsAreClean DEF Clean
<1>4. PICK d : d = Encoder!extradata
  OBVIOUS
<1>5. d = (four \o Sps) \o (four \o Pps)
  BY <1>4 DEF Encoder!extradata, four
<1>6. PICK f : f = four \o Sps
  OBVIOUS
<1>61. /\ f \in Seq(Octets) /\ Len(f) = 4 + m
       /\ \A k \in 1 .. 4 : f[k] = four[k]
       /\ \A k \in 1 .. m : f[4 + k] = Sps[k]
  <2>1. Len(Sps) = m /\ Len(four) = 4
    BY <1>1, <1>2
  <2>2. four \in Seq(Octets) /\ Sps \in Seq(Octets)
    BY <1>1, <1>3
  <2>3. /\ f \in Seq(Octets) /\ Len(f) = Len(four) + Len(Sps)
        /\ \A k \in 1 .. Len(four) : f[k] = four[k]
        /\ \A k \in 1 .. Len(Sps) : f[Len(four) + k] = Sps[k]
    BY <1>6, <2>2, Behind
  <2> QED  BY <2>1, <2>3
<1>7. PICK g : g = four \o Pps
  OBVIOUS
<1>71. /\ g \in Seq(Octets) /\ Len(g) = 4 + l
       /\ \A k \in 1 .. 4 : g[k] = four[k]
       /\ \A k \in 1 .. l : g[4 + k] = Pps[k]
  <2>1. Len(Pps) = l /\ Len(four) = 4
    BY <1>1, <1>2
  <2>2. four \in Seq(Octets) /\ Pps \in Seq(Octets)
    BY <1>1, <1>3
  <2>3. /\ g \in Seq(Octets) /\ Len(g) = Len(four) + Len(Pps)
        /\ \A k \in 1 .. Len(four) : g[k] = four[k]
        /\ \A k \in 1 .. Len(Pps) : g[Len(four) + k] = Pps[k]
    BY <1>7, <2>2, Behind
  <2> QED  BY <2>1, <2>3
<1>8. /\ d \in Seq(Octets) /\ Len(d) = (4 + m) + (4 + l)
      /\ \A k \in 1 .. 4 + m : d[k] = f[k]
      /\ \A k \in 1 .. 4 + l : d[(4 + m) + k] = g[k]
  <2>1. d = f \o g
    BY <1>5, <1>6, <1>7
  <2>3. /\ d \in Seq(Octets) /\ Len(d) = Len(f) + Len(g)
        /\ \A k \in 1 .. Len(f) : d[k] = f[k]
        /\ \A k \in 1 .. Len(g) : d[Len(f) + k] = g[k]
    <3>1. f \in Seq(Octets) /\ g \in Seq(Octets)
      BY <1>61, <1>71
    <3> QED  BY ONLY <2>1, <3>1, Behind
  <2> QED  BY <1>61, <1>71, <2>3
<1>9. \A k \in 1 .. 4 : d[k] = four[k]
  <2> SUFFICES ASSUME NEW k \in 1 .. 4 PROVE d[k] = four[k]
    OBVIOUS
  <2>1. k \in 1 .. 4 + m
    BY <1>2
  <2> QED  BY <1>61, <1>8, <2>1
<1>10. \A k \in 1 .. m : d[4 + k] = Sps[k]
  <2> SUFFICES ASSUME NEW k \in 1 .. m PROVE d[4 + k] = Sps[k]
    OBVIOUS
  <2>1. 4 + k \in 1 .. 4 + m
    BY <1>2
  <2> QED  BY <1>61, <1>8, <2>1
<1>11. \A k \in 1 .. 4 : d[(4 + m) + k] = four[k]
  <2> SUFFICES ASSUME NEW k \in 1 .. 4 PROVE d[(4 + m) + k] = four[k]
    OBVIOUS
  <2>1. k \in 1 .. 4 + l
    BY <1>2
  <2> QED  BY <1>71, <1>8, <2>1
<1>12. \A k \in 1 .. l : d[(8 + m) + k] = Pps[k]
  <2> SUFFICES ASSUME NEW k \in 1 .. l PROVE d[(8 + m) + k] = Pps[k]
    OBVIOUS
  <2>1. 4 + k \in 1 .. 4 + l /\ (8 + m) + k = (4 + m) + (4 + k)
    BY <1>2
  <2> QED  BY <1>71, <1>8, <2>1
<1>13. Lies(Sps, d, 4) /\ Lies(four, d, 4 + m)
  BY <1>1, <1>2, <1>8, <1>10, <1>11 DEF Lies
<1> DEFINE at == {n \in 4 .. (Len(d) - 1) : \A k \in 0 .. 3 : Encoder!At(d, n + k) = d[k + 1]}
<1>14. 4 + m \in at
  <2>1. 4 + m \in 4 .. (Len(d) - 1)
    BY <1>2, <1>8
  <2>2. ASSUME NEW k \in 0 .. 3 PROVE Encoder!At(d, (4 + m) + k) = d[k + 1]
    <3>1. k \in Nat /\ k < Len(four) /\ k + 1 \in 1 .. 4
      BY <1>1
    <3>2. Encoder!At(d, (4 + m) + k) = four[k + 1]
      BY <1>1, <1>8, <1>13, <3>1, ReadsAt, ZenonT(60)
    <3> QED  BY <1>9, <3>1, <3>2
  <2> QED  BY <2>1, <2>2
<1>15. ASSUME NEW n \in at PROVE 4 + m <= n
  <2>1. n \in 4 .. (Len(d) - 1) /\ \A k \in 0 .. 3 : Encoder!At(d, n + k) = d[k + 1]
    OBVIOUS
  <2>2. n \in Nat /\ n >= 4
    BY <1>2, <1>8, <2>1
  <2>3. Encoder!At(d, n) = 0 /\ Encoder!At(d, n + 1) = 0 /\ Encoder!At(d, n + 2) = 0
    <3>1. Encoder!At(d, n + 0) = d[0 + 1] /\ Encoder!At(d, n + 1) = d[1 + 1]
          /\ Encoder!At(d, n + 2) = d[2 + 1]
      BY <2>1
    <3>2. n + 0 = n /\ 0 + 1 = 1 /\ 1 + 1 = 2 /\ 2 + 1 = 3
      BY <2>2
    <3> QED  BY <1>1, <1>9, <3>1, <3>2
  <2>4. SUFFICES ASSUME n < 4 + m PROVE FALSE
    BY <1>2, <2>2
  <2>5. PICK k \in Nat : n = 4 + k /\ k < m
    <3>1. n - 4 \in Nat /\ n = 4 + (n - 4) /\ n - 4 < m
      BY <1>2, <2>2, <2>4
    <3> QED  BY <3>1
  <2>6. k < Len(Sps)
    BY <1>2, <2>5
  <2>7. ~(/\ Encoder!At(d, 4 + k) = 0 /\ Encoder!At(d, (4 + k) + 1) = 0
          /\ Encoder!At(d, (4 + k) + 2) \in {0, 1})
    BY <1>3, <1>8, <1>13, <2>6, NoCodeInside
  <2> QED  BY <2>3, <2>5, <2>7
<1>16. at # {} /\ at \subseteq Nat
  <2>1. Len(d) \in Nat
    BY <1>8
  <2>2. at \subseteq 4 .. (Len(d) - 1)
    OBVIOUS
  <2>3. 4 .. (Len(d) - 1) \subseteq Nat
    BY <2>1
  <2> HIDE DEF at
  <2> QED  BY <1>14, <2>2, <2>3
<1>17. (CHOOSE n \in at : \A j \in at : n <= j) = 4 + m
  <2>1. \A j \in at : 4 + m <= j
    BY <1>15
  <2>2. ASSUME NEW n \in at, \A j \in at : n <= j PROVE n = 4 + m
    <3>1. n \in Nat /\ 4 + m <= n
      BY <1>15, <1>16
    <3>2. n <= 4 + m
      BY <1>14, <2>2
    <3> QED  BY <1>2, <3>1, <3>2
  <2> HIDE DEF at
  <2> QED  BY <1>14, <2>1, <2>2, Zenon
<1>18. Encoder!SecondCode(d) = 4 + m
  <2>1. Encoder!SecondCode(d) = IF at = {} THEN Len(d) ELSE CHOOSE n \in at : \A j \in at : n <= j
    BY DEF Encoder!SecondCode
  <2> HIDE DEF at
  <2> QED  BY <1>16, <1>17, <2>1
<1>19. SubSeq(d, 5, 4 + m) = Sps
  <2>1. 5 \in 1 .. Len(d) + 1 /\ 4 + m \in 5 - 1 .. Len(d) /\ (4 + m) + 1 - 5 = m
    BY <1>2, <1>8
  <2>2. /\ SubSeq(d, 5, 4 + m) \in Seq(Octets) /\ Len(SubSeq(d, 5, 4 + m)) = m
        /\ \A k \in 1 .. m : SubSeq(d, 5, 4 + m)[k] = d[5 + k - 1]
    BY <1>8, <2>1, CutOut
  <2>3. \A k \in 1 .. m : d[5 + k - 1] = Sps[k]
    <3> SUFFICES ASSUME NEW k \in 1 .. m PROVE d[5 + k - 1] = Sps[k]
      OBVIOUS
    <3>1. 5 + k - 1 = 4 + k
      OBVIOUS
    <3> QED  BY <1>10, <3>1
  <2>4. \A k \in 1 .. Len(SubSeq(d, 5, 4 + m)) : SubSeq(d, 5, 4 + m)[k] = Sps[k]
    BY <2>2, <2>3
  <2> QED  BY <1>2, <1>3, <2>2, <2>4, Same
<1>20. SubSeq(d, (4 + m) + 5, Len(d)) = Pps
  <2>1. (4 + m) + 5 \in 1 .. Len(d) + 1 /\ Len(d) \in (4 + m) + 5 - 1 .. Len(d)
        /\ Len(d) + 1 - ((4 + m) + 5) = l
    BY <1>2, <1>8
  <2>2. /\ SubSeq(d, (4 + m) + 5, Len(d)) \in Seq(Octets)
        /\ Len(SubSeq(d, (4 + m) + 5, Len(d))) = l
        /\ \A k \in 1 .. l : SubSeq(d, (4 + m) + 5, Len(d))[k] = d[(4 + m) + 5 + k - 1]
    BY <1>8, <2>1, CutOut
  <2>3. \A k \in 1 .. l : d[(4 + m) + 5 + k - 1] = Pps[k]
    <3> SUFFICES ASSUME NEW k \in 1 .. l PROVE d[(4 + m) + 5 + k - 1] = Pps[k]
      OBVIOUS
    <3>1. (4 + m) + 5 + k - 1 = (8 + m) + k
      BY <1>2
    <3> QED  BY <1>12, <3>1
  <2>4. \A k \in 1 .. Len(SubSeq(d, (4 + m) + 5, Len(d))) :
           SubSeq(d, (4 + m) + 5, Len(d))[k] = Pps[k]
    BY <2>2, <2>3
  <2> QED  BY <1>2, <1>3, <2>2, <2>4, Same
<1>21. Encoder!CopySpspps(d) = Encoder!TheSets
  BY <1>18, <1>19, <1>20 DEF Encoder!CopySpspps, Encoder!TheSets
<1>22. Encoder!TheSets # Encoder!NoSets
  <2>1. Sps # << >>
    BY <1>2
  <2> QED  BY <2>1 DEF Encoder!TheSets, Encoder!NoSets
<1> QED  BY <1>4, <1>21, <1>22

-----------------------------------------------------------------------------
(* A packet of libx264's: where its start codes and units lie.             *)
LEMMA PieceIs ==
  ASSUME NEW p,
         p \in Encoder!Pieces(Encoder!Idr) \cup Encoder!Pieces(Encoder!Slice)
                 \cup Encoder!Pieces(Encoder!Sei)
  PROVE  p.code \in Encoder!StartCodes /\ Clean(p.nalu)
<1>1. PICK first \in {101, 65, 6} : p \in Encoder!Pieces(first)
  BY DEF Encoder!Idr, Encoder!Slice, Encoder!Sei
<1>2. p.code \in Encoder!StartCodes /\ p.nalu \in Encoder!Units(first)
  BY <1>1 DEF Encoder!Pieces
<1>3. first \in Octets /\ first # 0
  BY DEF Octets
<1> QED  BY <1>2, <1>3, UnitIsClean

LEMMA UnitPieces ==
  ASSUME NEW unit \in Encoder!AccessUnits
  PROVE  /\ Len(unit) \in {1, 2}
         /\ \A k \in 1 .. Len(unit) : unit[k].code \in Encoder!StartCodes /\ Clean(unit[k].nalu)
<1>1. CASE \E p \in Encoder!Pieces(Encoder!Idr) \cup Encoder!Pieces(Encoder!Slice) : unit = <<p>>
  <2>1. PICK p \in Encoder!Pieces(Encoder!Idr) \cup Encoder!Pieces(Encoder!Slice) : unit = <<p>>
    BY <1>1
  <2>2. Len(unit) = 1 /\ unit[1] = p
    BY <2>1
  <2>3. p.code \in Encoder!StartCodes /\ Clean(p.nalu)
    BY PieceIs
  <2>4. \A k \in 1 .. Len(unit) : k = 1
    BY <2>2
  <2> QED  BY <2>2, <2>3, <2>4
<1>2. CASE \E s \in Encoder!Pieces(Encoder!Sei), p \in Encoder!Pieces(Encoder!Idr) : unit = <<s, p>>
  <2>1. PICK s \in Encoder!Pieces(Encoder!Sei), p \in Encoder!Pieces(Encoder!Idr) : unit = <<s, p>>
    BY <1>2
  <2>2. Len(unit) = 2 /\ unit[1] = s /\ unit[2] = p
    BY <2>1
  <2>3. /\ s.code \in Encoder!StartCodes /\ Clean(s.nalu)
        /\ p.code \in Encoder!StartCodes /\ Clean(p.nalu)
    BY PieceIs
  <2>4. \A k \in 1 .. Len(unit) : k = 1 \/ k = 2
    BY <2>2
  <2> QED  BY <2>2, <2>3, <2>4
<1> QED  BY <1>1, <1>2 DEF Encoder!AccessUnits

(* Where the k-th start code begins.                                       *)
CodeFrom(unit, k) == IF k = 1 THEN 0 ELSE Len(unit[1].code) + Len(unit[1].nalu)

LEMMA BytesOfPacket ==
  ASSUME NEW unit \in Encoder!AccessUnits
  PROVE  /\ Encoder!Bytes(unit) \in Seq(Octets)
         /\ \A k \in 1 .. Len(unit) :
              /\ Lies(unit[k].code, Encoder!Bytes(unit), CodeFrom(unit, k))
              /\ Lies(unit[k].nalu, Encoder!Bytes(unit), Encoder!From(unit, k))
              /\ Encoder!From(unit, k) = CodeFrom(unit, k) + Len(unit[k].code)
         /\ Len(Encoder!Bytes(unit))
              = Encoder!From(unit, Len(unit)) + Len(unit[Len(unit)].nalu)
<1>1. /\ Len(unit) \in {1, 2}
      /\ \A k \in 1 .. Len(unit) : unit[k].code \in Encoder!StartCodes /\ Clean(unit[k].nalu)
  BY UnitPieces
<1>2. PICK c, u : c = unit[1].code /\ u = unit[1].nalu
  OBVIOUS
<1>3. /\ c \in Seq(Octets) /\ u \in Seq(Octets)
  <2>1. 1 \in 1 .. Len(unit)
    BY <1>1
  <2>2. c \in Encoder!StartCodes /\ Clean(u)
    BY <1>1, <1>2, <2>1
  <2> QED  BY <2>2, CodeIs DEF Clean
<1>4. PICK x \in Nat, y \in Nat : x = Len(c) /\ y = Len(u)
  BY <1>3
<1>5. PICK f : f = c \o u
  OBVIOUS
<1>6. /\ f \in Seq(Octets) /\ Len(f) = x + y
      /\ \A k \in 1 .. x : f[k] = c[k]
      /\ \A k \in 1 .. y : f[x + k] = u[k]
  BY <1>3, <1>4, <1>5, Behind
<1>7. PICK b : b = Encoder!Bytes(unit)
  OBVIOUS
<1>8. CASE Len(unit) = 1
  <2>1. b = f \o << >>
    BY <1>2, <1>5, <1>7, <1>8 DEF Encoder!Bytes
  <2>2. b = f
    BY <1>6, <2>1
  <2>3. CodeFrom(unit, 1) = 0 /\ Encoder!From(unit, 1) = x
    BY <1>2, <1>4 DEF CodeFrom, Encoder!From
  <2>4. Lies(c, b, 0) /\ Lies(u, b, x)
    <3>1. \A k \in 1 .. x : b[0 + k] = c[k]
      <4> SUFFICES ASSUME NEW k \in 1 .. x PROVE b[0 + k] = c[k]
        OBVIOUS
      <4>1. 0 + k = k
        OBVIOUS
      <4> QED  BY <1>6, <2>2, <4>1
    <3>2. \A k \in 1 .. y : b[x + k] = u[k]
      BY <1>6, <2>2
    <3>3. 0 \in Nat /\ 0 + x <= Len(b) /\ x + y <= Len(b)
      BY <1>4, <1>6, <2>2
    <3>4. Lies(c, b, 0)
      BY ONLY <1>4, <3>1, <3>3 DEF Lies
    <3>5. Lies(u, b, x)
      BY ONLY <1>4, <3>2, <3>3 DEF Lies
    <3> QED  BY <3>4, <3>5
  <2>5. \A k \in 1 .. Len(unit) : k = 1
    BY <1>8
  <2>6. x = 0 + x
    OBVIOUS
  <2> QED  BY <1>2, <1>4, <1>6, <1>7, <1>8, <2>2, <2>3, <2>4, <2>5, <2>6
<1>9. CASE Len(unit) = 2
  <2>1. PICK c2, u2 : c2 = unit[2].code /\ u2 = unit[2].nalu
    OBVIOUS
  <2>2. c2 \in Seq(Octets) /\ u2 \in Seq(Octets)
    <3>1. 2 \in 1 .. Len(unit)
      BY <1>9
    <3>2. c2 \in Encoder!StartCodes /\ Clean(u2)
      BY <1>1, <2>1, <3>1
    <3> QED  BY <3>2, CodeIs DEF Clean
  <2>3. PICK z \in Nat, w \in Nat : z = Len(c2) /\ w = Len(u2)
    BY <2>2
  <2>4. PICK g : g = c2 \o u2
    OBVIOUS
  <2>5. /\ g \in Seq(Octets) /\ Len(g) = z + w
        /\ \A k \in 1 .. z : g[k] = c2[k]
        /\ \A k \in 1 .. w : g[z + k] = u2[k]
    BY <2>2, <2>3, <2>4, Behind
  <2>6. b = f \o g
    BY <1>2, <1>5, <1>7, <1>9, <2>1, <2>4 DEF Encoder!Bytes
  <2>7. /\ b \in Seq(Octets) /\ Len(b) = (x + y) + (z + w)
        /\ \A k \in 1 .. x + y : b[k] = f[k]
        /\ \A k \in 1 .. z + w : b[(x + y) + k] = g[k]
    <3>1. /\ b \in Seq(Octets) /\ Len(b) = Len(f) + Len(g)
          /\ \A k \in 1 .. Len(f) : b[k] = f[k]
          /\ \A k \in 1 .. Len(g) : b[Len(f) + k] = g[k]
      <4>1. f \in Seq(Octets) /\ g \in Seq(Octets)
        BY <1>6, <2>5
      <4> QED  BY ONLY <2>6, <4>1, Behind
    <3> QED  BY <1>6, <2>5, <3>1
  <2>8. /\ CodeFrom(unit, 1) = 0 /\ Encoder!From(unit, 1) = x
        /\ CodeFrom(unit, 2) = x + y /\ Encoder!From(unit, 2) = (x + y) + z
    BY <1>2, <1>4, <2>1, <2>3 DEF CodeFrom, Encoder!From
  <2>9. Lies(c, b, 0) /\ Lies(u, b, x)
    <3>1. \A k \in 1 .. x : b[0 + k] = c[k]
      <4> SUFFICES ASSUME NEW k \in 1 .. x PROVE b[0 + k] = c[k]
        OBVIOUS
      <4>1. 0 + k = k /\ k \in 1 .. x + y
        BY <1>4
      <4> QED  BY <1>6, <2>7, <4>1
    <3>2. \A k \in 1 .. y : b[x + k] = u[k]
      <4> SUFFICES ASSUME NEW k \in 1 .. y PROVE b[x + k] = u[k]
        OBVIOUS
      <4>1. x + k \in 1 .. x + y
        BY <1>4
      <4> QED  BY <1>6, <2>7, <4>1
    <3>3. 0 \in Nat /\ 0 + x <= Len(b) /\ x + y <= Len(b)
      BY <1>4, <2>3, <2>7
    <3>4. Lies(c, b, 0)
      BY ONLY <1>4, <3>1, <3>3 DEF Lies
    <3>5. Lies(u, b, x)
      BY ONLY <1>4, <3>2, <3>3 DEF Lies
    <3> QED  BY <3>4, <3>5
  <2>10. Lies(c2, b, x + y) /\ Lies(u2, b, (x + y) + z)
    <3>1. \A k \in 1 .. z : b[(x + y) + k] = c2[k]
      <4> SUFFICES ASSUME NEW k \in 1 .. z PROVE b[(x + y) + k] = c2[k]
        OBVIOUS
      <4>1. k \in 1 .. z + w
        BY <2>3
      <4> QED  BY <2>5, <2>7, <4>1
    <3>2. \A k \in 1 .. w : b[((x + y) + z) + k] = u2[k]
      <4> SUFFICES ASSUME NEW k \in 1 .. w PROVE b[((x + y) + z) + k] = u2[k]
        OBVIOUS
      <4>1. z + k \in 1 .. z + w /\ ((x + y) + z) + k = (x + y) + (z + k)
        BY <1>4, <2>3
      <4> QED  BY <2>5, <2>7, <4>1
    <3>3. /\ x + y \in Nat /\ (x + y) + z <= Len(b)
          /\ (x + y) + z \in Nat /\ ((x + y) + z) + w <= Len(b)
      BY <1>4, <2>3, <2>7
    <3>4. Lies(c2, b, x + y)
      BY ONLY <2>3, <3>1, <3>3 DEF Lies
    <3>5. Lies(u2, b, (x + y) + z)
      BY ONLY <2>3, <3>2, <3>3 DEF Lies
    <3> QED  BY <3>4, <3>5
  <2>11. \A k \in 1 .. Len(unit) : k = 1 \/ k = 2
    BY <1>9
  <2>12. x = 0 + x /\ Len(b) = ((x + y) + z) + w
    BY <1>4, <2>3, <2>7
  <2>13. \A k \in 1 .. Len(unit) :
           /\ Lies(unit[k].code, Encoder!Bytes(unit), CodeFrom(unit, k))
           /\ Lies(unit[k].nalu, Encoder!Bytes(unit), Encoder!From(unit, k))
           /\ Encoder!From(unit, k) = CodeFrom(unit, k) + Len(unit[k].code)
    <3> SUFFICES ASSUME NEW k \in 1 .. Len(unit)
                 PROVE  /\ Lies(unit[k].code, b, CodeFrom(unit, k))
                        /\ Lies(unit[k].nalu, b, Encoder!From(unit, k))
                        /\ Encoder!From(unit, k) = CodeFrom(unit, k) + Len(unit[k].code)
      BY <1>7
    <3>1. CASE k = 1
      BY ONLY <1>2, <1>4, <2>8, <2>9, <2>12, <3>1
    <3>2. CASE k = 2
      BY ONLY <2>1, <2>3, <2>8, <2>10, <3>2
    <3> QED  BY <2>11, <3>1, <3>2
  <2>14. Len(b) = Encoder!From(unit, Len(unit)) + Len(unit[Len(unit)].nalu)
    BY ONLY <1>9, <2>1, <2>3, <2>8, <2>12
  <2> QED  BY ONLY <1>7, <2>7, <2>13, <2>14
<1> QED  BY <1>1, <1>8, <1>9

-----------------------------------------------------------------------------
(* The video packets or messages of a sequence, and their numbers.         *)
Vid(s) == {k \in DOMAIN s : s[k].type = "video"}
Num(s) == {s[k].n : k \in Vid(s)}
Fits(s, e) ==
  /\ \A k \in Vid(s) :
       s[k].n \in DOMAIN e /\ e[s[k].n] = [pts |-> s[k].pts, data |-> s[k].data]
  /\ \A j, k \in Vid(s) : j < k => s[j].n < s[k].n

LEMMA VidOfNone == ASSUME NEW e PROVE Num(<< >>) = {} /\ Fits(<< >>, e)
BY DEF Vid, Num, Fits

LEMMA OneVideoMore ==
  ASSUME NEW S, NEW s \in Seq(S), NEW x \in S, x.type = "video"
  PROVE  /\ Vid(Append(s, x)) = Vid(s) \cup {Len(s) + 1} /\ Append(s, x)[Len(s) + 1] = x
         /\ \A k \in Vid(s) : k \in 1 .. Len(s) /\ Append(s, x)[k] = s[k]
         /\ Num(Append(s, x)) = Num(s) \cup {x.n}
<1>0. PICK r : r = Append(s, x)
  OBVIOUS
<1>1. /\ r \in Seq(S) /\ Len(r) = Len(s) + 1 /\ r[Len(s) + 1] = x
      /\ \A k \in 1 .. Len(s) : r[k] = s[k]
  BY <1>0, WithOneMore
<1>2. Len(s) \in Nat /\ DOMAIN s = 1 .. Len(s) /\ DOMAIN r = 1 .. Len(s) + 1
  BY <1>1
<1>3. \A k \in Vid(s) : k \in 1 .. Len(s) /\ r[k] = s[k]
  BY <1>1, <1>2 DEF Vid
<1>4. Vid(r) = Vid(s) \cup {Len(s) + 1}
  BY <1>1, <1>2 DEF Vid
<1>5. Num(r) = Num(s) \cup {x.n}
  BY ONLY <1>1, <1>3, <1>4 DEF Num
<1> QED  BY <1>0, <1>1, <1>3, <1>4, <1>5

LEMMA NoVideoMore ==
  ASSUME NEW S, NEW s \in Seq(S), NEW x \in S, x.type # "video"
  PROVE  /\ Vid(Append(s, x)) = Vid(s)
         /\ \A k \in Vid(s) : k \in 1 .. Len(s) /\ Append(s, x)[k] = s[k]
         /\ Num(Append(s, x)) = Num(s)
<1>0. PICK r : r = Append(s, x)
  OBVIOUS
<1>1. /\ r \in Seq(S) /\ Len(r) = Len(s) + 1 /\ r[Len(s) + 1] = x
      /\ \A k \in 1 .. Len(s) : r[k] = s[k]
  BY <1>0, WithOneMore
<1>2. Len(s) \in Nat /\ DOMAIN s = 1 .. Len(s) /\ DOMAIN r = 1 .. Len(s) + 1
  BY <1>1
<1>3. \A k \in Vid(s) : k \in 1 .. Len(s) /\ r[k] = s[k]
  BY <1>1, <1>2 DEF Vid
<1>4. Vid(r) = Vid(s)
  BY <1>1, <1>2 DEF Vid
<1>5. Num(r) = Num(s)
  BY ONLY <1>3, <1>4 DEF Num
<1> QED  BY <1>0, <1>3, <1>4, <1>5

LEMMA VidOfJoined ==
  ASSUME NEW S, NEW s \in Seq(S), NEW t \in Seq(S)
  PROVE  /\ \A k \in Vid(s) : k \in Vid(s \o t) /\ k \in 1 .. Len(s) /\ (s \o t)[k] = s[k]
         /\ \A k \in Vid(t) : Len(s) + k \in Vid(s \o t) /\ k \in 1 .. Len(t) /\ (s \o t)[Len(s) + k] = t[k]
         /\ \A k \in Vid(s \o t) : k \in Vid(s) \/ \E j \in Vid(t) : k = Len(s) + j
<1>0. PICK r : r = s \o t
  OBVIOUS
<1>1. /\ r \in Seq(S) /\ Len(r) = Len(s) + Len(t)
      /\ \A k \in 1 .. Len(s) : r[k] = s[k]
      /\ \A k \in 1 .. Len(t) : r[Len(s) + k] = t[k]
  BY <1>0, Behind
<1>2. /\ Len(s) \in Nat /\ DOMAIN s = 1 .. Len(s) /\ Len(t) \in Nat /\ DOMAIN t = 1 .. Len(t)
      /\ DOMAIN r = 1 .. Len(s) + Len(t)
  BY <1>1
<1>3. \A k \in Vid(s) : k \in Vid(r) /\ k \in 1 .. Len(s) /\ r[k] = s[k]
  BY <1>1, <1>2 DEF Vid
<1>4. \A k \in Vid(t) : Len(s) + k \in Vid(r) /\ k \in 1 .. Len(t) /\ r[Len(s) + k] = t[k]
  BY <1>1, <1>2 DEF Vid
<1>5. \A k \in Vid(r) : k \in Vid(s) \/ \E j \in Vid(t) : k = Len(s) + j
  <2> SUFFICES ASSUME NEW k \in Vid(r), ~(k <= Len(s)) PROVE \E j \in Vid(t) : k = Len(s) + j
    BY <1>1, <1>2 DEF Vid
  <2>1. k - Len(s) \in 1 .. Len(t) /\ k = Len(s) + (k - Len(s))
    BY <1>2 DEF Vid
  <2>2. k - Len(s) \in Vid(t)
    BY <1>1, <1>2, <2>1 DEF Vid
  <2> QED  BY <2>1, <2>2
<1> QED  BY <1>0, <1>3, <1>4, <1>5

LEMMA NumOfJoined ==
  ASSUME NEW S, NEW s \in Seq(S), NEW t \in Seq(S)
  PROVE  Num(s \o t) = Num(s) \cup Num(t)
<1>0. PICK r : r = s \o t
  OBVIOUS
<1>1. /\ \A k \in Vid(s) : k \in Vid(r) /\ r[k] = s[k]
      /\ \A k \in Vid(t) : Len(s) + k \in Vid(r) /\ r[Len(s) + k] = t[k]
      /\ \A k \in Vid(r) : k \in Vid(s) \/ \E j \in Vid(t) : k = Len(s) + j
  BY <1>0, VidOfJoined
<1>2. ASSUME NEW n \in Num(r) PROVE n \in Num(s) \cup Num(t)
  <2>1. PICK k \in Vid(r) : n = r[k].n
    BY DEF Num
  <2>2. CASE k \in Vid(s)
    BY <1>1, <2>1, <2>2 DEF Num
  <2>3. CASE \E j \in Vid(t) : k = Len(s) + j
    <3>1. PICK j \in Vid(t) : k = Len(s) + j
      BY <2>3
    <3> QED  BY <1>1, <2>1, <3>1 DEF Num
  <2> QED  BY <1>1, <2>2, <2>3
<1>3. ASSUME NEW n \in Num(s) PROVE n \in Num(r)
  BY <1>1 DEF Num
<1>4. ASSUME NEW n \in Num(t) PROVE n \in Num(r)
  <2>1. PICK k \in Vid(t) : n = t[k].n
    BY DEF Num
  <2>2. PICK j \in Vid(r) : j = Len(s) + k /\ r[j] = t[k]
    BY <1>1
  <2> QED  BY <2>1, <2>2 DEF Num
<1> QED  BY <1>0, <1>2, <1>3, <1>4

LEMMA NumIsSome ==
  ASSUME NEW s, NEW m \in Num(s)
  PROVE  \E k \in Vid(s) : m = s[k].n
BY DEF Num

LEMMA FitsNumbers ==
  ASSUME NEW s, NEW e, Fits(s, e)
  PROVE  Num(s) \subseteq DOMAIN e
BY DEF Num, Fits

LEMMA FitsLonger ==
  ASSUME NEW s, NEW e, NEW g, Fits(s, e), \A m \in DOMAIN e : m \in DOMAIN g /\ g[m] = e[m]
  PROVE  Fits(s, g)
BY DEF Fits

LEMMA FitsMore ==
  ASSUME NEW S, NEW s \in Seq(S), NEW x \in S, x.type = "video",
         NEW e, Fits(s, e), x.n \in DOMAIN e, e[x.n] = [pts |-> x.pts, data |-> x.data],
         \A m \in Num(s) : m < x.n
  PROVE  Fits(Append(s, x), e)
<1>0. PICK r : r = Append(s, x)
  OBVIOUS
<1>1. /\ Vid(r) = Vid(s) \cup {Len(s) + 1} /\ r[Len(s) + 1] = x
      /\ \A k \in Vid(s) : k \in 1 .. Len(s) /\ r[k] = s[k]
  BY <1>0, OneVideoMore
<1>2. \A k \in Vid(r) : r[k].n \in DOMAIN e /\ e[r[k].n] = [pts |-> r[k].pts, data |-> r[k].data]
  BY <1>1 DEF Fits
<1>3. ASSUME NEW j \in Vid(r), NEW k \in Vid(r), j < k PROVE r[j].n < r[k].n
  <2>1. Len(s) \in Nat
    OBVIOUS
  <2>2. j \in Vid(s) /\ r[j] = s[j]
    BY <1>1, <1>3, <2>1
  <2>3. CASE k \in Vid(s)
    BY <1>1, <1>3, <2>2, <2>3 DEF Fits
  <2>4. CASE k = Len(s) + 1
    BY <1>1, <2>2, <2>4 DEF Num
  <2> QED  BY <1>1, <2>3, <2>4
<1> QED  BY <1>0, <1>2, <1>3 DEF Fits

LEMMA FitsNoMore ==
  ASSUME NEW S, NEW s \in Seq(S), NEW x \in S, x.type # "video",
         NEW e, Fits(s, e)
  PROVE  Fits(Append(s, x), e)
<1>0. PICK r : r = Append(s, x)
  OBVIOUS
<1>1. Vid(r) = Vid(s) /\ \A k \in Vid(s) : r[k] = s[k]
  BY <1>0, NoVideoMore
<1> QED  BY <1>0, <1>1 DEF Fits

LEMMA FitsJoined ==
  ASSUME NEW S, NEW s \in Seq(S), NEW t \in Seq(S),
         NEW e, Fits(s, e), Fits(t, e), \A m \in Num(s), n \in Num(t) : m < n
  PROVE  Fits(s \o t, e)
<1>0. PICK r : r = s \o t
  OBVIOUS
<1>1. /\ \A k \in Vid(s) : k \in Vid(r) /\ k \in 1 .. Len(s) /\ r[k] = s[k]
      /\ \A k \in Vid(t) : Len(s) + k \in Vid(r) /\ k \in 1 .. Len(t) /\ r[Len(s) + k] = t[k]
      /\ \A k \in Vid(r) : k \in Vid(s) \/ \E j \in Vid(t) : k = Len(s) + j
  BY <1>0, VidOfJoined
<1>2. Len(s) \in Nat /\ Len(t) \in Nat
  OBVIOUS
<1>3. ASSUME NEW k \in Vid(r)
      PROVE  r[k].n \in DOMAIN e /\ e[r[k].n] = [pts |-> r[k].pts, data |-> r[k].data]
  <2>1. CASE k \in Vid(s)
    BY <1>1, <2>1 DEF Fits
  <2>2. CASE \E j \in Vid(t) : k = Len(s) + j
    <3>1. PICK j \in Vid(t) : k = Len(s) + j
      BY <2>2
    <3>2. r[k] = t[j]
      BY <1>1, <3>1
    <3> QED  BY <3>2 DEF Fits
  <2> QED  BY <1>1, <2>1, <2>2
<1>4. ASSUME NEW j \in Vid(r), NEW k \in Vid(r), j < k PROVE r[j].n < r[k].n
  <2>1. CASE j \in Vid(s) /\ k \in Vid(s)
    BY <1>1, <1>4, <2>1 DEF Fits
  <2>2. CASE j \in Vid(s) /\ \E l \in Vid(t) : k = Len(s) + l
    <3>1. PICK l \in Vid(t) : k = Len(s) + l
      BY <2>2
    <3>2. r[k] = t[l] /\ r[j] = s[j]
      BY <1>1, <2>2, <3>1
    <3> QED  BY <2>2, <3>2 DEF Num
  <2>3. CASE (\E l \in Vid(t) : j = Len(s) + l) /\ k \in Vid(s)
    <3>1. PICK l \in Vid(t) : j = Len(s) + l
      BY <2>3
    <3>2. l \in 1 .. Len(t) /\ k \in 1 .. Len(s)
      BY <1>1, <2>3
    <3> QED  BY <1>2, <1>4, <3>1, <3>2
  <2>4. CASE (\E l \in Vid(t) : j = Len(s) + l) /\ (\E l \in Vid(t) : k = Len(s) + l)
    <3>1. PICK l \in Vid(t) : j = Len(s) + l
      BY <2>4
    <3>2. PICK h \in Vid(t) : k = Len(s) + h
      BY <2>4
    <3>3. r[j] = t[l] /\ r[k] = t[h] /\ l \in 1 .. Len(t) /\ h \in 1 .. Len(t)
      BY <1>1, <3>1, <3>2
    <3>4. l < h
      BY <1>2, <1>4, <3>1, <3>2, <3>3
    <3> QED  BY <3>3, <3>4 DEF Fits
  <2> QED  BY <1>1, <2>1, <2>2, <2>3, <2>4
<1> QED  BY <1>0, <1>3, <1>4 DEF Fits

LEMMA FitsFirst ==
  ASSUME NEW S, NEW s \in Seq(S), s # << >>, NEW p, p = Head(s),
         NEW e, Fits(s, e)
  PROVE  /\ Fits(Tail(s), e)
         /\ p.type # "video" => Num(s) = Num(Tail(s))
         /\ p.type = "video" =>
              /\ Num(s) = Num(Tail(s)) \cup {p.n} /\ \A n \in Num(Tail(s)) : p.n < n
              /\ p.n \in DOMAIN e /\ e[p.n] = [pts |-> p.pts, data |-> p.data]
<1>0. PICK r : r = Tail(s)
  OBVIOUS
<1>1. /\ p = s[1] /\ r \in Seq(S) /\ Len(r) = Len(s) - 1
      /\ \A k \in 1 .. Len(s) - 1 : r[k] = s[k + 1]
  BY <1>0, WithoutFirst
<1>2. Len(s) \in Nat /\ DOMAIN s = 1 .. Len(s) /\ DOMAIN r = 1 .. Len(s) - 1 /\ Len(s) > 0
  BY <1>1
<1>3. \A k \in Vid(r) : k \in Nat /\ k > 0 /\ k + 1 \in Vid(s) /\ r[k] = s[k + 1]
  BY <1>1, <1>2 DEF Vid
<1>4. \A k \in Vid(s) : k = 1 \/ \E j \in Vid(r) : k = j + 1
  <2> SUFFICES ASSUME NEW k \in Vid(s), k # 1 PROVE \E j \in Vid(r) : k = j + 1
    OBVIOUS
  <2>1. k - 1 \in 1 .. Len(s) - 1 /\ k = (k - 1) + 1 /\ s[k].type = "video"
    BY <1>2 DEF Vid
  <2>2. r[k - 1] = s[k]
    BY <1>1, <2>1
  <2>3. k - 1 \in Vid(r)
    BY <1>2, <2>1, <2>2 DEF Vid
  <2> QED  BY <2>1, <2>3
<1>5. \A k \in Vid(r) : r[k].n \in DOMAIN e /\ e[r[k].n] = [pts |-> r[k].pts, data |-> r[k].data]
  BY <1>3 DEF Fits
<1>6. ASSUME NEW j \in Vid(r), NEW k \in Vid(r), j < k PROVE r[j].n < r[k].n
  <2>1. j + 1 < k + 1
    BY <1>3, <1>6
  <2> QED  BY <1>3, <2>1 DEF Fits
<1>7. ASSUME NEW n \in Num(r) PROVE n \in Num(s)
  <2>1. PICK k \in Vid(r) : n = r[k].n
    BY DEF Num
  <2>2. k + 1 \in Vid(s) /\ r[k] = s[k + 1]
    BY <1>3
  <2> QED  BY <2>1, <2>2 DEF Num
<1>8. ASSUME p.type # "video" PROVE Num(s) = Num(r)
  <2>1. 1 \notin Vid(s)
    BY <1>1, <1>8 DEF Vid
  <2>2. ASSUME NEW n \in Num(s) PROVE n \in Num(r)
    <3>1. PICK k \in Vid(s) : n = s[k].n
      BY DEF Num
    <3>2. PICK j \in Vid(r) : k = j + 1
      BY <1>4, <2>1
    <3> QED  BY <1>3, <3>1, <3>2 DEF Num
  <2> QED  BY <1>7, <2>2
<1>9. ASSUME p.type = "video"
      PROVE  /\ Num(s) = Num(r) \cup {p.n} /\ \A n \in Num(r) : p.n < n
             /\ p.n \in DOMAIN e /\ e[p.n] = [pts |-> p.pts, data |-> p.data]
  <2>1. 1 \in Vid(s)
    BY <1>1, <1>2, <1>9 DEF Vid
  <2>2. p.n \in Num(s)
    BY <1>1, <2>1 DEF Num
  <2>3. ASSUME NEW n \in Num(s), n # p.n PROVE n \in Num(r)
    <3>1. PICK k \in Vid(s) : n = s[k].n
      BY DEF Num
    <3>2. PICK j \in Vid(r) : k = j + 1
      BY <1>1, <1>4, <2>3, <3>1
    <3> QED  BY <1>3, <3>1, <3>2 DEF Num
  <2>4. ASSUME NEW n \in Num(r) PROVE p.n < n
    <3>1. PICK k \in Vid(r) : n = r[k].n
      BY DEF Num
    <3>2. k \in Nat /\ k > 0 /\ k + 1 \in Vid(s) /\ r[k] = s[k + 1]
      BY <1>3
    <3>3. 1 < k + 1
      BY <3>2
    <3>4. n = s[k + 1].n
      BY <3>1, <3>2
    <3> QED  BY <1>1, <2>1, <3>2, <3>3, <3>4 DEF Fits
  <2>5. p.n \in DOMAIN e /\ e[p.n] = [pts |-> p.pts, data |-> p.data]
    BY <1>1, <2>1 DEF Fits
  <2> QED  BY <1>7, <2>2, <2>3, <2>4, <2>5
<1> QED  BY <1>0, <1>5, <1>6, <1>8, <1>9 DEF Fits

-----------------------------------------------------------------------------
(* UnitsInv of some values, and what keeps it.                             *)
UnitsOf(se, da, lo, ou, em, fo) ==
  /\ Fits(se, em) /\ Fits(da, em) /\ Fits(lo, em) /\ Fits(ou, em)
  /\ \A m \in Num(se), n \in Num(da) : m < n
  /\ \A m \in (Num(se) \cup Num(da)) \cup Num(lo), n \in Num(ou) : m < n
  /\ ((Num(se) \cup Num(da)) \cup Num(lo)) \cup Num(ou) = 1 .. fo

LEMMA UnitsLonger ==
  ASSUME NEW se, NEW da, NEW lo, NEW ou, NEW em, NEW fo, UnitsOf(se, da, lo, ou, em, fo),
         NEW e, \A m \in DOMAIN em : m \in DOMAIN e /\ e[m] = em[m]
  PROVE  UnitsOf(se, da, lo, ou, e, fo)
<1>1. Fits(se, e) /\ Fits(da, e) /\ Fits(lo, e) /\ Fits(ou, e)
  BY FitsLonger DEF UnitsOf
<1> QED  BY <1>1 DEF UnitsOf

LEMMA UnitsMade ==
  ASSUME NEW S, NEW se, NEW da, NEW lo, NEW ou \in Seq(S), NEW em, NEW fo \in Nat,
         UnitsOf(se, da, lo, ou, em, fo), NEW x \in S, x.type = "video", x.n = fo + 1,
         x.n \in DOMAIN em, em[x.n] = [pts |-> x.pts, data |-> x.data]
  PROVE  UnitsOf(se, da, lo, Append(ou, x), em, fo + 1) /\ Num(Append(ou, x)) = Num(ou) \cup {fo + 1}
<1>1. Num(Append(ou, x)) = Num(ou) \cup {fo + 1}
  BY OneVideoMore
<1>2. \A m \in ((Num(se) \cup Num(da)) \cup Num(lo)) \cup Num(ou) : m < fo + 1
  <2>1. \A m \in 1 .. fo : m < fo + 1
    OBVIOUS
  <2> QED  BY <2>1 DEF UnitsOf
<1>3. Fits(Append(ou, x), em)
  <2>1. \A m \in Num(ou) : m < x.n
    BY <1>2
  <2> QED  BY <2>1, FitsMore DEF UnitsOf
<1>4. 1 .. fo + 1 = (1 .. fo) \cup {fo + 1}
  OBVIOUS
<1>5. PICK o : o = Append(ou, x)
  OBVIOUS
<1>6. \A m \in (Num(se) \cup Num(da)) \cup Num(lo), n \in Num(o) : m < n
  BY <1>1, <1>2, <1>5 DEF UnitsOf
<1>7. ((Num(se) \cup Num(da)) \cup Num(lo)) \cup Num(o) = 1 .. fo + 1
  BY <1>1, <1>4, <1>5 DEF UnitsOf
<1>8. UnitsOf(se, da, lo, o, em, fo + 1)
  BY <1>3, <1>5, <1>6, <1>7 DEF UnitsOf
<1> QED  BY <1>1, <1>5, <1>8

LEMMA UnitsQueued ==
  ASSUME NEW se, NEW da, NEW lo, NEW ou, NEW em, NEW fo, UnitsOf(se, da, lo, ou, em, fo),
         NEW d, NEW o, Num(d) = Num(da) \cup Num(ou), Fits(d, em), Num(o) = {}, Fits(o, em)
  PROVE  UnitsOf(se, d, lo, o, em, fo)
BY DEF UnitsOf

LEMMA UnitsLost ==
  ASSUME NEW se, NEW da, NEW lo, NEW ou, NEW em, NEW fo, UnitsOf(se, da, lo, ou, em, fo),
         NEW l, NEW o, Num(l) = Num(lo) \cup Num(ou), Fits(l, em), Num(o) = {}, Fits(o, em)
  PROVE  UnitsOf(se, da, l, o, em, fo)
BY DEF UnitsOf

(* One audio packet more, in a list of both kinds.                         *)
LEMMA AudioIsNoUnit ==
  ASSUME NEW S, NEW s \in Seq(S), NEW x \in S, x.type = "audio", NEW e, Fits(s, e)
  PROVE  Num(s \o <<x>>) = Num(s) /\ Fits(s \o <<x>>, e)
<1>1. <<x>> \in Seq(S) /\ Len(<<x>>) = 1 /\ <<x>>[1] = x
  OBVIOUS
<1>2. PICK t : t = <<x>>
  OBVIOUS
<1>3. t \in Seq(S) /\ Vid(t) = {}
  <2>1. DOMAIN t = 1 .. 1
    BY <1>1, <1>2
  <2>2. \A k \in DOMAIN t : t[k].type # "video"
    BY <1>1, <1>2, <2>1
  <2> QED  BY <1>1, <1>2, <2>2 DEF Vid
<1>4. Num(t) = {} /\ Fits(t, e)
  BY <1>3 DEF Num, Fits
<1>5. Num(s \o t) = Num(s)
  <2>1. Num(s \o t) = Num(s) \cup Num(t)
    BY <1>3, NumOfJoined
  <2> QED  BY <1>4, <2>1
<1>6. Fits(s \o t, e)
  BY <1>3, <1>4, FitsJoined
<1> QED  BY <1>2, <1>5, <1>6

LEMMA UnitsSame ==
  ASSUME NEW se, NEW da, NEW lo, NEW ou, NEW em, NEW fo, UnitsOf(se, da, lo, ou, em, fo),
         NEW s, NEW d, NEW l, Num(s) = Num(se), Fits(s, em), Num(d) = Num(da), Fits(d, em),
         Num(l) = Num(lo), Fits(l, em)
  PROVE  UnitsOf(s, d, l, ou, em, fo)
BY DEF UnitsOf

LEMMA UnitsSent ==
  ASSUME NEW se, NEW da, NEW lo, NEW ou, NEW em, NEW fo, UnitsOf(se, da, lo, ou, em, fo),
         NEW s, NEW d, NEW x, Num(s) = Num(se) \cup {x}, Fits(s, em),
         Num(da) = Num(d) \cup {x}, Fits(d, em), \A n \in Num(d) : x < n
  PROVE  UnitsOf(s, d, lo, ou, em, fo)
<1>1. \A m \in Num(s), n \in Num(d) : m < n
  BY DEF UnitsOf
<1>2. Num(s) \cup Num(d) = Num(se) \cup Num(da)
  OBVIOUS
<1> QED  BY <1>1, <1>2 DEF UnitsOf

-----------------------------------------------------------------------------
(* PtsInv of some values: the frames inside, and the units outside.        *)
PtsInside(fr, vp, em) ==
  /\ \A k \in DOMAIN fr :
       /\ fr[k].pts < vp
       /\ \A j \in 1 .. (k - 1) : fr[j].pts < fr[k].pts
       /\ \A m \in DOMAIN em : em[m].pts < fr[k].pts
  /\ \A m \in DOMAIN em : em[m].pts < vp

PtsOutside(em, kept, gone, out, at, pts) ==
  /\ \A m \in kept \cup gone, n \in out : em[m].pts < em[n].pts
  /\ at = "parse" => \A m \in kept \cup gone : em[m].pts < pts
  /\ \A m \in gone, n \in kept : em[m].pts # em[n].pts

LEMMA PtsAreNat ==
  /\ \A fr \in Seq([pts : Nat, unit : Encoder!AccessUnits]) : \A k \in DOMAIN fr : fr[k].pts \in Nat
  /\ \A em \in Seq([pts : Nat, data : Seq(Octets)]) : \A k \in DOMAIN em : em[k].pts \in Nat
<1>1. ASSUME NEW U, NEW s \in Seq([pts : Nat, unit : U]), NEW k \in DOMAIN s PROVE s[k].pts \in Nat
  <2>1. s[k] \in [pts : Nat, unit : U]
    <3>1. PICK T : T = [pts : Nat, unit : U]
      OBVIOUS
    <3>2. s \in Seq(T) /\ k \in 1 .. Len(s)
      BY <3>1
    <3> QED  BY <3>1, <3>2, Places
  <2> QED  BY <2>1
<1>2. ASSUME NEW U, NEW s \in Seq([pts : Nat, data : U]), NEW k \in DOMAIN s PROVE s[k].pts \in Nat
  <2>1. s[k] \in [pts : Nat, data : U]
    <3>1. PICK T : T = [pts : Nat, data : U]
      OBVIOUS
    <3>2. s \in Seq(T) /\ k \in 1 .. Len(s)
      BY <3>1
    <3> QED  BY <3>1, <3>2, Places
  <2> QED  BY <2>1
<1> QED  BY <1>1, <1>2

LEMMA PtsLater ==
  ASSUME NEW fr \in Seq([pts : Nat, unit : Encoder!AccessUnits]), NEW vp \in Nat,
         NEW em \in Seq([pts : Nat, data : Seq(Octets)]), PtsInside(fr, vp, em)
  PROVE  PtsInside(fr, vp + 1, em)
<1>1. \A k \in DOMAIN fr : fr[k].pts \in Nat
  BY PtsAreNat
<1>2. \A m \in DOMAIN em : em[m].pts \in Nat
  BY PtsAreNat
<1>3. \A n \in Nat : n < vp => n < vp + 1
  OBVIOUS
<1> QED  BY <1>1, <1>2, <1>3 DEF PtsInside

LEMMA PtsFrame ==
  ASSUME NEW fr \in Seq([pts : Nat, unit : Encoder!AccessUnits]), NEW vp \in Nat,
         NEW em \in Seq([pts : Nat, data : Seq(Octets)]), PtsInside(fr, vp, em),
         NEW f \in [pts : Nat, unit : Encoder!AccessUnits], f.pts = vp
  PROVE  PtsInside(Append(fr, f), vp + 1, em)
<1>1. PICK g : g = Append(fr, f)
  OBVIOUS
<1>2. /\ g \in Seq([pts : Nat, unit : Encoder!AccessUnits]) /\ Len(g) = Len(fr) + 1
      /\ g[Len(fr) + 1] = f
      /\ \A k \in 1 .. Len(fr) : g[k] = fr[k]
  BY <1>1, WithOneMore
<1>3. /\ Len(fr) \in Nat /\ DOMAIN fr = 1 .. Len(fr) /\ DOMAIN g = 1 .. Len(fr) + 1
  BY <1>2
<1>4. PtsInside(fr, vp + 1, em)
  BY PtsLater
<1>5. ASSUME NEW k \in DOMAIN g
      PROVE  /\ g[k].pts < vp + 1
             /\ \A j \in 1 .. (k - 1) : g[j].pts < g[k].pts
             /\ \A m \in DOMAIN em : em[m].pts < g[k].pts
  <2>1. CASE k \in DOMAIN fr
    <3>1. g[k] = fr[k] /\ \A j \in 1 .. (k - 1) : g[j] = fr[j]
      BY <1>2, <1>3, <2>1
    <3> QED  BY <1>4, <2>1, <3>1 DEF PtsInside
  <2>2. CASE k = Len(fr) + 1
    <3>1. g[k].pts = vp /\ vp < vp + 1
      BY <1>2, <2>2
    <3>2. \A j \in 1 .. (k - 1) : g[j].pts < vp
      BY <1>2, <1>3, <2>2 DEF PtsInside
    <3> QED  BY <3>1, <3>2 DEF PtsInside
  <2> QED  BY <1>3, <2>1, <2>2
<1> QED  BY <1>1, <1>4, <1>5 DEF PtsInside

(* The first frame has become units.                                       *)
LEMMA PtsTaken ==
  ASSUME NEW fr \in Seq([pts : Nat, unit : Encoder!AccessUnits]), fr # << >>, NEW vp,
         NEW em, PtsInside(fr, vp, em),
         NEW e, \A m \in DOMAIN e : (m \in DOMAIN em /\ e[m] = em[m]) \/ e[m].pts = fr[1].pts
  PROVE  PtsInside(Tail(fr), vp, e)
<1>1. PICK g : g = Tail(fr)
  OBVIOUS
<1>2. /\ g \in Seq([pts : Nat, unit : Encoder!AccessUnits]) /\ Len(g) = Len(fr) - 1
      /\ 1 \in 1 .. Len(fr) /\ \A k \in 1 .. Len(fr) - 1 : g[k] = fr[k + 1]
  BY <1>1, WithoutFirst
<1>3. /\ Len(fr) \in Nat /\ DOMAIN fr = 1 .. Len(fr) /\ DOMAIN g = 1 .. Len(fr) - 1
  BY <1>2
<1>4. \A k \in DOMAIN g : k \in Nat /\ k > 0 /\ k + 1 \in DOMAIN fr /\ g[k] = fr[k + 1]
  BY <1>2, <1>3, SMTT(40)
<1>5. ASSUME NEW k \in DOMAIN g, NEW j \in 1 .. (k - 1) PROVE g[j].pts < g[k].pts
  <2>1. j \in DOMAIN g /\ j + 1 \in 1 .. (k + 1) - 1
    BY <1>3, SMTT(40)
  <2> QED  BY <1>4, <2>1 DEF PtsInside
<1>6. ASSUME NEW k \in DOMAIN g, NEW m \in DOMAIN e PROVE e[m].pts < g[k].pts
  <2>1. 1 \in 1 .. (k + 1) - 1
    BY <1>4
  <2>2. fr[1].pts < fr[k + 1].pts
    BY <1>4, <2>1 DEF PtsInside
  <2> QED  BY <1>4, <2>2 DEF PtsInside
<1>7. \A k \in DOMAIN g : g[k].pts < vp
  BY <1>4 DEF PtsInside
<1>8. \A m \in DOMAIN e : e[m].pts < vp
  BY <1>2, <1>3 DEF PtsInside
<1> QED  BY <1>1, <1>5, <1>6, <1>7, <1>8 DEF PtsInside

LEMMA PtsStarted ==
  ASSUME NEW em, NEW kept, NEW gone, NEW out, NEW a, NEW p, PtsOutside(em, kept, gone, out, a, p),
         kept \subseteq DOMAIN em, gone \subseteq DOMAIN em, out \subseteq DOMAIN em,
         NEW e, \A m \in DOMAIN em : e[m] = em[m], NEW pts, \A m \in DOMAIN em : em[m].pts < pts
  PROVE  PtsOutside(e, kept, gone, out, "parse", pts)
BY DEF PtsOutside

LEMMA PtsMade ==
  ASSUME NEW em, NEW kept, NEW gone, NEW out, NEW pts,
         PtsOutside(em, kept, gone, out, "parse", pts), NEW f, em[f].pts = pts
  PROVE  /\ PtsOutside(em, kept, gone, out \cup {f}, "parse", pts)
         /\ \A a, p : a # "parse" => PtsOutside(em, kept, gone, out \cup {f}, a, p)
BY DEF PtsOutside

LEMMA PtsQueued ==
  ASSUME NEW em, NEW kept, NEW gone, NEW out, NEW a, NEW p, PtsOutside(em, kept, gone, out, a, p),
         \A m \in kept \cup gone \cup out : em[m].pts \in Nat, NEW q
  PROVE  /\ PtsOutside(em, kept \cup out, gone, {}, "idle", q)
         /\ PtsOutside(em, kept, gone \cup out, {}, "idle", q)
<1>1. \A m \in Nat, n \in Nat : m < n => m # n
  OBVIOUS
<1>2. \A m \in gone, n \in out : em[m].pts # em[n].pts
  BY <1>1 DEF PtsOutside
<1>3. \A m \in out, n \in kept : em[m].pts # em[n].pts
  BY <1>1 DEF PtsOutside
<1>4. PtsOutside(em, kept \cup out, gone, {}, "idle", q)
  BY <1>2 DEF PtsOutside
<1>5. PtsOutside(em, kept, gone \cup out, {}, "idle", q)
  BY <1>3 DEF PtsOutside
<1> QED  BY <1>4, <1>5

-----------------------------------------------------------------------------
(* The audio packets of a sequence, and when they were captured.           *)
Aud(s) == {k \in DOMAIN s : s[k].type = "audio"}
Apt(s) == {s[k].pts : k \in Aud(s)}
Rising(s) == \A j, k \in Aud(s) : j < k => s[j].pts < s[k].pts

LEMMA AudOfJoined ==
  ASSUME NEW S, NEW s \in Seq(S), NEW t \in Seq(S)
  PROVE  /\ \A k \in Aud(s) : k \in Aud(s \o t) /\ k \in 1 .. Len(s) /\ (s \o t)[k] = s[k]
         /\ \A k \in Aud(t) : Len(s) + k \in Aud(s \o t) /\ k \in 1 .. Len(t) /\ (s \o t)[Len(s) + k] = t[k]
         /\ \A k \in Aud(s \o t) : k \in Aud(s) \/ \E j \in Aud(t) : k = Len(s) + j
<1>0. PICK r : r = s \o t
  OBVIOUS
<1>1. /\ r \in Seq(S) /\ Len(r) = Len(s) + Len(t)
      /\ \A k \in 1 .. Len(s) : r[k] = s[k]
      /\ \A k \in 1 .. Len(t) : r[Len(s) + k] = t[k]
  BY <1>0, Behind
<1>2. /\ Len(s) \in Nat /\ DOMAIN s = 1 .. Len(s) /\ Len(t) \in Nat /\ DOMAIN t = 1 .. Len(t)
      /\ DOMAIN r = 1 .. Len(s) + Len(t)
  BY <1>1
<1>3. \A k \in Aud(s) : k \in Aud(r) /\ k \in 1 .. Len(s) /\ r[k] = s[k]
  BY <1>1, <1>2 DEF Aud
<1>4. \A k \in Aud(t) : Len(s) + k \in Aud(r) /\ k \in 1 .. Len(t) /\ r[Len(s) + k] = t[k]
  BY <1>1, <1>2 DEF Aud
<1>5. \A k \in Aud(r) : k \in Aud(s) \/ \E j \in Aud(t) : k = Len(s) + j
  <2> SUFFICES ASSUME NEW k \in Aud(r), ~(k <= Len(s)) PROVE \E j \in Aud(t) : k = Len(s) + j
    BY <1>1, <1>2 DEF Aud
  <2>1. k - Len(s) \in 1 .. Len(t) /\ k = Len(s) + (k - Len(s))
    BY <1>2 DEF Aud
  <2>2. k - Len(s) \in Aud(t)
    BY <1>1, <1>2, <2>1 DEF Aud
  <2> QED  BY <2>1, <2>2
<1> QED  BY <1>0, <1>3, <1>4, <1>5

LEMMA AptOfJoined ==
  ASSUME NEW S, NEW s \in Seq(S), NEW t \in Seq(S)
  PROVE  Apt(s \o t) = Apt(s) \cup Apt(t)
<1>0. PICK r : r = s \o t
  OBVIOUS
<1>1. /\ \A k \in Aud(s) : k \in Aud(r) /\ r[k] = s[k]
      /\ \A k \in Aud(t) : Len(s) + k \in Aud(r) /\ r[Len(s) + k] = t[k]
      /\ \A k \in Aud(r) : k \in Aud(s) \/ \E j \in Aud(t) : k = Len(s) + j
  BY <1>0, AudOfJoined
<1>2. ASSUME NEW n \in Apt(r) PROVE n \in Apt(s) \cup Apt(t)
  <2>1. PICK k \in Aud(r) : n = r[k].pts
    BY DEF Apt
  <2>2. CASE k \in Aud(s)
    BY <1>1, <2>1, <2>2 DEF Apt
  <2>3. CASE \E j \in Aud(t) : k = Len(s) + j
    <3>1. PICK j \in Aud(t) : k = Len(s) + j
      BY <2>3
    <3> QED  BY <1>1, <2>1, <3>1 DEF Apt
  <2> QED  BY <1>1, <2>2, <2>3
<1>3. ASSUME NEW n \in Apt(s) PROVE n \in Apt(r)
  BY <1>1 DEF Apt
<1>4. ASSUME NEW n \in Apt(t) PROVE n \in Apt(r)
  <2>1. PICK k \in Aud(t) : n = t[k].pts
    BY DEF Apt
  <2>2. PICK j \in Aud(r) : j = Len(s) + k /\ r[j] = t[k]
    BY <1>1
  <2> QED  BY <2>1, <2>2 DEF Apt
<1> QED  BY <1>0, <1>2, <1>3, <1>4

LEMMA RisingJoined ==
  ASSUME NEW S, NEW s \in Seq(S), NEW t \in Seq(S),
         Rising(s), Rising(t), \A m \in Apt(s), n \in Apt(t) : m < n
  PROVE  Rising(s \o t)
<1>0. PICK r : r = s \o t
  OBVIOUS
<1>1. /\ \A k \in Aud(s) : k \in Aud(r) /\ k \in 1 .. Len(s) /\ r[k] = s[k]
      /\ \A k \in Aud(t) : Len(s) + k \in Aud(r) /\ k \in 1 .. Len(t) /\ r[Len(s) + k] = t[k]
      /\ \A k \in Aud(r) : k \in Aud(s) \/ \E j \in Aud(t) : k = Len(s) + j
  BY <1>0, AudOfJoined
<1>2. Len(s) \in Nat /\ Len(t) \in Nat
  OBVIOUS
<1>4. ASSUME NEW j \in Aud(r), NEW k \in Aud(r), j < k PROVE r[j].pts < r[k].pts
  <2>1. CASE j \in Aud(s) /\ k \in Aud(s)
    BY <1>1, <1>4, <2>1 DEF Rising
  <2>2. CASE j \in Aud(s) /\ \E l \in Aud(t) : k = Len(s) + l
    <3>1. PICK l \in Aud(t) : k = Len(s) + l
      BY <2>2
    <3>2. r[k] = t[l] /\ r[j] = s[j]
      BY <1>1, <2>2, <3>1
    <3> QED  BY <2>2, <3>2 DEF Apt
  <2>3. CASE (\E l \in Aud(t) : j = Len(s) + l) /\ k \in Aud(s)
    <3>1. PICK l \in Aud(t) : j = Len(s) + l
      BY <2>3
    <3>2. l \in 1 .. Len(t) /\ k \in 1 .. Len(s)
      BY <1>1, <2>3
    <3> QED  BY <1>2, <1>4, <3>1, <3>2
  <2>4. CASE (\E l \in Aud(t) : j = Len(s) + l) /\ (\E l \in Aud(t) : k = Len(s) + l)
    <3>1. PICK l \in Aud(t) : j = Len(s) + l
      BY <2>4
    <3>2. PICK h \in Aud(t) : k = Len(s) + h
      BY <2>4
    <3>3. r[j] = t[l] /\ r[k] = t[h] /\ l \in 1 .. Len(t) /\ h \in 1 .. Len(t)
      BY <1>1, <3>1, <3>2
    <3>4. l < h
      BY <1>2, <1>4, <3>1, <3>2, <3>3
    <3> QED  BY <3>3, <3>4 DEF Rising
  <2> QED  BY <1>1, <2>1, <2>2, <2>3, <2>4
<1> QED  BY <1>0, <1>4 DEF Rising

LEMMA RisingFirst ==
  ASSUME NEW S, NEW s \in Seq(S), s # << >>, NEW p, p = Head(s),
         Rising(s)
  PROVE  /\ Rising(Tail(s))
         /\ p.type # "audio" => Apt(s) = Apt(Tail(s))
         /\ p.type = "audio" =>
              /\ Apt(s) = Apt(Tail(s)) \cup {p.pts} /\ \A n \in Apt(Tail(s)) : p.pts < n
<1>0. PICK r : r = Tail(s)
  OBVIOUS
<1>1. /\ p = s[1] /\ r \in Seq(S) /\ Len(r) = Len(s) - 1
      /\ \A k \in 1 .. Len(s) - 1 : r[k] = s[k + 1]
  BY <1>0, WithoutFirst
<1>2. Len(s) \in Nat /\ DOMAIN s = 1 .. Len(s) /\ DOMAIN r = 1 .. Len(s) - 1 /\ Len(s) > 0
  BY <1>1
<1>3. \A k \in Aud(r) : k \in Nat /\ k > 0 /\ k + 1 \in Aud(s) /\ r[k] = s[k + 1]
  BY <1>1, <1>2 DEF Aud
<1>4. \A k \in Aud(s) : k = 1 \/ \E j \in Aud(r) : k = j + 1
  <2> SUFFICES ASSUME NEW k \in Aud(s), k # 1 PROVE \E j \in Aud(r) : k = j + 1
    OBVIOUS
  <2>1. k - 1 \in 1 .. Len(s) - 1 /\ k = (k - 1) + 1 /\ s[k].type = "audio"
    BY <1>2 DEF Aud
  <2>2. r[k - 1] = s[k]
    BY <1>1, <2>1
  <2>3. k - 1 \in Aud(r)
    BY <1>2, <2>1, <2>2 DEF Aud
  <2> QED  BY <2>1, <2>3
<1>6. ASSUME NEW j \in Aud(r), NEW k \in Aud(r), j < k PROVE r[j].pts < r[k].pts
  <2>1. j + 1 < k + 1
    BY <1>3, <1>6
  <2> QED  BY <1>3, <2>1 DEF Rising
<1>7. ASSUME NEW n \in Apt(r) PROVE n \in Apt(s)
  <2>1. PICK k \in Aud(r) : n = r[k].pts
    BY DEF Apt
  <2>2. k + 1 \in Aud(s) /\ r[k] = s[k + 1]
    BY <1>3
  <2> QED  BY <2>1, <2>2 DEF Apt
<1>8. ASSUME p.type # "audio" PROVE Apt(s) = Apt(r)
  <2>1. 1 \notin Aud(s)
    BY <1>1, <1>8 DEF Aud
  <2>2. ASSUME NEW n \in Apt(s) PROVE n \in Apt(r)
    <3>1. PICK k \in Aud(s) : n = s[k].pts
      BY DEF Apt
    <3>2. PICK j \in Aud(r) : k = j + 1
      BY <1>4, <2>1
    <3> QED  BY <1>3, <3>1, <3>2 DEF Apt
  <2> QED  BY <1>7, <2>2
<1>9. ASSUME p.type = "audio"
      PROVE  /\ Apt(s) = Apt(r) \cup {p.pts} /\ \A n \in Apt(r) : p.pts < n
  <2>1. 1 \in Aud(s)
    BY <1>1, <1>2, <1>9 DEF Aud
  <2>2. p.pts \in Apt(s)
    BY <1>1, <2>1 DEF Apt
  <2>3. ASSUME NEW n \in Apt(s), n # p.pts PROVE n \in Apt(r)
    <3>1. PICK k \in Aud(s) : n = s[k].pts
      BY DEF Apt
    <3>2. PICK j \in Aud(r) : k = j + 1
      BY <1>1, <1>4, <2>3, <3>1
    <3> QED  BY <1>3, <3>1, <3>2 DEF Apt
  <2>4. ASSUME NEW n \in Apt(r) PROVE p.pts < n
    <3>1. PICK k \in Aud(r) : n = r[k].pts
      BY DEF Apt
    <3>2. k \in Nat /\ k > 0 /\ k + 1 \in Aud(s) /\ r[k] = s[k + 1]
      BY <1>3
    <3>3. 1 < k + 1
      BY <3>2
    <3>4. n = s[k + 1].pts
      BY <3>1, <3>2
    <3> QED  BY <1>1, <2>1, <3>2, <3>3, <3>4 DEF Rising
  <2> QED  BY <1>7, <2>2, <2>3, <2>4
<1> QED  BY <1>0, <1>6, <1>8, <1>9 DEF Rising


LEMMA AudOfNone ==
  ASSUME NEW S, NEW s \in Seq(S), \A x \in S : x.type # "audio"
  PROVE  Aud(s) = {} /\ Apt(s) = {} /\ Rising(s)
<1>1. Aud(s) = {}
  BY Places DEF Aud
<1> QED  BY <1>1 DEF Apt, Rising

LEMMA AudOfOne ==
  ASSUME NEW S, NEW x \in S, x.type = "audio"
  PROVE  <<x>> \in Seq(S) /\ Apt(<<x>>) = {x.pts} /\ Rising(<<x>>)
<1>1. <<x>> \in Seq(S) /\ Len(<<x>>) = 1 /\ <<x>>[1] = x
  OBVIOUS
<1>2. PICK t : t = <<x>>
  OBVIOUS
<1>3. DOMAIN t = 1 .. 1 /\ t[1] = x
  BY <1>1, <1>2
<1>4. Aud(t) = {1}
  BY <1>3 DEF Aud
<1>5. Apt(t) = {x.pts} /\ Rising(t)
  BY <1>3, <1>4 DEF Apt, Rising
<1> QED  BY <1>1, <1>2, <1>5

(* A message more: the places of the ones before it, and its own.          *)
LEMMA AudOfMore ==
  ASSUME NEW S, NEW s \in Seq(S), NEW x \in S
  PROVE  \A k \in Aud(Append(s, x)) :
           \/ k \in Aud(s) /\ Append(s, x)[k] = s[k]
           \/ x.type = "audio" /\ Append(s, x)[k] = x
<1>1. PICK r : r = Append(s, x)
  OBVIOUS
<1>2. /\ r \in Seq(S) /\ Len(r) = Len(s) + 1 /\ r[Len(s) + 1] = x
      /\ \A k \in 1 .. Len(s) : r[k] = s[k]
  BY <1>1, WithOneMore
<1>3. Len(s) \in Nat /\ DOMAIN s = 1 .. Len(s) /\ DOMAIN r = 1 .. Len(s) + 1
  BY <1>2
<1>4. \A k \in Aud(r) : (k \in Aud(s) /\ r[k] = s[k]) \/ (x.type = "audio" /\ r[k] = x)
  BY <1>2, <1>3 DEF Aud
<1> QED  BY <1>1, <1>4

-----------------------------------------------------------------------------
(* VideoClock of some values; queued are numbers.                          *)
VideoOf(vt, fo, se, queued, lo, er) ==
  \E v \in 0 .. fo :
    /\ vt = 40 * v
    /\ \A n \in queued : v < n
    /\ er = 0 => /\ Num(se) = 1 .. v /\ lo = << >>
                 /\ \A k \in Vid(se) : se[k].timestamp = 40 * (se[k].n - 1)

LEMMA VideoMade ==
  ASSUME NEW vt, NEW fo \in Nat, NEW se, NEW queued, NEW lo, NEW er,
         VideoOf(vt, fo, se, queued, lo, er)
  PROVE  VideoOf(vt, fo + 1, se, queued \cup {fo + 1}, lo, er)
<1>1. PICK v \in 0 .. fo :
        /\ vt = 40 * v
        /\ \A n \in queued : v < n
        /\ er = 0 => /\ Num(se) = 1 .. v /\ lo = << >>
                     /\ \A k \in Vid(se) : se[k].timestamp = 40 * (se[k].n - 1)
  BY DEF VideoOf
<1>2. v \in 0 .. fo + 1 /\ v < fo + 1
  OBVIOUS
<1>3. \A n \in queued \cup {fo + 1} : v < n
  BY <1>1, <1>2
<1> QED  BY <1>1, <1>2, <1>3 DEF VideoOf

LEMMA VideoFails ==
  ASSUME NEW vt, NEW fo, NEW se, NEW queued, NEW lo, NEW er, VideoOf(vt, fo, se, queued, lo, er),
         NEW r, NEW q, q \subseteq queued, NEW l, NEW e, e # 0
  PROVE  VideoOf(vt, fo, r, q, l, e)
BY DEF VideoOf

LEMMA VideoOther ==
  ASSUME NEW vt, NEW fo, NEW se, NEW queued, NEW lo, NEW er, VideoOf(vt, fo, se, queued, lo, er),
         NEW r, Vid(r) = Vid(se), Num(r) = Num(se), \A k \in Vid(se) : r[k] = se[k]
  PROVE  VideoOf(vt, fo, r, queued, lo, er)
BY DEF VideoOf

LEMMA VideoSent ==
  ASSUME NEW vt, NEW fo \in Nat, NEW se, NEW queued, NEW lo, NEW er,
         VideoOf(vt, fo, se, queued, lo, er), (Num(se) \cup Num(lo)) \cup queued = 1 .. fo,
         NEW n, NEW q, queued = q \cup {n}, \A m \in q : n < m,
         NEW r, Num(r) = Num(se) \cup {n},
         \A k \in Vid(r) : \/ k \in Vid(se) /\ r[k] = se[k]
                           \/ r[k].n = n /\ r[k].timestamp = vt
  PROVE  VideoOf(vt + 40, fo, r, q, lo, er)
<1>1. PICK v \in 0 .. fo :
        /\ vt = 40 * v
        /\ \A m \in queued : v < m
        /\ er = 0 => /\ Num(se) = 1 .. v /\ lo = << >>
                     /\ \A k \in Vid(se) : se[k].timestamp = 40 * (se[k].n - 1)
  BY DEF VideoOf
<1>2. n \in 1 .. fo /\ v < n /\ queued \subseteq 1 .. fo /\ q \subseteq 1 .. fo
  BY <1>1
<1>3. v + 1 \in 0 .. fo /\ vt + 40 = 40 * (v + 1)
  BY <1>1, <1>2
<1>4. ASSUME NEW m \in q PROVE v + 1 < m
  <2>1. n < m /\ m \in 1 .. fo
    BY <1>2
  <2> QED  BY <1>2, <2>1
<1>5. ASSUME er = 0
      PROVE  /\ Num(r) = 1 .. v + 1 /\ lo = << >>
             /\ \A k \in Vid(r) : r[k].timestamp = 40 * (r[k].n - 1)
  <2>1. Num(se) = 1 .. v /\ lo = << >> /\ \A k \in Vid(se) : se[k].timestamp = 40 * (se[k].n - 1)
    BY <1>1, <1>5
  <2>2. Num(lo) = {}
    BY <2>1, VidOfNone
  <2>3. v + 1 \in 1 .. fo /\ v + 1 \notin 1 .. v
    BY <1>2
  <2>4. v + 1 \in queued
    BY <2>1, <2>2, <2>3
  <2>5. n = v + 1
    <3>1. CASE v + 1 \in q
      <4>1. n < v + 1
        BY <3>1
      <4> QED  BY <1>2, <4>1
    <3> QED  BY <2>4, <3>1
  <2>6. Num(r) = 1 .. v + 1
    <3>1. 1 .. v + 1 = (1 .. v) \cup {v + 1}
      OBVIOUS
    <3> QED  BY <2>1, <2>5, <3>1
  <2>7. ASSUME NEW k \in Vid(r) PROVE r[k].timestamp = 40 * (r[k].n - 1)
    <3>1. CASE k \in Vid(se) /\ r[k] = se[k]
      BY <2>1, <3>1
    <3>2. CASE r[k].n = n /\ r[k].timestamp = vt
      <4>1. n - 1 = v
        BY <2>5
      <4> QED  BY <1>1, <3>2, <4>1
    <3> QED  BY <3>1, <3>2
  <2> QED  BY <2>1, <2>6, <2>7
<1> QED  BY <1>3, <1>4, <1>5 DEF VideoOf

-----------------------------------------------------------------------------
(* AudioClock of some values.                                              *)
AudioOf(ti, ap, se, da, er, fa) ==
  \E a \in 0 .. ap :
    /\ ti = 20 * a
    /\ \A p \in Apt(da) : a <= p /\ p < ap
    /\ Rising(da)
    /\ er = 0 =>
         /\ fa = FALSE => a .. (ap - 1) \subseteq Apt(da)
         /\ \A k \in Aud(se) : se[k].timestamp = 20 * se[k].pts

(* The same packets of audio, queued or sent.                              *)
LEMMA AudioSame ==
  ASSUME NEW ti, NEW ap, NEW se, NEW da, NEW er, NEW fa, AudioOf(ti, ap, se, da, er, fa),
         NEW d, Apt(d) = Apt(da), Rising(d),
         NEW r, \A k \in Aud(r) : k \in Aud(se) /\ r[k] = se[k],
         NEW e, e = 0 => er = 0
  PROVE  AudioOf(ti, ap, r, d, e, fa)
<1>1. PICK a \in 0 .. ap :
        /\ ti = 20 * a
        /\ \A p \in Apt(da) : a <= p /\ p < ap
        /\ Rising(da)
        /\ er = 0 =>
             /\ fa = FALSE => a .. (ap - 1) \subseteq Apt(da)
             /\ \A k \in Aud(se) : se[k].timestamp = 20 * se[k].pts
  BY DEF AudioOf
<1> QED  BY <1>1 DEF AudioOf

(* A frame whose packet is not queued: none is made, or encode fails.      *)
LEMMA AudioFails ==
  ASSUME NEW ti, NEW ap \in Nat, NEW se, NEW da, NEW er, NEW fa,
         AudioOf(ti, ap, se, da, er, fa), Apt(da) \subseteq Nat,
         NEW e, NEW f, e # 0 \/ (e = er /\ f # FALSE)
  PROVE  AudioOf(ti, ap + 1, se, da, e, f)
<1>1. PICK a \in 0 .. ap :
        /\ ti = 20 * a
        /\ \A p \in Apt(da) : a <= p /\ p < ap
        /\ Rising(da)
        /\ er = 0 => \A k \in Aud(se) : se[k].timestamp = 20 * se[k].pts
  BY DEF AudioOf
<1>2. a \in 0 .. ap + 1
  OBVIOUS
<1>3. \A p \in Apt(da) : a <= p /\ p < ap + 1
  BY <1>1
<1> QED  BY <1>1, <1>2, <1>3 DEF AudioOf

LEMMA AudioQueued ==
  ASSUME NEW ti, NEW ap \in Nat, NEW se, NEW da, NEW er, NEW fa,
         AudioOf(ti, ap, se, da, er, fa), Apt(da) \subseteq Nat,
         NEW d, Apt(d) = Apt(da) \cup {ap}, Rising(d)
  PROVE  AudioOf(ti, ap + 1, se, d, er, fa)
<1>1. PICK a \in 0 .. ap :
        /\ ti = 20 * a
        /\ \A p \in Apt(da) : a <= p /\ p < ap
        /\ Rising(da)
        /\ er = 0 =>
             /\ fa = FALSE => a .. (ap - 1) \subseteq Apt(da)
             /\ \A k \in Aud(se) : se[k].timestamp = 20 * se[k].pts
  BY DEF AudioOf
<1>2. a \in 0 .. ap + 1 /\ a <= ap /\ ap < ap + 1
  OBVIOUS
<1>3. \A p \in Apt(d) : a <= p /\ p < ap + 1
  BY <1>1, <1>2
<1>4. a .. ((ap + 1) - 1) = (a .. (ap - 1)) \cup {ap}
  OBVIOUS
<1>5. er = 0 /\ fa = FALSE => a .. ((ap + 1) - 1) \subseteq Apt(d)
  BY <1>1, <1>4
<1> QED  BY <1>1, <1>2, <1>3, <1>5 DEF AudioOf

LEMMA AudioSent ==
  ASSUME NEW ti, NEW ap \in Nat, NEW se, NEW da, NEW er,
         AudioOf(ti, ap, se, da, er, FALSE), Apt(da) \subseteq Nat,
         NEW p, NEW d, Apt(da) = Apt(d) \cup {p}, \A m \in Apt(d) : p < m, Rising(d),
         NEW r, \A k \in Aud(r) : \/ k \in Aud(se) /\ r[k] = se[k]
                                  \/ r[k].pts = p /\ r[k].timestamp = ti
  PROVE  AudioOf(ti + 20, ap, r, d, er, FALSE)
<1>1. PICK a \in 0 .. ap :
        /\ ti = 20 * a
        /\ \A m \in Apt(da) : a <= m /\ m < ap
        /\ Rising(da)
        /\ er = 0 =>
             /\ a .. (ap - 1) \subseteq Apt(da)
             /\ \A k \in Aud(se) : se[k].timestamp = 20 * se[k].pts
  BY DEF AudioOf
<1>2. p \in Nat /\ a <= p /\ p < ap
  BY <1>1
<1>3. a + 1 \in 0 .. ap /\ ti + 20 = 20 * (a + 1)
  BY <1>1, <1>2
<1>4. ASSUME NEW m \in Apt(d) PROVE a + 1 <= m /\ m < ap
  <2>1. p < m /\ m \in Nat /\ m < ap
    BY <1>1
  <2> QED  BY <1>2, <2>1
<1>5. ASSUME er = 0
      PROVE  /\ (a + 1) .. (ap - 1) \subseteq Apt(d)
             /\ \A k \in Aud(r) : r[k].timestamp = 20 * r[k].pts
  <2>1. a \in a .. (ap - 1)
    BY <1>2
  <2>2. a \in Apt(da)
    BY <1>1, <1>5, <2>1
  <2>3. a = p
    <3>1. CASE a \in Apt(d)
      <4>1. p < a
        BY <3>1
      <4> QED  BY <1>2, <4>1
    <3> QED  BY <2>2, <3>1
  <2>4. ASSUME NEW m \in (a + 1) .. (ap - 1) PROVE m \in Apt(d)
    <3>1. m \in a .. (ap - 1) /\ m # a
      OBVIOUS
    <3>2. m \in Apt(da)
      BY <1>1, <1>5, <3>1
    <3> QED  BY <2>3, <3>1, <3>2
  <2>5. ASSUME NEW k \in Aud(r) PROVE r[k].timestamp = 20 * r[k].pts
    <3>1. CASE k \in Aud(se) /\ r[k] = se[k]
      BY <1>1, <1>5, <3>1
    <3>2. CASE r[k].pts = p /\ r[k].timestamp = ti
      BY <1>1, <2>3, <3>2
    <3> QED  BY <3>1, <3>2
  <2> QED  BY <2>4, <2>5
<1> QED  BY <1>1, <1>3, <1>4, <1>5 DEF AudioOf

-----------------------------------------------------------------------------
(* FrameNumbers of some values.                                            *)
SingleUnits(em) == \A j, k \in DOMAIN em : em[j].pts = em[k].pts => j = k
FramesOf(er, em, fr, vp, fa) ==
  er = 0 /\ SingleUnits(em) =>
    /\ \A n \in DOMAIN em : em[n].pts = n - 1
    /\ fa = FALSE => /\ \A k \in DOMAIN fr : fr[k].pts = Len(em) + k - 1
                     /\ vp = Len(em) + Len(fr)

LEMMA FramesFault ==
  ASSUME NEW er, NEW em, NEW fr, NEW vp, NEW fa, FramesOf(er, em, fr, vp, fa),
         NEW e, NEW g, NEW v, NEW f, e # 0 \/ (e = er /\ f # FALSE)
  PROVE  FramesOf(e, em, g, v, f)
BY DEF FramesOf

LEMMA FramesFrame ==
  ASSUME NEW er, NEW em \in Seq([pts : Nat, data : Seq(Octets)]), NEW T, NEW fr \in Seq(T), NEW vp,
         FramesOf(er, em, fr, vp, FALSE), NEW f \in T, f.pts = vp
  PROVE  FramesOf(er, em, Append(fr, f), vp + 1, FALSE)
<1>1. PICK g : g = Append(fr, f)
  OBVIOUS
<1>2. /\ g \in Seq(T) /\ Len(g) = Len(fr) + 1 /\ g[Len(fr) + 1] = f
      /\ \A k \in 1 .. Len(fr) : g[k] = fr[k]
  BY <1>1, WithOneMore
<1>3. /\ Len(fr) \in Nat /\ DOMAIN fr = 1 .. Len(fr) /\ DOMAIN g = 1 .. Len(fr) + 1
      /\ Len(em) \in Nat
  BY <1>2
<1>4. ASSUME er = 0, SingleUnits(em)
      PROVE  /\ \A n \in DOMAIN em : em[n].pts = n - 1
             /\ \A k \in DOMAIN g : g[k].pts = Len(em) + k - 1
             /\ vp + 1 = Len(em) + Len(g)
  <2>1. /\ \A n \in DOMAIN em : em[n].pts = n - 1
        /\ \A k \in DOMAIN fr : fr[k].pts = Len(em) + k - 1
        /\ vp = Len(em) + Len(fr)
    BY <1>4 DEF FramesOf
  <2>2. vp + 1 = Len(em) + Len(g)
    BY <1>2, <1>3, <2>1
  <2>3. ASSUME NEW k \in DOMAIN g PROVE g[k].pts = Len(em) + k - 1
    <3>1. CASE k \in DOMAIN fr
      BY <1>2, <1>3, <2>1, <3>1
    <3>2. CASE k = Len(fr) + 1
      BY <1>2, <1>3, <2>1, <3>2
    <3> QED  BY <1>3, <3>1, <3>2
  <2> QED  BY <2>1, <2>2, <2>3
<1> QED  BY <1>1, <1>4 DEF FramesOf

LEMMA FramesTaken ==
  ASSUME NEW er, NEW T, NEW em \in Seq(T), NEW U, NEW fr \in Seq(U), fr # << >>, NEW vp, NEW fa,
         FramesOf(er, em, fr, vp, FALSE), NEW x \in T, x.pts = fr[1].pts
  PROVE  FramesOf(er, Append(em, x), Tail(fr), vp, fa)
<1>1. PICK g, e : g = Tail(fr) /\ e = Append(em, x)
  OBVIOUS
<1>2. /\ g \in Seq(U) /\ Len(g) = Len(fr) - 1
      /\ 1 \in 1 .. Len(fr) /\ \A k \in 1 .. Len(fr) - 1 : g[k] = fr[k + 1]
  BY <1>1, WithoutFirst
<1>3. /\ e \in Seq(T) /\ Len(e) = Len(em) + 1 /\ e[Len(em) + 1] = x
      /\ \A k \in 1 .. Len(em) : e[k] = em[k]
  BY <1>1, WithOneMore
<1>4. /\ Len(fr) \in Nat /\ DOMAIN fr = 1 .. Len(fr) /\ DOMAIN g = 1 .. Len(fr) - 1
      /\ Len(em) \in Nat /\ DOMAIN em = 1 .. Len(em) /\ DOMAIN e = 1 .. Len(em) + 1
  BY <1>2, <1>3
<1>5. ASSUME er = 0, SingleUnits(e)
      PROVE  /\ \A n \in DOMAIN e : e[n].pts = n - 1
             /\ \A k \in DOMAIN g : g[k].pts = Len(e) + k - 1
             /\ vp = Len(e) + Len(g)
  <2>1. SingleUnits(em)
    BY <1>3, <1>4, <1>5 DEF SingleUnits
  <2>2. /\ \A n \in DOMAIN em : em[n].pts = n - 1
        /\ \A k \in DOMAIN fr : fr[k].pts = Len(em) + k - 1
        /\ vp = Len(em) + Len(fr)
    BY <1>5, <2>1 DEF FramesOf
  <2>3. ASSUME NEW n \in DOMAIN e PROVE e[n].pts = n - 1
    <3>1. CASE n \in DOMAIN em
      BY <1>3, <1>4, <2>2, <3>1
    <3>2. CASE n = Len(em) + 1
      <4>1. fr[1].pts = Len(em) + 1 - 1
        BY <1>2, <1>4, <2>2
      <4> QED  BY <1>3, <1>4, <3>2, <4>1
    <3> QED  BY <1>4, <3>1, <3>2
  <2>4. ASSUME NEW k \in DOMAIN g PROVE g[k].pts = Len(e) + k - 1
    <3>1. g[k] = fr[k + 1] /\ k + 1 \in DOMAIN fr
      BY <1>2, <1>4
    <3>2. fr[k + 1].pts = Len(em) + (k + 1) - 1
      BY <2>2, <3>1
    <3> QED  BY <1>3, <1>4, <3>1, <3>2
  <2>5. vp = Len(e) + Len(g)
    BY <1>2, <1>3, <1>4, <2>2
  <2> QED  BY <2>3, <2>4, <2>5
<1> QED  BY <1>1, <1>5 DEF FramesOf

LEMMA FramesDouble ==
  ASSUME NEW T, NEW em \in Seq(T), NEW x \in T, NEW y \in T, x.pts = y.pts,
         NEW er, NEW fr, NEW vp, NEW fa
  PROVE  FramesOf(er, Append(Append(em, x), y), fr, vp, fa)
<1>1. PICK d, e : d = Append(em, x) /\ e = Append(d, y)
  OBVIOUS
<1>2. /\ d \in Seq(T) /\ Len(d) = Len(em) + 1 /\ d[Len(em) + 1] = x
  BY <1>1, WithOneMore
<1>3. /\ e \in Seq(T) /\ Len(e) = Len(d) + 1 /\ e[Len(d) + 1] = y
      /\ \A k \in 1 .. Len(d) : e[k] = d[k]
  BY <1>1, <1>2, WithOneMore
<1>4. Len(em) \in Nat /\ DOMAIN e = 1 .. Len(em) + 2
  BY <1>2, <1>3
<1>5. /\ Len(em) + 1 \in DOMAIN e /\ e[Len(em) + 1] = x
      /\ Len(em) + 2 \in DOMAIN e /\ e[Len(em) + 2] = y
  BY <1>2, <1>3, <1>4
<1>6. Len(em) + 1 # Len(em) + 2
  BY <1>4
<1>7. ~ SingleUnits(e)
  BY <1>5, <1>6 DEF SingleUnits
<1> QED  BY <1>1, <1>7 DEF FramesOf

-----------------------------------------------------------------------------
(* parseH264 in a packet: where it is, and what each turn finds.           *)
AtUnitOf(k, ix, nal, pk) ==
  \/ k = 1 /\ ix = 0 /\ nal = << >>
  \/ /\ Encoder!From(pk.unit, k) <= ix
     /\ ix <= Encoder!From(pk.unit, k) + Len(pk.unit[k].nalu)
     /\ nal = SubSeq(pk.unit[k].nalu, 1, ix - Encoder!From(pk.unit, k))

RestOf(k, pk, fo, em) ==
  /\ Len(em) + k = fo + 1 + Len(pk.unit)
  /\ \A l \in k .. Len(pk.unit) :
       em[fo + 1 + l - k] = [pts |-> pk.pts, data |-> pk.unit[l].nalu]

ParseAt(ix, nal, pk, fo, em) ==
  \E k \in 1 .. Len(pk.unit) : AtUnitOf(k, ix, nal, pk) /\ RestOf(k, pk, fo, em)

(* The lengths of what a packet is made of.                                *)
LEMMA PacketPlaces ==
  ASSUME NEW unit \in Encoder!AccessUnits, NEW k \in 1 .. Len(unit)
  PROVE  /\ Len(unit) \in {1, 2} /\ Encoder!Bytes(unit) \in Seq(Octets)
         /\ unit[k].code \in Encoder!StartCodes /\ Clean(unit[k].nalu)
         /\ Len(unit[k].code) \in {3, 4} /\ Len(unit[k].nalu) \in Nat /\ Len(unit[k].nalu) > 0
         /\ CodeFrom(unit, k) \in Nat /\ Encoder!From(unit, k) \in Nat
         /\ Encoder!From(unit, k) = CodeFrom(unit, k) + Len(unit[k].code)
         /\ Encoder!From(unit, k) + Len(unit[k].nalu) <= Len(Encoder!Bytes(unit))
         /\ Encoder!StartCodeAt(Encoder!Bytes(unit), CodeFrom(unit, k)) = Len(unit[k].code)
<1>1. /\ Len(unit) \in {1, 2} /\ unit[k].code \in Encoder!StartCodes /\ Clean(unit[k].nalu)
  BY UnitPieces
<1>2. Len(unit[k].code) \in {3, 4} /\ Len(unit[k].nalu) \in Nat /\ Len(unit[k].nalu) > 0
  BY <1>1, CodeIs DEF Clean
<1>3. /\ Encoder!Bytes(unit) \in Seq(Octets)
      /\ Lies(unit[k].code, Encoder!Bytes(unit), CodeFrom(unit, k))
      /\ Lies(unit[k].nalu, Encoder!Bytes(unit), Encoder!From(unit, k))
      /\ Encoder!From(unit, k) = CodeFrom(unit, k) + Len(unit[k].code)
  BY BytesOfPacket
<1>4. Encoder!StartCodeAt(Encoder!Bytes(unit), CodeFrom(unit, k)) = Len(unit[k].code)
  BY <1>1, <1>3, CodeFound
<1>5. /\ CodeFrom(unit, k) \in Nat /\ Encoder!From(unit, k) \in Nat
      /\ Encoder!From(unit, k) + Len(unit[k].nalu) <= Len(Encoder!Bytes(unit))
  BY <1>3 DEF Lies
<1> QED  BY <1>1, <1>2, <1>3, <1>4, <1>5

(* Where the second unit follows the first, and the last one ends.         *)
LEMMA PacketEnds ==
  ASSUME NEW unit \in Encoder!AccessUnits, NEW k \in 1 .. Len(unit)
  PROVE  /\ Len(Encoder!Bytes(unit)) \in Nat
         /\ k = Len(unit) =>
              Encoder!From(unit, k) + Len(unit[k].nalu) = Len(Encoder!Bytes(unit))
         /\ k # Len(unit) =>
              /\ k = 1 /\ Len(unit) = 2 /\ 2 \in 1 .. Len(unit)
              /\ CodeFrom(unit, 2) = Encoder!From(unit, 1) + Len(unit[1].nalu)
              /\ CodeFrom(unit, 2) < Len(Encoder!Bytes(unit))
<1>1. /\ Encoder!Bytes(unit) \in Seq(Octets)
      /\ Len(Encoder!Bytes(unit)) = Encoder!From(unit, Len(unit)) + Len(unit[Len(unit)].nalu)
  BY BytesOfPacket
<1>2. Len(Encoder!Bytes(unit)) \in Nat
  BY <1>1
<1>3. ASSUME k # Len(unit)
      PROVE  /\ k = 1 /\ Len(unit) = 2 /\ 2 \in 1 .. Len(unit)
             /\ CodeFrom(unit, 2) = Encoder!From(unit, 1) + Len(unit[1].nalu)
             /\ CodeFrom(unit, 2) < Len(Encoder!Bytes(unit))
  <2>1. Len(unit) \in {1, 2}
    BY UnitPieces
  <2>2. k = 1 /\ Len(unit) = 2 /\ 2 \in 1 .. Len(unit) /\ 1 \in 1 .. Len(unit)
    <3>1. CASE Len(unit) = 1
      <4>1. k \in 1 .. 1
        BY <3>1
      <4> QED  BY <1>3, <3>1, <4>1
    <3>2. CASE Len(unit) = 2
      <4>1. k \in 1 .. 2
        BY <3>2
      <4> QED  BY <1>3, <3>2, <4>1
    <3> QED  BY <2>1, <3>1, <3>2
  <2>3. CodeFrom(unit, 2) = Encoder!From(unit, 1) + Len(unit[1].nalu)
    BY DEF CodeFrom, Encoder!From
  <2>4. /\ CodeFrom(unit, 2) \in Nat /\ Len(unit[2].code) \in {3, 4}
        /\ Encoder!From(unit, 2) = CodeFrom(unit, 2) + Len(unit[2].code)
        /\ Len(unit[2].nalu) \in Nat
    BY <2>2, PacketPlaces
  <2>5. CodeFrom(unit, 2) < Len(Encoder!Bytes(unit))
    <3>1. Len(Encoder!Bytes(unit)) = Encoder!From(unit, 2) + Len(unit[2].nalu)
      BY <1>1, <2>2
    <3>2. PICK a \in Nat, b \in {3, 4}, c \in Nat :
            a = CodeFrom(unit, 2) /\ b = Len(unit[2].code) /\ c = Len(unit[2].nalu)
      BY <2>4
    <3>3. Len(Encoder!Bytes(unit)) = (a + b) + c
      BY <2>4, <3>1, <3>2
    <3>4. a < (a + b) + c
      OBVIOUS
    <3> QED  BY <3>2, <3>3, <3>4
  <2> QED  BY <2>2, <2>3, <2>5
<1> QED  BY <1>1, <1>2, <1>3

LEMMA ParseStarts ==
  ASSUME NEW pk \in Encoder!Frames, NEW fo, NEW em, RestOf(1, pk, fo, em)
  PROVE  ParseAt(0, << >>, pk, fo, em)
<1>1. pk.unit \in Encoder!AccessUnits
  BY DEF Encoder!Frames
<1>2. 1 \in 1 .. Len(pk.unit)
  BY <1>1, UnitPieces
<1> QED  BY <1>2 DEF ParseAt, AtUnitOf

(* What comes before the end of the k-th unit: its first code, its bytes,  *)
(* or the code behind it.                                                  *)
TurnOf(code, byte, ix, nal, pk, fo, em) ==
  \/ nal = << >> /\ code > 0 /\ ParseAt(ix + code, << >>, pk, fo, em)
  \/ code = 0 /\ byte \in Octets /\ ParseAt(ix + 1, Append(nal, byte), pk, fo, em)
  \/ /\ Clean(nal) /\ code > 0
     /\ em[fo + 1] = [pts |-> pk.pts, data |-> nal] /\ fo + 1 <= Len(em)
     /\ ParseAt(ix + code, << >>, pk, fo + 1, em)

LEMMA ParseTurn ==
  ASSUME NEW pk \in Encoder!Frames, NEW fo \in Nat, NEW em, NEW ix \in Nat, NEW nal,
         ParseAt(ix, nal, pk, fo, em), ix < Len(Encoder!Bytes(pk.unit))
  PROVE  TurnOf(Encoder!StartCodeAt(Encoder!Bytes(pk.unit), ix),
                Encoder!At(Encoder!Bytes(pk.unit), ix), ix, nal, pk, fo, em)
<1> SUFFICES
         \/ /\ nal = << >> /\ Encoder!StartCodeAt(Encoder!Bytes(pk.unit), ix) > 0
            /\ ParseAt(ix + Encoder!StartCodeAt(Encoder!Bytes(pk.unit), ix), << >>, pk, fo, em)
         \/ /\ Encoder!StartCodeAt(Encoder!Bytes(pk.unit), ix) = 0
            /\ Encoder!At(Encoder!Bytes(pk.unit), ix) \in Octets
            /\ ParseAt(ix + 1, Append(nal, Encoder!At(Encoder!Bytes(pk.unit), ix)), pk, fo, em)
         \/ /\ Clean(nal) /\ Encoder!StartCodeAt(Encoder!Bytes(pk.unit), ix) > 0
            /\ em[fo + 1] = [pts |-> pk.pts, data |-> nal] /\ fo + 1 <= Len(em)
            /\ ParseAt(ix + Encoder!StartCodeAt(Encoder!Bytes(pk.unit), ix), << >>, pk, fo + 1, em)
  BY DEF TurnOf
<1>1. PICK k \in 1 .. Len(pk.unit) : AtUnitOf(k, ix, nal, pk) /\ RestOf(k, pk, fo, em)
  BY DEF ParseAt
<1>2. PICK unit, h : unit = pk.unit /\ h = Encoder!Bytes(unit)
  OBVIOUS
<1>3. unit \in Encoder!AccessUnits /\ k \in 1 .. Len(unit) /\ k \in Nat
  BY <1>2 DEF Encoder!Frames
<1>4. PICK u, from : u = unit[k].nalu /\ from = Encoder!From(unit, k)
  OBVIOUS
<1>5. /\ h \in Seq(Octets) /\ Clean(u) /\ Len(u) \in Nat /\ Len(u) > 0 /\ from \in Nat
      /\ Lies(u, h, from)
  BY <1>2, <1>3, <1>4, PacketPlaces, BytesOfPacket
<1>6. u \in Seq(Octets)
  BY <1>5 DEF Clean
<1>7. CASE k = 1 /\ ix = 0 /\ nal = << >>
  <2>1. PICK c : c = Len(unit[1].code)
    OBVIOUS
  <2>2. /\ CodeFrom(unit, 1) = 0 /\ from = c /\ c \in {3, 4}
        /\ Encoder!StartCodeAt(h, 0) = c
    BY <1>2, <1>3, <1>4, <1>7, <2>1, PacketPlaces DEF CodeFrom, Encoder!From
  <2>3. SubSeq(u, 1, c - from) = << >>
    <3>1. c - from = 0
      BY <1>5, <2>2
    <3> QED  BY <3>1
  <2>4. ix + c = c /\ from <= c /\ c <= from + Len(u)
    BY <1>5, <1>7, <2>2
  <2>5. AtUnitOf(k, c, << >>, pk)
    BY <1>2, <1>4, <2>3, <2>4 DEF AtUnitOf
  <2>6. ParseAt(c, << >>, pk, fo, em)
    BY <1>1, <2>5 DEF ParseAt
  <2>7. c > 0
    BY <2>2
  <2> QED  BY <1>2, <1>7, <2>2, <2>4, <2>6, <2>7
<1>8. CASE from <= ix /\ ix < from + Len(u) /\ nal = SubSeq(u, 1, ix - from)
  <2>1. PICK j \in Nat : j = ix - from /\ ix = from + j /\ j < Len(u)
    <3>1. ix - from \in Nat /\ ix = from + (ix - from) /\ ix - from < Len(u)
      BY <1>5, <1>8
    <3> QED  BY <3>1
  <2>2. Encoder!StartCodeAt(h, from + j) = 0 /\ Encoder!At(h, from + j) = u[j + 1]
    BY <1>5, <2>1, NoCodeInside
  <2>3. PICK b : b = u[j + 1]
    OBVIOUS
  <2>4. j + 1 \in 1 .. Len(u) /\ b \in Octets
    <3>1. j + 1 \in 1 .. Len(u)
      BY <1>5, <2>1
    <3> QED  BY <1>6, <2>3, <3>1, Places
  <2>5. PICK t : t = SubSeq(u, 1, j + 1)
    OBVIOUS
  <2>6. /\ t \in Seq(Octets) /\ Len(t) = j + 1 /\ \A l \in 1 .. j + 1 : t[l] = u[l]
    <3>1. 1 \in 1 .. Len(u) + 1 /\ j + 1 \in 1 - 1 .. Len(u) /\ (j + 1) + 1 - 1 = j + 1
      BY <2>1
    <3>2. /\ t \in Seq(Octets) /\ Len(t) = j + 1
          /\ \A l \in 1 .. j + 1 : t[l] = u[1 + l - 1]
      BY <1>6, <2>5, <3>1, CutOut
    <3>3. \A l \in 1 .. j + 1 : 1 + l - 1 = l
      OBVIOUS
    <3> QED  BY <3>2, <3>3
  <2>7. /\ nal \in Seq(Octets) /\ Len(nal) = j /\ \A l \in 1 .. j : nal[l] = u[l]
    <3>1. 1 \in 1 .. Len(u) + 1 /\ j \in 1 - 1 .. Len(u) /\ j + 1 - 1 = j
      BY <2>1
    <3>2. nal = SubSeq(u, 1, j)
      BY <1>8, <2>1
    <3>3. /\ nal \in Seq(Octets) /\ Len(nal) = j
          /\ \A l \in 1 .. j : nal[l] = u[1 + l - 1]
      BY <1>6, <3>1, <3>2, CutOut
    <3>4. \A l \in 1 .. j : 1 + l - 1 = l
      OBVIOUS
    <3> QED  BY <3>3, <3>4
  <2>8. PICK a : a = Append(nal, b)
    OBVIOUS
  <2>9. /\ a \in Seq(Octets) /\ Len(a) = j + 1 /\ a[j + 1] = b /\ \A l \in 1 .. j : a[l] = nal[l]
    BY <2>4, <2>7, <2>8, WithOneMore
  <2>10. \A l \in 1 .. j + 1 : a[l] = t[l]
    <3> SUFFICES ASSUME NEW l \in 1 .. j + 1 PROVE a[l] = t[l]
      OBVIOUS
    <3>1. CASE l \in 1 .. j
      BY <2>6, <2>7, <2>9, <3>1
    <3>2. CASE l = j + 1
      BY <2>3, <2>6, <2>9, <3>2
    <3> QED  BY <2>1, <3>1, <3>2
  <2>11. a = t
    <3>1. Len(a) = Len(t) /\ \A l \in 1 .. Len(a) : a[l] = t[l]
      BY <2>6, <2>9, <2>10
    <3> QED  BY <2>6, <2>9, <3>1, Same
  <2>12. from <= ix + 1 /\ ix + 1 <= from + Len(u) /\ (ix + 1) - from = j + 1
    BY <1>5, <1>8, <2>1
  <2>13. AtUnitOf(k, ix + 1, a, pk)
    BY <1>2, <1>4, <2>5, <2>11, <2>12 DEF AtUnitOf
  <2>14. ParseAt(ix + 1, a, pk, fo, em)
    BY <1>1, <2>13 DEF ParseAt
  <2> QED  BY <1>2, <2>1, <2>2, <2>3, <2>4, <2>8, <2>14
<1>9. CASE ix = from + Len(u) /\ nal = SubSeq(u, 1, ix - from)
  <2>1. nal = u
    <3>1. ix - from = Len(u)
      BY <1>5, <1>9
    <3> QED  BY <1>6, <1>9, <3>1
  <2>2. k # Len(unit)
    BY <1>2, <1>3, <1>4, <1>9, PacketEnds
  <2>3. /\ k = 1 /\ Len(unit) = 2 /\ 2 \in 1 .. Len(unit) /\ CodeFrom(unit, 2) = ix
    BY <1>3, <1>4, <1>9, <2>2, PacketEnds
  <2>4. PICK c, f2, u2 : c = Len(unit[2].code) /\ f2 = Encoder!From(unit, 2) /\ u2 = unit[2].nalu
    OBVIOUS
  <2>5. /\ c \in {3, 4} /\ Encoder!StartCodeAt(h, ix) = c /\ f2 = ix + c /\ f2 \in Nat
        /\ Len(u2) \in Nat
    BY <1>2, <1>3, <2>3, <2>4, PacketPlaces
  <2>6. SubSeq(u2, 1, f2 - f2) = << >>
    <3>1. f2 - f2 = 0
      BY <2>5
    <3> QED  BY <3>1
  <2>7. f2 <= f2 /\ f2 <= f2 + Len(u2)
    BY <2>5
  <2>8. AtUnitOf(2, f2, << >>, pk)
    BY <1>2, <2>4, <2>6, <2>7 DEF AtUnitOf
  <2>9. /\ Len(em) + 1 = fo + 1 + 2
        /\ \A l \in 1 .. 2 : em[fo + 1 + l - 1] = [pts |-> pk.pts, data |-> unit[l].nalu]
    BY <1>1, <1>2, <2>3 DEF RestOf
  <2>10. em[fo + 1] = [pts |-> pk.pts, data |-> nal] /\ fo + 1 <= Len(em)
    <3>1. 1 \in 1 .. 2 /\ fo + 1 + 1 - 1 = fo + 1
      OBVIOUS
    <3>2. em[fo + 1] = [pts |-> pk.pts, data |-> unit[1].nalu]
      BY <2>9, <3>1
    <3>3. Len(em) + 1 = fo + 3
      BY <2>9
    <3>4. Len(em) \in Int => fo + 1 <= Len(em)
      BY <3>3
    <3> QED  BY <1>4, <2>1, <2>3, <3>2, <3>4
  <2>11. RestOf(2, pk, fo + 1, em)
    <3>1. Len(em) + 2 = fo + 1 + 1 + 2
      BY <2>9
    <3>2. ASSUME NEW l \in 2 .. 2
          PROVE  em[fo + 1 + 1 + l - 2] = [pts |-> pk.pts, data |-> unit[l].nalu]
      <4>1. l \in 1 .. 2 /\ fo + 1 + 1 + l - 2 = fo + 1 + l - 1
        OBVIOUS
      <4> QED  BY <2>9, <4>1
    <3> QED  BY <1>2, <2>3, <3>1, <3>2 DEF RestOf
  <2>12. ParseAt(f2, << >>, pk, fo + 1, em)
    BY <1>2, <2>3, <2>8, <2>11 DEF ParseAt
  <2>13. c > 0 /\ Clean(nal)
    BY <1>5, <2>1, <2>5
  <2> QED  BY <1>2, <2>5, <2>10, <2>12, <2>13
<1> QED
  <2>1. \/ k = 1 /\ ix = 0 /\ nal = << >>
        \/ from <= ix /\ ix <= from + Len(u) /\ nal = SubSeq(u, 1, ix - from)
    BY <1>1, <1>2, <1>4 DEF AtUnitOf
  <2>2. ix <= from + Len(u) => ix < from + Len(u) \/ ix = from + Len(u)
    BY <1>5
  <2> QED  BY <1>7, <1>8, <1>9, <2>1, <2>2

(* At the end of the packet the last unit is whole.                        *)
LEMMA ParseEnd ==
  ASSUME NEW pk \in Encoder!Frames, NEW fo \in Nat, NEW T, NEW em \in Seq(T), NEW ix \in Nat,
         NEW nal, ParseAt(ix, nal, pk, fo, em), ~(ix < Len(Encoder!Bytes(pk.unit)))
  PROVE  /\ Clean(nal) /\ em[fo + 1] = [pts |-> pk.pts, data |-> nal] /\ fo + 1 = Len(em)
<1>1. PICK k \in 1 .. Len(pk.unit) : AtUnitOf(k, ix, nal, pk) /\ RestOf(k, pk, fo, em)
  BY DEF ParseAt
<1>2. PICK unit, h : unit = pk.unit /\ h = Encoder!Bytes(unit)
  OBVIOUS
<1>3. unit \in Encoder!AccessUnits /\ k \in 1 .. Len(unit) /\ k \in Nat
  BY <1>2 DEF Encoder!Frames
<1>4. PICK u, from : u = unit[k].nalu /\ from = Encoder!From(unit, k)
  OBVIOUS
<1>5. /\ Clean(u) /\ Len(u) \in Nat /\ Len(u) > 0 /\ from \in Nat
      /\ from + Len(u) <= Len(h)
  BY <1>2, <1>3, <1>4, PacketPlaces
<1>6. Len(h) \in Nat
  BY <1>2, <1>3, PacketEnds
<1>7. from <= ix /\ ix <= from + Len(u) /\ nal = SubSeq(u, 1, ix - from)
  <2>1. ix # 0
    BY <1>2, <1>5, <1>6
  <2> QED  BY <1>1, <1>2, <1>4, <2>1 DEF AtUnitOf
<1>8. ix = from + Len(u) /\ ix - from = Len(u) /\ Len(h) <= ix
  BY <1>2, <1>5, <1>6, <1>7
<1>9. nal = u
  <2>1. u \in Seq(Octets)
    BY <1>5 DEF Clean
  <2> QED  BY <1>7, <1>8, <2>1
<1>10. k = Len(unit)
  <2> SUFFICES ASSUME k # Len(unit) PROVE FALSE
    OBVIOUS
  <2>1. CodeFrom(unit, 2) = from + Len(u) /\ CodeFrom(unit, 2) < Len(h)
    BY <1>2, <1>3, <1>4, PacketEnds
  <2> QED  BY <1>6, <1>8, <2>1
<1>11. fo + 1 = Len(em)
  <2>1. Len(em) + k = fo + 1 + k
    BY <1>1, <1>2, <1>10 DEF RestOf
  <2> QED  BY <1>3, <2>1
<1>12. em[fo + 1] = [pts |-> pk.pts, data |-> u]
  <2>1. k \in k .. Len(pk.unit) /\ fo + 1 + k - k = fo + 1
    BY <1>2, <1>3, <1>10
  <2>2. em[fo + 1 + k - k] = [pts |-> pk.pts, data |-> pk.unit[k].nalu]
    BY <1>1, <2>1 DEF RestOf
  <2> QED  BY <1>2, <1>4, <2>1, <2>2
<1> QED  BY <1>5, <1>9, <1>11, <1>12

(* What the encoder's first packet gives, before it is parsed.             *)
LEMMA RestOfTaken ==
  ASSUME NEW T, NEW em \in Seq(T), NEW pk, NEW e, NEW x \in T, NEW y \in T,
         x = [pts |-> pk.pts, data |-> pk.unit[1].nalu],
         Len(pk.unit) = 2 => y = [pts |-> pk.pts, data |-> pk.unit[2].nalu],
         \/ Len(pk.unit) = 1 /\ e = Append(em, x)
         \/ Len(pk.unit) = 2 /\ e = Append(Append(em, x), y)
  PROVE  RestOf(1, pk, Len(em), e)
<1>1. PICK d : d = Append(em, x)
  OBVIOUS
<1>2. /\ d \in Seq(T) /\ Len(d) = Len(em) + 1 /\ d[Len(em) + 1] = x
  BY <1>1, WithOneMore
<1>3. Len(em) \in Nat
  OBVIOUS
<1>4. CASE Len(pk.unit) = 1 /\ e = d
  <2>1. Len(e) + 1 = Len(em) + 1 + 1
    BY <1>2, <1>4
  <2>2. ASSUME NEW l \in 1 .. 1
        PROVE  e[Len(em) + 1 + l - 1] = [pts |-> pk.pts, data |-> pk.unit[l].nalu]
    <3>1. l = 1 /\ Len(em) + 1 + l - 1 = Len(em) + 1
      BY <1>3
    <3> QED  BY <1>2, <1>4, <3>1
  <2> QED  BY <1>4, <2>1, <2>2 DEF RestOf
<1>5. CASE Len(pk.unit) = 2 /\ e = Append(d, y)
  <2>1. /\ Len(e) = Len(d) + 1 /\ e[Len(d) + 1] = y /\ \A k \in 1 .. Len(d) : e[k] = d[k]
    BY <1>2, <1>5, WithOneMore
  <2>2. Len(e) + 1 = Len(em) + 1 + 2
    BY <1>2, <1>3, <2>1
  <2>3. ASSUME NEW l \in 1 .. 2
        PROVE  e[Len(em) + 1 + l - 1] = [pts |-> pk.pts, data |-> pk.unit[l].nalu]
    <3>1. CASE l = 1
      <4>1. Len(em) + 1 + l - 1 = Len(em) + 1 /\ Len(em) + 1 \in 1 .. Len(d)
        BY <1>2, <1>3, <3>1
      <4> QED  BY <1>2, <2>1, <3>1, <4>1
    <3>2. CASE l = 2
      <4>1. Len(em) + 1 + l - 1 = Len(d) + 1
        BY <1>2, <1>3, <3>2
      <4> QED  BY <1>5, <2>1, <3>2, <4>1
    <3> QED  BY <3>1, <3>2
  <2> QED  BY <1>5, <2>2, <2>3 DEF RestOf
<1> QED  BY <1>1, <1>4, <1>5

(* The packet parseH264 makes of a unit.                                   *)
LEMMA PacketIs ==
  ASSUME NEW nalu, Clean(nalu), NEW pts \in Nat, NEW n \in Nat
  PROVE  /\ Encoder!Packet(nalu, pts, n) \in Encoder!VideoPackets
         /\ Encoder!Packet(nalu, pts, n).type = "video"
         /\ Encoder!Packet(nalu, pts, n).n = n
         /\ Encoder!Packet(nalu, pts, n).pts = pts
         /\ Encoder!Packet(nalu, pts, n).data = nalu
<1>1. nalu \in Seq(0..255) \ {<< >>}
  <2>1. nalu \in Seq(0..255) /\ Len(nalu) > 0
    BY DEF Clean, Octets
  <2> QED  BY <2>1
<1>2. PICK p : p = Encoder!Packet(nalu, pts, n)
  OBVIOUS
<1>3. PICK key \in BOOLEAN : key = (Encoder!NalType(nalu) = Encoder!IDR)
  OBVIOUS
<1>4. PICK s : s = IF Encoder!NalType(nalu) = Encoder!IDR
                   THEN Encoder!CopySpspps(Encoder!extradata) ELSE Encoder!NoSets
  OBVIOUS
<1>5. p = [type |-> "video", pts |-> pts, data |-> nalu, keyframe_ |-> key, sets |-> s, n |-> n]
  BY <1>2, <1>3, <1>4 DEF Encoder!Packet
<1>6. s \in {Encoder!NoSets, Encoder!TheSets} /\ (key <=> s = Encoder!TheSets)
  BY <1>3, <1>4, SetsAreCut
<1>7. p \in [type : {"video"}, pts : Nat, data : Seq(0..255) \ {<< >>}, keyframe_ : BOOLEAN,
             sets : {Encoder!NoSets, Encoder!TheSets}, n : Nat]
  BY <1>1, <1>5, <1>6
<1>8. /\ p.keyframe_ <=> Encoder!NalType(p.data) = Encoder!IDR
      /\ p.keyframe_ <=> p.sets = Encoder!TheSets
  BY <1>3, <1>5, <1>6
<1>9. p \in Encoder!VideoPackets
  BY <1>7, <1>8 DEF Encoder!VideoPackets
<1> QED  BY <1>2, <1>5, <1>9

-----------------------------------------------------------------------------
(* SetsInv of some messages.                                               *)
AvcMessage == [type |-> "avc", sets |-> Encoder!TheSets]
SetsOf(se) ==
  /\ \A k \in Vid(se) :
       Encoder!NalType(se[k].data) = Encoder!IDR <=> (k > 1 /\ se[k - 1] = AvcMessage)
  /\ se # << >> => se[Len(se)].type # "avc"

(* A message that is no video.                                             *)
LEMMA SetsOther ==
  ASSUME NEW S, NEW se \in Seq(S), SetsOf(se), NEW x \in S, x.type = "audio"
  PROVE  SetsOf(Append(se, x))
<1>1. PICK r : r = Append(se, x)
  OBVIOUS
<1>2. /\ r \in Seq(S) /\ Len(r) = Len(se) + 1 /\ r[Len(se) + 1] = x
      /\ \A k \in 1 .. Len(se) : r[k] = se[k]
  BY <1>1, WithOneMore
<1>3. Vid(r) = Vid(se) /\ \A k \in Vid(se) : k \in 1 .. Len(se) /\ r[k] = se[k]
  BY <1>1, NoVideoMore
<1>4. ASSUME NEW k \in Vid(r)
      PROVE  Encoder!NalType(r[k].data) = Encoder!IDR <=> (k > 1 /\ r[k - 1] = AvcMessage)
  <2>1. k \in Vid(se) /\ r[k] = se[k] /\ k \in 1 .. Len(se)
    BY <1>3
  <2>2. k > 1 => r[k - 1] = se[k - 1]
    <3> SUFFICES ASSUME k > 1 PROVE r[k - 1] = se[k - 1]
      OBVIOUS
    <3>1. k - 1 \in 1 .. Len(se)
      BY <2>1
    <3> QED  BY <1>2, <3>1
  <2> QED  BY <2>1, <2>2 DEF SetsOf
<1>5. r[Len(r)].type # "avc"
  BY <1>2
<1> QED  BY <1>1, <1>4, <1>5 DEF SetsOf

(* A picture's message behind its sets, or another one's.                  *)
LEMMA SetsVideo ==
  ASSUME NEW S, NEW se \in Seq(S), SetsOf(se), NEW x \in S, x.type = "video", AvcMessage \in S,
         NEW s, s = IF Encoder!NalType(x.data) = Encoder!IDR THEN Append(se, AvcMessage) ELSE se
  PROVE  SetsOf(Append(s, x))
<1>1. PICK r : r = Append(s, x)
  OBVIOUS
<1>2. /\ s \in Seq(S) /\ Vid(s) = Vid(se)
      /\ \A k \in 1 .. Len(se) : k \in 1 .. Len(s) /\ s[k] = se[k]
  <2>1. CASE Encoder!NalType(x.data) = Encoder!IDR
    <3>1. s = Append(se, AvcMessage)
      BY <2>1
    <3>2. s \in Seq(S) /\ Len(s) = Len(se) + 1 /\ \A k \in 1 .. Len(se) : s[k] = se[k]
      BY <3>1, WithOneMore
    <3>3. Vid(s) = Vid(se)
      <4>1. AvcMessage.type # "video"
        BY DEF AvcMessage
      <4> QED  BY <3>1, <4>1, NoVideoMore
    <3>4. \A k \in 1 .. Len(se) : k \in 1 .. Len(se) + 1
      OBVIOUS
    <3> QED  BY <3>2, <3>3, <3>4
  <2>2. CASE ~(Encoder!NalType(x.data) = Encoder!IDR)
    BY <2>2
  <2> QED  BY <2>1, <2>2
<1>3. /\ r \in Seq(S) /\ Len(r) = Len(s) + 1 /\ r[Len(s) + 1] = x
      /\ \A k \in 1 .. Len(s) : r[k] = s[k]
  BY <1>1, <1>2, WithOneMore
<1>4. Vid(r) = Vid(s) \cup {Len(s) + 1}
  <2>1. s \in Seq(S)
    BY <1>2
  <2>2. Vid(Append(s, x)) = Vid(s) \cup {Len(s) + 1}
    <3>1. x \in S /\ x.type = "video"
      OBVIOUS
    <3> QED  BY ONLY <2>1, <3>1, OneVideoMore
  <2> QED  BY <1>1, <2>2
<1>5. ASSUME NEW k \in Vid(se)
      PROVE  Encoder!NalType(r[k].data) = Encoder!IDR <=> (k > 1 /\ r[k - 1] = AvcMessage)
  <2>1. k \in 1 .. Len(se)
    BY DEF Vid
  <2>2. r[k] = se[k]
    BY <1>2, <1>3, <2>1
  <2>3. k > 1 => r[k - 1] = se[k - 1]
    <3> SUFFICES ASSUME k > 1 PROVE r[k - 1] = se[k - 1]
      OBVIOUS
    <3>1. k - 1 \in 1 .. Len(se)
      BY <2>1
    <3> QED  BY <1>2, <1>3, <3>1
  <2> QED  BY <2>2, <2>3 DEF SetsOf
<1>6. ASSUME NEW k, k = Len(s) + 1
      PROVE  Encoder!NalType(r[k].data) = Encoder!IDR <=> (k > 1 /\ r[k - 1] = AvcMessage)
  <2>1. Len(s) \in Nat /\ Len(se) \in Nat /\ r[k] = x /\ k - 1 = Len(s)
    BY <1>2, <1>3, <1>6
  <2>2. CASE Encoder!NalType(x.data) = Encoder!IDR
    <3>1. s = Append(se, AvcMessage)
      BY <2>2
    <3>2. Len(s) = Len(se) + 1 /\ s[Len(se) + 1] = AvcMessage
      BY <3>1, WithOneMore
    <3>3. k > 1 /\ Len(s) \in 1 .. Len(s)
      BY <1>6, <2>1, <3>2
    <3>4. r[k - 1] = AvcMessage
      BY <1>3, <2>1, <3>2, <3>3
    <3> QED  BY <2>1, <2>2, <3>3, <3>4
  <2>3. CASE ~(Encoder!NalType(x.data) = Encoder!IDR)
    <3>1. s = se
      BY <2>3
    <3>2. ASSUME k > 1, r[k - 1] = AvcMessage PROVE FALSE
      <4>1. Len(se) \in 1 .. Len(s) /\ se # << >>
        BY <2>1, <3>1, <3>2, <1>6
      <4>2. r[Len(se)] = se[Len(se)]
        BY <1>3, <3>1, <4>1
      <4>3. se[Len(se)].type = "avc"
        BY <2>1, <3>1, <3>2, <4>2 DEF AvcMessage
      <4> QED  BY <4>1, <4>3 DEF SetsOf
    <3> QED  BY <2>1, <2>3, <3>2
  <2> QED  BY <2>2, <2>3
<1>7. \A k \in Vid(r) :
        Encoder!NalType(r[k].data) = Encoder!IDR <=> (k > 1 /\ r[k - 1] = AvcMessage)
  BY <1>2, <1>4, <1>5, <1>6
<1>8. r[Len(r)].type # "avc"
  BY <1>3
<1> QED  BY <1>1, <1>7, <1>8 DEF SetsOf

-----------------------------------------------------------------------------
(* The invariant of EncoderOutput in these terms, now and after a step.    *)
ParseOf(at, ix, nal, pk, fo, em, ou) ==
  /\ at # "parse" => ix = 0 /\ nal = << >> /\ pk = Encoder!NoPacket /\ fo = Len(em)
  /\ at \in {"idle", "timer"} => ou = << >>
  /\ at = "parse" => pk \in Encoder!Frames /\ ParseAt(ix, nal, pk, fo, em)

LEMMA PartsSay ==
  ASSUME Encoder!EncoderInv
  PROVE  /\ ParseOf(pc, i, nalus, packet, found, emitted, outpkts)
         /\ UnitsOf(sent, datalist, lost, outpkts, emitted, found)
         /\ PtsInside(inside, video_pts, emitted)
         /\ PtsOutside(emitted, Num(sent) \cup Num(datalist), Num(lost), Num(outpkts), pc,
                       packet.pts)
         /\ SetsOf(sent)
         /\ VideoOf(video_timestamp, found, sent, Num(datalist) \cup Num(outpkts), lost, errors)
         /\ AudioOf(audio_timestamp, audio_pts, sent, datalist, errors, fault)
         /\ FramesOf(errors, emitted, inside, video_pts, fault)
<1>1. ParseOf(pc, i, nalus, packet, found, emitted, outpkts)
  BY DEF Encoder!EncoderInv, Encoder!ParseInv, Encoder!AtUnit, ParseOf, ParseAt, AtUnitOf, RestOf
<1>2. UnitsOf(sent, datalist, lost, outpkts, emitted, found)
  BY DEF Encoder!EncoderInv, Encoder!UnitsInv, Encoder!Faithful, Encoder!Numbers,
     Encoder!Videos, Encoder!Gone, UnitsOf, Fits, Num, Vid
<1>3. PtsInside(inside, video_pts, emitted)
  BY DEF Encoder!EncoderInv, Encoder!PtsInv, PtsInside
<1>4. PtsOutside(emitted, Num(sent) \cup Num(datalist), Num(lost), Num(outpkts), pc, packet.pts)
  BY DEF Encoder!EncoderInv, Encoder!PtsInv, Encoder!Numbers, Encoder!Videos, Encoder!Gone,
     PtsOutside, Num, Vid
<1>5. SetsOf(sent)
  BY DEF Encoder!EncoderInv, Encoder!SetsInv, Encoder!SetsBeforePicture, Encoder!Videos,
     Encoder!TheSets, SetsOf, AvcMessage, Vid
<1>6. VideoOf(video_timestamp, found, sent, Num(datalist) \cup Num(outpkts), lost, errors)
  BY DEF Encoder!EncoderInv, Encoder!VideoClock, Encoder!Numbers, Encoder!Videos, VideoOf, Num, Vid
<1>7. AudioOf(audio_timestamp, audio_pts, sent, datalist, errors, fault)
  BY DEF Encoder!EncoderInv, Encoder!AudioClock, Encoder!AudioPts, Encoder!Audios, AudioOf,
     Rising, Apt, Aud
<1>8. FramesOf(errors, emitted, inside, video_pts, fault)
  BY DEF Encoder!EncoderInv, Encoder!FrameNumbers, Encoder!OneUnitAFrame, FramesOf, SingleUnits
<1> QED  BY <1>1, <1>2, <1>3, <1>4, <1>5, <1>6, <1>7, <1>8

LEMMA ParseNext ==
  ASSUME NEW at, NEW ix, NEW nal, NEW pk, NEW fo, NEW em, NEW ou,
         pc' = at, i' = ix, nalus' = nal, packet' = pk, found' = fo, emitted' = em,
         outpkts' = ou, ParseOf(at, ix, nal, pk, fo, em, ou)
  PROVE  Encoder!ParseInv'
BY DEF Encoder!ParseInv, Encoder!AtUnit, ParseOf, ParseAt, AtUnitOf, RestOf

LEMMA UnitsNext ==
  ASSUME NEW se, NEW da, NEW lo, NEW ou, NEW em, NEW fo,
         sent' = se, datalist' = da, lost' = lo, outpkts' = ou, emitted' = em, found' = fo,
         UnitsOf(se, da, lo, ou, em, fo)
  PROVE  Encoder!UnitsInv'
BY DEF Encoder!UnitsInv, Encoder!Faithful, Encoder!Numbers, Encoder!Videos, Encoder!Gone,
   UnitsOf, Fits, Num, Vid

LEMMA PtsNext ==
  ASSUME NEW fr, NEW vp, NEW em, NEW se, NEW da, NEW lo, NEW ou, NEW at, NEW pk,
         inside' = fr, video_pts' = vp, emitted' = em, sent' = se, datalist' = da, lost' = lo,
         outpkts' = ou, pc' = at, packet' = pk, PtsInside(fr, vp, em),
         PtsOutside(em, Num(se) \cup Num(da), Num(lo), Num(ou), at, pk.pts)
  PROVE  Encoder!PtsInv'
BY DEF Encoder!PtsInv, Encoder!Numbers, Encoder!Videos, Encoder!Gone, PtsInside, PtsOutside,
   Num, Vid

LEMMA SetsNext ==
  ASSUME NEW se, sent' = se, SetsOf(se)
  PROVE  Encoder!SetsInv'
BY DEF Encoder!SetsInv, Encoder!SetsBeforePicture, Encoder!Videos, Encoder!TheSets, SetsOf,
   AvcMessage, Vid

LEMMA VideoNext ==
  ASSUME NEW vt, NEW fo, NEW se, NEW da, NEW ou, NEW lo, NEW er,
         video_timestamp' = vt, found' = fo, sent' = se, datalist' = da, outpkts' = ou,
         lost' = lo, errors' = er, VideoOf(vt, fo, se, Num(da) \cup Num(ou), lo, er)
  PROVE  Encoder!VideoClock'
BY DEF Encoder!VideoClock, Encoder!Numbers, Encoder!Videos, VideoOf, Num, Vid

LEMMA AudioNext ==
  ASSUME NEW ti, NEW ap, NEW se, NEW da, NEW er, NEW fa,
         audio_timestamp' = ti, audio_pts' = ap, sent' = se, datalist' = da, errors' = er,
         fault' = fa, fa \in BOOLEAN, AudioOf(ti, ap, se, da, er, fa)
  PROVE  Encoder!AudioClock'
BY DEF Encoder!AudioClock, Encoder!AudioPts, Encoder!Audios, AudioOf, Rising, Apt, Aud

LEMMA FramesNext ==
  ASSUME NEW er, NEW em, NEW fr, NEW vp, NEW fa,
         errors' = er, emitted' = em, inside' = fr, video_pts' = vp, fault' = fa,
         fa \in BOOLEAN, FramesOf(er, em, fr, vp, fa)
  PROVE  Encoder!FrameNumbers'
BY DEF Encoder!FrameNumbers, Encoder!OneUnitAFrame, FramesOf, SingleUnits

-----------------------------------------------------------------------------
(* A frame of video begins.                                                *)
LEMMA TypesSay ==
  ASSUME Encoder!EncoderInv
  PROVE  /\ ready \subseteq {"video", "audio"} /\ fault \in BOOLEAN
         /\ pc \in {"idle", "encode", "parse", "timer"}
         /\ video_pts \in Nat /\ audio_pts \in Nat
         /\ video_pts <= MaxFrames /\ audio_pts <= MaxFrames
         /\ inside \in Seq(Encoder!Frames) /\ packet \in Encoder!Frames \cup {Encoder!NoPacket}
         /\ i \in Nat /\ nalus \in Seq(Octets)
         /\ outpkts \in Seq(Encoder!VideoPackets)
         /\ datalist \in Seq(Encoder!VideoPackets \cup Encoder!AudioPackets)
         /\ lost \in Seq(Encoder!VideoPackets \cup Encoder!AudioPackets)
         /\ found \in Nat /\ emitted \in Seq([pts : Nat, data : Seq(Octets)])
         /\ sent \in Seq(Encoder!Messages) /\ errors \in Nat
         /\ Len(inside) \in Nat /\ Len(emitted) \in Nat
         /\ Encoder!CountInv
BY EncoderBound DEF Encoder!EncoderInv, Encoder!TypesInv, Encoder!Times, Octets

LEMMA SeqOfFrames == Seq(Encoder!Frames) = Seq([pts : Nat, unit : Encoder!AccessUnits])
BY DEF Encoder!Frames

LEMMA VideoFrame ==
  ASSUME Encoder!EncoderInv, Encoder!YuvDataIsAvailable
  PROVE  Encoder!EncoderInv'
<1>1. /\ ready' = ready /\ audio_pts' = audio_pts /\ packet' = packet /\ i' = i
      /\ nalus' = nalus /\ outpkts' = outpkts /\ datalist' = datalist /\ lost' = lost
      /\ video_timestamp' = video_timestamp /\ audio_timestamp' = audio_timestamp
      /\ found' = found /\ emitted' = emitted /\ sent' = sent
      /\ video_pts' = video_pts + 1 /\ pc = "idle" /\ ~fault /\ video_pts < MaxFrames
      /\ Encoder!NoCodec \/ Encoder!SendFrameFails \/ Encoder!SendFrame
  BY DEF Encoder!YuvDataIsAvailable, Encoder!parser, Encoder!stamps
<1>2. /\ ready \subseteq {"video", "audio"} /\ video_pts \in Nat /\ audio_pts \in Nat
      /\ inside \in Seq(Encoder!Frames) /\ errors \in Nat
      /\ emitted \in Seq([pts : Nat, data : Seq(Octets)])
      /\ Len(inside) \in Nat /\ Len(emitted) \in Nat
      /\ Encoder!CountInv
  BY TypesSay
<1>3. /\ Len(inside) <= video_pts
      /\ Len(emitted) + 2 * Len(inside) <= 2 * video_pts
      /\ errors <= video_pts + audio_pts
  BY <1>2 DEF Encoder!CountInv
<1>4. video_pts + 1 \in Encoder!Times
  BY <1>1, <1>2, EncoderBound DEF Encoder!Times
<1>5. fault = FALSE
  BY <1>1, TypesSay
<1>6. PtsInside(inside, video_pts + 1, emitted)
  BY <1>2, PartsSay, SeqOfFrames, PtsLater
<1>7. Encoder!UnitsInv'
  BY <1>1, PartsSay, UnitsNext
<1>8. Encoder!SetsInv'
  BY <1>1, PartsSay, SetsNext
<1>9. ASSUME NEW at, at # "parse"
      PROVE  PtsOutside(emitted, Num(sent) \cup Num(datalist), Num(lost), Num(outpkts), at,
                        packet.pts)
  BY <1>9, PartsSay DEF PtsOutside
<1>10. CASE Encoder!NoCodec
  <2>1. fault' = TRUE /\ inside' = inside /\ pc' = pc /\ errors' = errors
    BY <1>10 DEF Encoder!NoCodec
  <2>2. Encoder!TypesInv'
    BY <1>1, <1>4, <2>1 DEF Encoder!EncoderInv, Encoder!TypesInv
  <2>3. Encoder!CountInv'
    BY <1>1, <1>2, <1>3, <2>1 DEF Encoder!CountInv
  <2>4. Encoder!ParseInv'
    BY <1>1, <2>1, PartsSay, ParseNext
  <2>5. Encoder!PtsInv'
    BY <1>1, <1>6, <2>1, PartsSay, PtsNext
  <2>6. Encoder!VideoClock'
    BY <1>1, <2>1, PartsSay, VideoNext
  <2>7. Encoder!AudioClock'
    <3>1. AudioOf(audio_timestamp, audio_pts, sent, datalist, errors, TRUE)
      BY PartsSay DEF AudioOf
    <3> QED  BY <1>1, <2>1, <3>1, AudioNext
  <2>8. Encoder!FrameNumbers'
    <3>1. FramesOf(errors, emitted, inside, video_pts + 1, TRUE)
      BY PartsSay DEF FramesOf
    <3> QED  BY <1>1, <2>1, <3>1, FramesNext
  <2> QED  BY <1>7, <1>8, <2>2, <2>3, <2>4, <2>5, <2>6, <2>7, <2>8 DEF Encoder!EncoderInv
<1>11. CASE Encoder!SendFrameFails
  <2>1. fault' = fault /\ inside' = inside /\ pc' = pc /\ errors' = errors + 1
    BY <1>11 DEF Encoder!SendFrameFails
  <2>2. Encoder!TypesInv'
    BY <1>1, <1>4, <2>1 DEF Encoder!EncoderInv, Encoder!TypesInv
  <2>3. Encoder!CountInv'
    BY <1>1, <1>2, <1>3, <2>1 DEF Encoder!CountInv
  <2>4. Encoder!ParseInv'
    BY <1>1, <2>1, PartsSay, ParseNext
  <2>5. Encoder!PtsInv'
    BY <1>1, <1>6, <2>1, PartsSay, PtsNext
  <2>6. errors + 1 # 0 /\ fault \in BOOLEAN
    BY <1>2, TypesSay
  <2>7. Encoder!VideoClock'
    <3>1. VideoOf(video_timestamp, found, sent, Num(datalist) \cup Num(outpkts), lost, errors + 1)
      BY <2>6, PartsSay DEF VideoOf
    <3> QED  BY <1>1, <2>1, <3>1, VideoNext
  <2>8. Encoder!AudioClock'
    <3>1. AudioOf(audio_timestamp, audio_pts, sent, datalist, errors + 1, fault)
      BY <2>6, PartsSay DEF AudioOf
    <3> QED  BY <1>1, <2>1, <2>6, <3>1, AudioNext
  <2>9. Encoder!FrameNumbers'
    <3>1. FramesOf(errors + 1, emitted, inside, video_pts + 1, fault)
      BY <2>6 DEF FramesOf
    <3> QED  BY <1>1, <2>1, <2>6, <3>1, FramesNext
  <2> QED  BY <1>7, <1>8, <2>2, <2>3, <2>4, <2>5, <2>7, <2>8, <2>9 DEF Encoder!EncoderInv
<1>12. CASE Encoder!SendFrame
  <2>1. PICK u \in Encoder!AccessUnits : inside' = Append(inside, [pts |-> video_pts, unit |-> u])
    BY <1>12 DEF Encoder!SendFrame
  <2>2. fault' = fault /\ pc' = "encode" /\ errors' = errors
    BY <1>12 DEF Encoder!SendFrame
  <2>3. PICK f : f = [pts |-> video_pts, unit |-> u]
    OBVIOUS
  <2>4. f \in Encoder!Frames /\ f.pts = video_pts
    BY <1>2, <2>3 DEF Encoder!Frames
  <2>5. PICK g : g = Append(inside, f)
    OBVIOUS
  <2>6. inside' = g /\ g \in Seq(Encoder!Frames) /\ Len(g) = Len(inside) + 1
    BY <1>2, <2>1, <2>3, <2>4, <2>5, WithOneMore
  <2>7. Encoder!TypesInv'
    BY <1>1, <1>4, <2>2, <2>6 DEF Encoder!EncoderInv, Encoder!TypesInv
  <2>8. Encoder!CountInv'
    BY <1>1, <1>2, <1>3, <1>5, <2>2, <2>6 DEF Encoder!CountInv
  <2>9. Encoder!ParseInv'
    <3>1. ParseOf("encode", i, nalus, packet, found, emitted, outpkts)
      BY <1>1, PartsSay DEF ParseOf
    <3> QED  BY <1>1, <2>2, <3>1, ParseNext
  <2>10. Encoder!PtsInv'
    <3>1. PtsInside(g, video_pts + 1, emitted)
      <4>1. f \in [pts : Nat, unit : Encoder!AccessUnits]
        BY <2>4 DEF Encoder!Frames
      <4> QED  BY <1>2, <2>4, <2>5, <4>1, PartsSay, SeqOfFrames, PtsFrame
    <3>2. PtsOutside(emitted, Num(sent) \cup Num(datalist), Num(lost), Num(outpkts), "encode",
                     packet.pts)
      BY <1>9
    <3> QED  BY <1>1, <2>2, <2>6, <3>1, <3>2, PtsNext
  <2>11. Encoder!VideoClock'
    BY <1>1, <2>2, PartsSay, VideoNext
  <2>12. Encoder!AudioClock'
    BY <1>1, <2>2, PartsSay, TypesSay, AudioNext
  <2>13. Encoder!FrameNumbers'
    <3>1. FramesOf(errors, emitted, inside, video_pts, FALSE)
      BY <1>5, PartsSay
    <3>2. FramesOf(errors, emitted, g, video_pts + 1, FALSE)
      BY <1>2, <2>4, <2>5, <3>1, FramesFrame
    <3> QED  BY <1>1, <1>5, <2>2, <2>6, <3>2, FramesNext
  <2> QED  BY <1>7, <1>8, <2>7, <2>8, <2>9, <2>10, <2>11, <2>12, <2>13 DEF Encoder!EncoderInv
<1> QED  BY <1>1, <1>10, <1>11, <1>12

(* A packet is taken: its units are emitted.                               *)
LEMMA PacketTaken ==
  ASSUME Encoder!EncoderInv, Encoder!ReceivePacket
  PROVE  Encoder!EncoderInv'
<1>1. /\ ready' = ready /\ video_pts' = video_pts /\ audio_pts' = audio_pts
      /\ i' = i /\ nalus' = nalus /\ outpkts' = outpkts /\ datalist' = datalist /\ lost' = lost
      /\ video_timestamp' = video_timestamp /\ audio_timestamp' = audio_timestamp
      /\ found' = found /\ sent' = sent /\ errors' = errors /\ fault' = fault
      /\ pc = "encode" /\ pc' = "parse" /\ inside # << >>
      /\ packet' = Head(inside) /\ inside' = Tail(inside)
  BY DEF Encoder!ReceivePacket, Encoder!clocks, Encoder!stamps
<1>2. /\ inside \in Seq(Encoder!Frames) /\ emitted \in Seq([pts : Nat, data : Seq(Octets)])
      /\ video_pts \in Nat /\ audio_pts \in Nat /\ found \in Nat /\ errors \in Nat
      /\ Len(inside) \in Nat /\ Len(emitted) \in Nat
      /\ Encoder!CountInv /\ fault \in BOOLEAN
  BY TypesSay
<1>3. PICK T : T = [pts : Nat, data : Seq(Octets)]
  OBVIOUS
<1>4. PICK pk, g : pk = inside[1] /\ g = Tail(inside)
  OBVIOUS
<1>5. /\ Head(inside) = pk /\ pk \in Encoder!Frames /\ 1 \in 1 .. Len(inside)
      /\ g \in Seq(Encoder!Frames) /\ Len(g) = Len(inside) - 1
  BY <1>1, <1>2, <1>4, WithoutFirst
<1>6. packet' = pk /\ inside' = g
  BY <1>1, <1>4, <1>5
<1>7. /\ pk.pts \in Nat /\ pk.unit \in Encoder!AccessUnits /\ Len(pk.unit) \in {1, 2}
      /\ \A k \in 1 .. Len(pk.unit) : pk.unit[k].nalu \in Seq(Octets)
  BY <1>5, UnitPieces DEF Encoder!Frames, Clean
<1>8. PICK x : x = [pts |-> pk.pts, data |-> pk.unit[1].nalu]
  OBVIOUS
<1>9. x \in T /\ x.pts = pk.pts
  <2>1. 1 \in 1 .. Len(pk.unit)
    <3>1. \A n \in {1, 2} : 1 \in 1 .. n
      OBVIOUS
    <3> QED  BY <1>7, <3>1
  <2>2. pk.unit[1].nalu \in Seq(Octets)
    BY <1>7, <2>1
  <2> QED  BY <1>3, <1>7, <1>8, <2>2
<1>10. PICK y \in T : /\ y.pts = pk.pts
                      /\ Len(pk.unit) = 2 => y = [pts |-> pk.pts, data |-> pk.unit[2].nalu]
  <2>1. CASE Len(pk.unit) = 2
    <3>1. 2 \in 1 .. Len(pk.unit)
      BY <2>1
    <3>2. pk.unit[2].nalu \in Seq(Octets)
      BY <1>7, <3>1
    <3>3. PICK z : z = [pts |-> pk.pts, data |-> pk.unit[2].nalu]
      OBVIOUS
    <3>4. z \in T /\ z.pts = pk.pts
      BY <1>3, <1>7, <3>2, <3>3
    <3> QED  BY <3>3, <3>4
  <2>2. CASE Len(pk.unit) = 1
    BY <1>9, <2>2
  <2> QED  BY <1>7, <2>1, <2>2
<1>11. PICK d, e : d = Append(emitted, x) /\ e = emitted'
  OBVIOUS
<1>12. \/ Len(pk.unit) = 1 /\ e = d
       \/ Len(pk.unit) = 2 /\ e = Append(d, y)
  <2>1. emitted' = (IF Len(pk.unit) = 1
                    THEN Append(emitted, [pts |-> pk.pts, data |-> pk.unit[1].nalu])
                    ELSE Append(Append(emitted, [pts |-> pk.pts, data |-> pk.unit[1].nalu]),
                                [pts |-> pk.pts, data |-> pk.unit[2].nalu]))
    BY <1>5 DEF Encoder!ReceivePacket
  <2>2. CASE Len(pk.unit) = 1
    BY <1>8, <1>11, <2>1, <2>2
  <2>3. CASE Len(pk.unit) = 2
    BY <1>8, <1>10, <1>11, <2>1, <2>3
  <2> QED  BY <1>7, <2>2, <2>3
<1>13. emitted \in Seq(T)
  BY <1>2, <1>3
<1>14. /\ d \in Seq(T) /\ Len(d) = Len(emitted) + 1 /\ d[Len(emitted) + 1] = x
       /\ \A k \in 1 .. Len(emitted) : d[k] = emitted[k]
  BY <1>9, <1>11, <1>13, WithOneMore
<1>15. /\ e \in Seq(T) /\ Len(e) <= Len(emitted) + 2 /\ Len(e) \in Nat
       /\ \A m \in DOMAIN emitted : m \in DOMAIN e /\ e[m] = emitted[m]
       /\ \A m \in DOMAIN e : (m \in DOMAIN emitted /\ e[m] = emitted[m]) \/ e[m].pts = pk.pts
  <2>1. CASE Len(pk.unit) = 1 /\ e = d
    <3>1. DOMAIN e = 1 .. Len(emitted) + 1 /\ DOMAIN emitted = 1 .. Len(emitted)
      BY <1>13, <1>14, <2>1
    <3>2. e \in Seq(T) /\ Len(e) <= Len(emitted) + 2 /\ Len(e) \in Nat
      BY <1>2, <1>14, <2>1
    <3> QED  BY <1>2, <1>9, <1>14, <2>1, <3>1, <3>2
  <2>2. CASE Len(pk.unit) = 2 /\ e = Append(d, y)
    <3>1. e \in Seq(T) /\ Len(e) = Len(d) + 1 /\ e[Len(d) + 1] = y /\ \A k \in 1 .. Len(d) : e[k] = d[k]
      BY <1>10, <1>14, <2>2, WithOneMore
    <3>2. DOMAIN e = 1 .. Len(emitted) + 2 /\ DOMAIN emitted = 1 .. Len(emitted)
      BY <1>13, <1>14, <3>1
    <3>3. e \in Seq(T) /\ Len(e) <= Len(emitted) + 2 /\ Len(e) \in Nat
      BY <1>2, <1>14, <3>1
    <3>4. ASSUME NEW m \in DOMAIN emitted PROVE m \in DOMAIN e /\ e[m] = emitted[m]
      <4>1. m \in 1 .. Len(emitted) /\ m \in 1 .. Len(d)
        BY <1>2, <1>14, <3>2
      <4> QED  BY <1>14, <3>1, <3>2, <4>1
    <3>5. ASSUME NEW m \in DOMAIN e, m \notin DOMAIN emitted PROVE e[m].pts = pk.pts
      <4>1. m = Len(emitted) + 1 \/ m = Len(d) + 1
        BY <1>2, <1>14, <3>2, <3>5
      <4>2. CASE m = Len(emitted) + 1
        <5>1. m \in 1 .. Len(d)
          BY <1>2, <1>14, <4>2
        <5> QED  BY <1>9, <1>14, <3>1, <4>2, <5>1
      <4>3. CASE m = Len(d) + 1
        BY <1>10, <3>1, <4>3
      <4> QED  BY <4>1, <4>2, <4>3
    <3> QED  BY <3>3, <3>4, <3>5
  <2> QED  BY <1>12, <2>1, <2>2
<1>16. ParseOf("encode", i, nalus, packet, found, emitted, outpkts)
  BY <1>1, PartsSay
<1>17. i = 0 /\ nalus = << >> /\ found = Len(emitted)
  BY <1>16 DEF ParseOf
<1>18. fault = FALSE
  BY <1>1, <1>2 DEF Encoder!CountInv
<1>19. Encoder!TypesInv'
  <2>1. packet' \in Encoder!Frames \cup {Encoder!NoPacket} /\ inside' \in Seq(Encoder!Frames)
        /\ emitted' \in Seq([pts : Nat, data : Seq(0..255)])
    BY <1>3, <1>5, <1>6, <1>11, <1>15 DEF Octets
  <2> QED  BY <1>1, <2>1 DEF Encoder!EncoderInv, Encoder!TypesInv
<1>20. Encoder!CountInv'
  <2>1. /\ Len(g) <= video_pts
        /\ Len(e) + 2 * Len(g) <= 2 * video_pts
        /\ errors < video_pts + audio_pts /\ errors <= video_pts + audio_pts
    BY <1>1, <1>2, <1>5, <1>15 DEF Encoder!CountInv
  <2> QED  BY <1>1, <1>6, <1>11, <1>18, <2>1 DEF Encoder!CountInv
<1>21. Encoder!ParseInv'
  <2>1. RestOf(1, pk, Len(emitted), e)
    <3>1. \/ Len(pk.unit) = 1 /\ e = Append(emitted, x)
          \/ Len(pk.unit) = 2 /\ e = Append(Append(emitted, x), y)
      BY <1>11, <1>12
    <3>2. x = [pts |-> pk.pts, data |-> pk.unit[1].nalu]
      BY <1>8
    <3>3. Len(pk.unit) = 2 => y = [pts |-> pk.pts, data |-> pk.unit[2].nalu]
      BY <1>10
    <3>4. x \in T /\ y \in T
      BY <1>9, <1>10
    <3> QED  BY ONLY <1>13, <3>1, <3>2, <3>3, <3>4, RestOfTaken
  <2>2. ParseAt(0, << >>, pk, found, e)
    BY <1>5, <1>17, <2>1, ParseStarts
  <2>3. ParseOf("parse", i, nalus, pk, found, e, outpkts)
    BY <1>5, <1>17, <2>2 DEF ParseOf
  <2> QED  BY <1>1, <1>6, <1>11, <2>3, ParseNext
<1>22. Encoder!UnitsInv'
  <2>1. UnitsOf(sent, datalist, lost, outpkts, e, found)
    BY <1>15, PartsSay, UnitsLonger
  <2> QED  BY <1>1, <1>11, <2>1, UnitsNext
<1>23. PtsInside(inside, video_pts, emitted)
  BY PartsSay
<1>24. Encoder!PtsInv'
  <2>1. PtsInside(g, video_pts, e)
    <3>1. \A m \in DOMAIN e : (m \in DOMAIN emitted /\ e[m] = emitted[m]) \/ e[m].pts = inside[1].pts
      BY <1>4, <1>15
    <3> QED  BY <1>1, <1>2, <1>4, <1>23, <3>1, SeqOfFrames, PtsTaken
  <2>2. PtsOutside(e, Num(sent) \cup Num(datalist), Num(lost), Num(outpkts), "parse", pk.pts)
    <3>1. /\ Num(sent) \cup Num(datalist) \subseteq DOMAIN emitted
          /\ Num(lost) \subseteq DOMAIN emitted /\ Num(outpkts) \subseteq DOMAIN emitted
      BY PartsSay, FitsNumbers DEF UnitsOf
    <3>2. \A m \in DOMAIN emitted : emitted[m].pts < pk.pts
      <4>1. 1 \in DOMAIN inside
        BY <1>2, <1>5
      <4> QED  BY <1>4, <1>23, <4>1 DEF PtsInside
    <3>3. \A m \in DOMAIN emitted : e[m] = emitted[m]
      BY <1>15
    <3> QED  BY <3>1, <3>2, <3>3, PartsSay, PtsStarted
  <2> QED  BY <1>1, <1>6, <1>11, <2>1, <2>2, PtsNext
<1>25. Encoder!SetsInv'
  BY <1>1, PartsSay, SetsNext
<1>26. Encoder!VideoClock'
  BY <1>1, PartsSay, VideoNext
<1>27. Encoder!AudioClock'
  BY <1>1, <1>2, PartsSay, AudioNext
<1>28. Encoder!FrameNumbers'
  <2>1. FramesOf(errors, emitted, inside, video_pts, FALSE)
    BY <1>18, PartsSay
  <2>2. FramesOf(errors, e, g, video_pts, fault)
    <3>1. CASE e = d
      <4>1. x.pts = inside[1].pts
        BY <1>4, <1>9
      <4>2. inside \in Seq(Encoder!Frames) /\ inside # << >> /\ x \in T
        BY <1>1, <1>2, <1>9
      <4>3. FramesOf(errors, Append(emitted, x), Tail(inside), video_pts, fault)
        BY ONLY <1>13, <2>1, <4>1, <4>2, FramesTaken
      <4> QED  BY <1>4, <1>11, <3>1, <4>3
    <3>2. CASE e = Append(d, y)
      <4>1. x.pts = y.pts
        BY <1>9, <1>10
      <4> QED  BY <1>9, <1>10, <1>11, <1>13, <3>2, <4>1, FramesDouble
    <3> QED  BY <1>12, <3>1, <3>2
  <2> QED  BY <1>1, <1>2, <1>6, <1>11, <2>2, FramesNext
<1> QED
  BY <1>19, <1>20, <1>21, <1>22, <1>24, <1>25, <1>26, <1>27, <1>28 DEF Encoder!EncoderInv

(* A turn of parseH264: a code that ends nothing, a byte, or a code that   *)
(* ends a unit.                                                            *)
LEMMA PacketParsed ==
  ASSUME Encoder!EncoderInv, Encoder!ParseH264
  PROVE  Encoder!EncoderInv'
<1>1. /\ ready' = ready /\ inside' = inside /\ video_pts' = video_pts /\ audio_pts' = audio_pts
      /\ pc' = pc /\ packet' = packet /\ datalist' = datalist /\ lost' = lost
      /\ video_timestamp' = video_timestamp /\ audio_timestamp' = audio_timestamp
      /\ emitted' = emitted /\ sent' = sent /\ errors' = errors /\ fault' = fault
      /\ pc = "parse"
  BY DEF Encoder!ParseH264, Encoder!clocks, Encoder!stamps
<1>2. /\ fault \in BOOLEAN /\ i \in Nat /\ found \in Nat
      /\ outpkts \in Seq(Encoder!VideoPackets) /\ nalus \in Seq(Octets)
      /\ emitted \in Seq([pts : Nat, data : Seq(Octets)]) /\ Len(emitted) \in Nat
  BY TypesSay
<1>3. /\ ParseOf(pc, i, nalus, packet, found, emitted, outpkts)
      /\ UnitsOf(sent, datalist, lost, outpkts, emitted, found)
      /\ PtsInside(inside, video_pts, emitted)
      /\ PtsOutside(emitted, Num(sent) \cup Num(datalist), Num(lost), Num(outpkts), pc,
                    packet.pts)
      /\ VideoOf(video_timestamp, found, sent, Num(datalist) \cup Num(outpkts), lost, errors)
  BY PartsSay
<1>4. packet \in Encoder!Frames /\ ParseAt(i, nalus, packet, found, emitted)
  BY <1>1, <1>3 DEF ParseOf
<1>5. PICK h, code, byte : /\ h = Encoder!Bytes(packet.unit)
                           /\ code = Encoder!StartCodeAt(h, i) /\ byte = Encoder!At(h, i)
  OBVIOUS
<1>6. /\ i < Len(h)
      /\ IF code > 0 THEN i' = i + code /\ Encoder!Flush
         ELSE /\ i' = i + 1 /\ nalus' = Append(nalus, byte)
              /\ outpkts' = outpkts /\ found' = found
  BY <1>5 DEF Encoder!ParseH264
<1>7. code \in {0, 3, 4}
  BY <1>5 DEF Encoder!StartCodeAt
<1>8. Encoder!CountInv'
  BY <1>1, TypesSay DEF Encoder!CountInv
<1>9. Encoder!SetsInv'
  BY <1>1, PartsSay, SetsNext
<1>10. Encoder!AudioClock'
  BY <1>1, <1>2, PartsSay, AudioNext
<1>11. Encoder!FrameNumbers'
  BY <1>1, <1>2, PartsSay, FramesNext
<1>12. ASSUME NEW ix \in Nat, NEW nal \in Seq(Octets), i' = ix, nalus' = nal,
              outpkts' = outpkts, found' = found, ParseAt(ix, nal, packet, found, emitted)
       PROVE  Encoder!EncoderInv'
  <2>1. Encoder!TypesInv'
    BY <1>1, <1>12 DEF Encoder!EncoderInv, Encoder!TypesInv, Octets
  <2>2. Encoder!ParseInv'
    <3>1. ParseOf("parse", ix, nal, packet, found, emitted, outpkts)
      BY <1>4, <1>12 DEF ParseOf
    <3> QED  BY <1>1, <1>12, <3>1, ParseNext
  <2>3. Encoder!UnitsInv'
    BY <1>1, <1>3, <1>12, UnitsNext
  <2>4. Encoder!PtsInv'
    BY <1>1, <1>3, <1>12, PtsNext
  <2>5. Encoder!VideoClock'
    BY <1>1, <1>3, <1>12, VideoNext
  <2> QED
    BY <1>8, <1>9, <1>10, <1>11, <2>1, <2>2, <2>3, <2>4, <2>5 DEF Encoder!EncoderInv
<1>13. CASE nalus = << >> /\ code > 0 /\ ParseAt(i + code, << >>, packet, found, emitted)
  <2>1. i' = i + code /\ nalus' = << >> /\ outpkts' = outpkts /\ found' = found
    BY <1>6, <1>13 DEF Encoder!Flush
  <2>2. i + code \in Nat
    BY <1>2, <1>7
  <2>3. << >> \in Seq(Octets)
    BY NoneOf
  <2> QED  BY <1>12, <1>13, <2>1, <2>2, <2>3
<1>14. CASE code = 0 /\ byte \in Octets /\ ParseAt(i + 1, Append(nalus, byte), packet, found, emitted)
  <2>1. i' = i + 1 /\ nalus' = Append(nalus, byte) /\ outpkts' = outpkts /\ found' = found
    BY <1>6, <1>14
  <2>2. i + 1 \in Nat
    BY <1>2
  <2>3. Append(nalus, byte) \in Seq(Octets)
    BY <1>2, <1>14, WithOneMore
  <2>4. PICK a : a = Append(nalus, byte)
    OBVIOUS
  <2>5. a \in Seq(Octets) /\ nalus' = a /\ ParseAt(i + 1, a, packet, found, emitted)
    BY <1>14, <2>1, <2>3, <2>4
  <2> QED  BY <1>12, <2>1, <2>2, <2>5
<1>15. CASE /\ Clean(nalus) /\ code > 0
            /\ emitted[found + 1] = [pts |-> packet.pts, data |-> nalus] /\ found + 1 <= Len(emitted)
            /\ ParseAt(i + code, << >>, packet, found + 1, emitted)
  <2>1. nalus # << >>
    BY <1>15 DEF Clean
  <2>2. PICK p : p = Encoder!Packet(nalus, packet.pts, found + 1)
    OBVIOUS
  <2>3. /\ i' = i + code /\ outpkts' = Append(outpkts, p) /\ found' = found + 1
        /\ nalus' = << >>
    BY <1>6, <1>15, <2>1, <2>2 DEF Encoder!Flush
  <2>4. found + 1 \in Nat /\ packet.pts \in Nat /\ i + code \in Nat
    BY <1>2, <1>4, <1>7 DEF Encoder!Frames
  <2>5. /\ p \in Encoder!VideoPackets /\ p.type = "video" /\ p.n = found + 1
        /\ p.pts = packet.pts /\ p.data = nalus
    BY <1>15, <2>2, <2>4, PacketIs
  <2>6. PICK o : o = Append(outpkts, p)
    OBVIOUS
  <2>7. o \in Seq(Encoder!VideoPackets)
    BY <1>2, <2>5, <2>6, WithOneMore
  <2>8. << >> \in Seq(Octets)
    BY NoneOf
  <2>9. Encoder!TypesInv'
    <3>1. /\ i' \in Nat /\ nalus' \in Seq(0..255) /\ outpkts' \in Seq(Encoder!VideoPackets)
          /\ found' \in Nat
      BY <2>3, <2>4, <2>6, <2>7, <2>8 DEF Octets
    <3> QED  BY <1>1, <3>1 DEF Encoder!EncoderInv, Encoder!TypesInv
  <2>10. Encoder!ParseInv'
    <3>1. PICK nal, ix, fo : nal = << >> /\ ix = i + code /\ fo = found + 1
      OBVIOUS
    <3>2. ParseOf("parse", ix, nal, packet, fo, emitted, o)
      BY <1>4, <1>15, <3>1 DEF ParseOf
    <3> QED  BY <1>1, <2>3, <2>6, <3>1, <3>2, ParseNext
  <2>11. UnitsOf(sent, datalist, lost, o, emitted, found + 1) /\ Num(o) = Num(outpkts) \cup {found + 1}
    <3>1. p.n \in DOMAIN emitted /\ emitted[p.n] = [pts |-> p.pts, data |-> p.data]
      BY <1>2, <1>15, <2>4, <2>5
    <3>2. /\ outpkts \in Seq(Encoder!VideoPackets) /\ found \in Nat
          /\ UnitsOf(sent, datalist, lost, outpkts, emitted, found)
          /\ p \in Encoder!VideoPackets /\ p.type = "video" /\ p.n = found + 1
      BY <1>2, <1>3, <2>5
    <3>3. /\ UnitsOf(sent, datalist, lost, Append(outpkts, p), emitted, found + 1)
          /\ Num(Append(outpkts, p)) = Num(outpkts) \cup {found + 1}
      BY ONLY <3>1, <3>2, UnitsMade, SMTT(60)
    <3> QED  BY <2>6, <3>3
  <2>12. Encoder!UnitsInv'
    BY <1>1, <2>3, <2>6, <2>11, UnitsNext
  <2>13. Encoder!PtsInv'
    <3>1. PtsOutside(emitted, Num(sent) \cup Num(datalist), Num(lost), Num(o), "parse", packet.pts)
      <4>1. emitted[found + 1].pts = packet.pts
        BY <1>15
      <4>2. PtsOutside(emitted, Num(sent) \cup Num(datalist), Num(lost),
                       Num(outpkts) \cup {found + 1}, "parse", packet.pts)
        BY <1>1, <1>3, <4>1, PtsMade
      <4> QED  BY <2>11, <4>2
    <3> QED  BY <1>1, <1>3, <2>3, <2>6, <3>1, PtsNext
  <2>14. Encoder!VideoClock'
    <3>1. (Num(datalist) \cup Num(outpkts)) \cup {found + 1} = Num(datalist) \cup Num(o)
      BY <2>11
    <3>2. VideoOf(video_timestamp, found + 1, sent, Num(datalist) \cup Num(o), lost, errors)
      BY <1>2, <1>3, <3>1, VideoMade
    <3> QED  BY <1>1, <2>3, <2>6, <3>2, VideoNext
  <2> QED
    BY <1>8, <1>9, <1>10, <1>11, <2>9, <2>10, <2>12, <2>13, <2>14 DEF Encoder!EncoderInv
<1> QED
  <2>1. i < Len(Encoder!Bytes(packet.unit))
    BY <1>5, <1>6
  <2>2. TurnOf(code, byte, i, nalus, packet, found, emitted)
    BY <1>2, <1>4, <1>5, <2>1, ParseTurn
  <2> QED  BY <1>13, <1>14, <1>15, <2>2 DEF TurnOf

(* parseH264 returns: its last unit ends.                                  *)
LEMMA PacketDone ==
  ASSUME Encoder!EncoderInv, Encoder!ParseEnds
  PROVE  Encoder!EncoderInv'
<1>1. /\ ready' = ready /\ inside' = inside /\ video_pts' = video_pts /\ audio_pts' = audio_pts
      /\ datalist' = datalist /\ lost' = lost
      /\ video_timestamp' = video_timestamp /\ audio_timestamp' = audio_timestamp
      /\ emitted' = emitted /\ sent' = sent /\ errors' = errors /\ fault' = fault
      /\ pc = "parse" /\ pc' = "encode" /\ packet' = Encoder!NoPacket /\ i' = 0
      /\ i >= Len(Encoder!Bytes(packet.unit)) /\ Encoder!Flush
  BY DEF Encoder!ParseEnds, Encoder!clocks, Encoder!stamps
<1>2. /\ fault \in BOOLEAN /\ i \in Nat /\ found \in Nat
      /\ outpkts \in Seq(Encoder!VideoPackets) /\ nalus \in Seq(Octets)
      /\ emitted \in Seq([pts : Nat, data : Seq(Octets)]) /\ Len(emitted) \in Nat
  BY TypesSay
<1>3. /\ ParseOf(pc, i, nalus, packet, found, emitted, outpkts)
      /\ UnitsOf(sent, datalist, lost, outpkts, emitted, found)
      /\ PtsInside(inside, video_pts, emitted)
      /\ PtsOutside(emitted, Num(sent) \cup Num(datalist), Num(lost), Num(outpkts), pc,
                    packet.pts)
      /\ VideoOf(video_timestamp, found, sent, Num(datalist) \cup Num(outpkts), lost, errors)
  BY PartsSay
<1>4. packet \in Encoder!Frames /\ ParseAt(i, nalus, packet, found, emitted)
  BY <1>1, <1>3 DEF ParseOf
<1>5. /\ Clean(nalus) /\ emitted[found + 1] = [pts |-> packet.pts, data |-> nalus]
      /\ found + 1 = Len(emitted)
  <2>1. packet.unit \in Encoder!AccessUnits
    BY <1>4 DEF Encoder!Frames
  <2>2. 1 \in 1 .. Len(packet.unit)
    <3>1. \A n \in {1, 2} : 1 \in 1 .. n
      OBVIOUS
    <3> QED  BY <2>1, <3>1, UnitPieces
  <2>3. Len(Encoder!Bytes(packet.unit)) \in Nat
    BY <2>1, <2>2, PacketEnds
  <2>4. ~(i < Len(Encoder!Bytes(packet.unit)))
    BY <1>1, <1>2, <2>3
  <2> QED  BY <1>2, <1>4, <2>4, ParseEnd
<1>6. nalus # << >>
  BY <1>5 DEF Clean
<1>7. PICK p, o : p = Encoder!Packet(nalus, packet.pts, found + 1) /\ o = Append(outpkts, p)
  OBVIOUS
<1>8. outpkts' = o /\ found' = found + 1 /\ nalus' = << >>
  BY <1>1, <1>6, <1>7 DEF Encoder!Flush
<1>9. found + 1 \in Nat /\ packet.pts \in Nat
  BY <1>2, <1>4 DEF Encoder!Frames
<1>10. /\ p \in Encoder!VideoPackets /\ p.type = "video" /\ p.n = found + 1
       /\ p.pts = packet.pts /\ p.data = nalus
  BY <1>5, <1>7, <1>9, PacketIs
<1>11. o \in Seq(Encoder!VideoPackets)
  BY <1>2, <1>7, <1>10, WithOneMore
<1>12. << >> \in Seq(Octets)
  BY NoneOf
<1>13. Encoder!TypesInv'
  <2>1. /\ i' \in Nat /\ nalus' \in Seq(0..255) /\ outpkts' \in Seq(Encoder!VideoPackets)
        /\ found' \in Nat /\ packet' \in Encoder!Frames \cup {Encoder!NoPacket}
    BY <1>1, <1>8, <1>9, <1>11, <1>12 DEF Octets
  <2> QED  BY <1>1, <2>1 DEF Encoder!EncoderInv, Encoder!TypesInv
<1>14. Encoder!CountInv'
  <2>1. Encoder!CountInv
    BY TypesSay
  <2>2. ~fault
    BY <1>1, <2>1 DEF Encoder!CountInv
  <2> QED  BY <1>1, <2>1, <2>2 DEF Encoder!CountInv
<1>15. Encoder!ParseInv'
  <2>1. PICK nal, fo, pk : nal = << >> /\ fo = found + 1 /\ pk = Encoder!NoPacket
    OBVIOUS
  <2>2. ParseOf("encode", 0, nal, pk, fo, emitted, o)
    BY <1>5, <2>1 DEF ParseOf
  <2> QED  BY <1>1, <1>8, <2>1, <2>2, ParseNext
<1>16. UnitsOf(sent, datalist, lost, o, emitted, found + 1) /\ Num(o) = Num(outpkts) \cup {found + 1}
  <2>1. p.n \in DOMAIN emitted /\ emitted[p.n] = [pts |-> p.pts, data |-> p.data]
    BY <1>2, <1>5, <1>9, <1>10
  <2>2. /\ outpkts \in Seq(Encoder!VideoPackets) /\ found \in Nat
        /\ UnitsOf(sent, datalist, lost, outpkts, emitted, found)
        /\ p \in Encoder!VideoPackets /\ p.type = "video" /\ p.n = found + 1
    BY <1>2, <1>3, <1>10
  <2>3. /\ UnitsOf(sent, datalist, lost, Append(outpkts, p), emitted, found + 1)
        /\ Num(Append(outpkts, p)) = Num(outpkts) \cup {found + 1}
    BY ONLY <2>1, <2>2, UnitsMade, SMTT(60)
  <2> QED  BY <1>7, <2>3
<1>17. Encoder!UnitsInv'
  BY <1>1, <1>8, <1>16, UnitsNext
<1>18. Encoder!PtsInv'
  <2>1. PICK pk : pk = Encoder!NoPacket
    OBVIOUS
  <2>2. PtsOutside(emitted, Num(sent) \cup Num(datalist), Num(lost), Num(o), "encode", pk.pts)
    <3>1. emitted[found + 1].pts = packet.pts
      BY <1>5
    <3>2. PtsOutside(emitted, Num(sent) \cup Num(datalist), Num(lost),
                     Num(outpkts) \cup {found + 1}, "encode", pk.pts)
      BY <1>1, <1>3, <3>1, PtsMade
    <3> QED  BY <1>16, <3>2
  <2> QED  BY <1>1, <1>3, <1>8, <2>1, <2>2, PtsNext
<1>19. Encoder!VideoClock'
  <2>1. (Num(datalist) \cup Num(outpkts)) \cup {found + 1} = Num(datalist) \cup Num(o)
    BY <1>16
  <2>2. VideoOf(video_timestamp, found + 1, sent, Num(datalist) \cup Num(o), lost, errors)
    BY <1>2, <1>3, <2>1, VideoMade
  <2> QED  BY <1>1, <1>8, <2>2, VideoNext
<1>20. Encoder!SetsInv'
  BY <1>1, PartsSay, SetsNext
<1>21. Encoder!AudioClock'
  BY <1>1, <1>2, PartsSay, AudioNext
<1>22. Encoder!FrameNumbers'
  BY <1>1, <1>2, PartsSay, FramesNext
<1> QED
  BY <1>13, <1>14, <1>15, <1>17, <1>18, <1>19, <1>20, <1>21, <1>22 DEF Encoder!EncoderInv

(* encode returns, and its packets are queued or lost.                     *)
LEMMA AudOfVideos ==
  ASSUME NEW s \in Seq(Encoder!VideoPackets)
  PROVE  Aud(s) = {} /\ Apt(s) = {} /\ Rising(s)
<1>1. ASSUME NEW x \in Encoder!VideoPackets PROVE x.type # "audio"
  <2>1. x.type \in {"video"}
    BY DEF Encoder!VideoPackets
  <2> QED  BY <2>1
<1> QED  BY <1>1, AudOfNone

LEMMA EncodeDone ==
  ASSUME Encoder!EncoderInv, Encoder!EncodeReturns
  PROVE  Encoder!EncoderInv'
<1>1. /\ ready' = ready /\ inside' = inside /\ video_pts' = video_pts /\ audio_pts' = audio_pts
      /\ packet' = packet /\ i' = i /\ nalus' = nalus
      /\ video_timestamp' = video_timestamp /\ audio_timestamp' = audio_timestamp
      /\ found' = found /\ emitted' = emitted /\ sent' = sent /\ fault' = fault
      /\ pc = "encode" /\ pc' = "idle" /\ outpkts' = << >>
      /\ \E ok \in BOOLEAN : Encoder!Deliver(outpkts, ok)
  BY DEF Encoder!EncodeReturns, Encoder!clocks, Encoder!parser, Encoder!stamps
<1>2. PICK Q : Q = Encoder!VideoPackets \cup Encoder!AudioPackets
  OBVIOUS
<1>3. /\ outpkts \in Seq(Encoder!VideoPackets) /\ datalist \in Seq(Q) /\ lost \in Seq(Q)
      /\ errors \in Nat /\ fault \in BOOLEAN
      /\ emitted \in Seq([pts : Nat, data : Seq(Octets)])
      /\ video_pts \in Nat /\ audio_pts \in Nat /\ Encoder!CountInv
  BY <1>2, TypesSay
<1>4. outpkts \in Seq(Q)
  <2>1. Encoder!VideoPackets \subseteq Q
    BY <1>2
  <2> QED  BY <1>3, <2>1
<1>5. /\ ParseOf(pc, i, nalus, packet, found, emitted, outpkts)
      /\ UnitsOf(sent, datalist, lost, outpkts, emitted, found)
      /\ PtsInside(inside, video_pts, emitted)
      /\ PtsOutside(emitted, Num(sent) \cup Num(datalist), Num(lost), Num(outpkts), pc,
                    packet.pts)
      /\ VideoOf(video_timestamp, found, sent, Num(datalist) \cup Num(outpkts), lost, errors)
      /\ AudioOf(audio_timestamp, audio_pts, sent, datalist, errors, fault)
      /\ FramesOf(errors, emitted, inside, video_pts, fault)
  BY PartsSay
<1>6. PICK none : none = << >>
  OBVIOUS
<1>7. Num(none) = {} /\ none \in Seq(Encoder!VideoPackets)
  BY <1>6, VidOfNone, NoneOf
<1>8. Encoder!ParseInv'
  <2>1. ParseOf("idle", i, nalus, packet, found, emitted, none)
    BY <1>1, <1>5, <1>6 DEF ParseOf
  <2> QED  BY <1>1, <1>6, <2>1, ParseNext
<1>9. Encoder!SetsInv'
  BY <1>1, PartsSay, SetsNext
<1>10. /\ PtsOutside(emitted, (Num(sent) \cup Num(datalist)) \cup Num(outpkts), Num(lost), {},
                     "idle", packet.pts)
       /\ PtsOutside(emitted, Num(sent) \cup Num(datalist), Num(lost) \cup Num(outpkts), {},
                     "idle", packet.pts)
  <2>1. \A m \in (Num(sent) \cup Num(datalist)) \cup Num(lost) \cup Num(outpkts) :
          emitted[m].pts \in Nat
    <3>1. (Num(sent) \cup Num(datalist)) \cup Num(lost) \cup Num(outpkts) \subseteq DOMAIN emitted
      BY <1>5, FitsNumbers DEF UnitsOf
    <3> QED  BY <1>3, <3>1, PtsAreNat
  <2> QED  BY <1>5, <2>1, PtsQueued
<1>11. CASE Encoder!Deliver(outpkts, TRUE)
  <2>1. PICK d : d = datalist \o outpkts
    OBVIOUS
  <2>2. datalist' = d /\ lost' = lost /\ errors' = errors
    BY <1>11, <2>1 DEF Encoder!Deliver
  <2>3. d \in Seq(Q)
    BY <1>3, <1>4, <2>1, Behind
  <2>4. /\ UnitsOf(sent, d, lost, none, emitted, found)
        /\ Num(d) = Num(datalist) \cup Num(outpkts)
    <3>1. /\ datalist \in Seq(Q) /\ outpkts \in Seq(Q)
          /\ Fits(datalist, emitted) /\ Fits(outpkts, emitted)
          /\ \A m \in Num(datalist), n \in Num(outpkts) : m < n
      BY <1>3, <1>4, <1>5 DEF UnitsOf
    <3>2. Num(datalist \o outpkts) = Num(datalist) \cup Num(outpkts)
      BY ONLY <3>1, NumOfJoined
    <3>3. Fits(datalist \o outpkts, emitted)
      BY ONLY <3>1, FitsJoined
    <3>4. Fits(none, emitted)
      BY <1>6, VidOfNone
    <3>5. Num(d) = Num(datalist) \cup Num(outpkts) /\ Fits(d, emitted)
      BY <2>1, <3>2, <3>3
    <3>6. UnitsOf(sent, d, lost, none, emitted, found)
      BY <1>5, <1>7, <3>4, <3>5, UnitsQueued
    <3> QED  BY <3>5, <3>6
  <2>5. Encoder!TypesInv'
    BY <1>1, <1>2, <1>6, <1>7, <2>2, <2>3 DEF Encoder!EncoderInv, Encoder!TypesInv
  <2>6. Encoder!CountInv'
    BY <1>1, <1>3, <2>2 DEF Encoder!CountInv
  <2>7. Encoder!UnitsInv'
    BY <1>1, <1>6, <2>2, <2>4, UnitsNext
  <2>8. Encoder!PtsInv'
    <3>1. (Num(sent) \cup Num(datalist)) \cup Num(outpkts) = Num(sent) \cup Num(d)
      BY <2>4
    <3>2. PtsOutside(emitted, Num(sent) \cup Num(d), Num(lost), Num(none), "idle", packet.pts)
      BY <1>7, <1>10, <3>1
    <3> QED  BY <1>1, <1>5, <1>6, <2>2, <3>2, PtsNext
  <2>9. Encoder!VideoClock'
    <3>1. Num(datalist) \cup Num(outpkts) = Num(d) \cup Num(none)
      BY <1>7, <2>4
    <3>2. VideoOf(video_timestamp, found, sent, Num(d) \cup Num(none), lost, errors)
      BY <1>5, <3>1
    <3> QED  BY <1>1, <1>6, <2>2, <3>2, VideoNext
  <2>10. Encoder!AudioClock'
    <3>1. Apt(outpkts) = {} /\ Rising(outpkts)
      BY <1>3, AudOfVideos
    <3>2. Apt(d) = Apt(datalist)
      <4>1. Apt(d) = Apt(datalist) \cup Apt(outpkts)
        BY <1>3, <1>4, <2>1, AptOfJoined
      <4> QED  BY <3>1, <4>1
    <3>3. Rising(d)
      <4>1. Rising(datalist)
        BY <1>5 DEF AudioOf
      <4>2. \A m \in Apt(datalist), n \in Apt(outpkts) : m < n
        BY <3>1
      <4> QED  BY <1>3, <1>4, <2>1, <3>1, <4>1, <4>2, RisingJoined
    <3>4. AudioOf(audio_timestamp, audio_pts, sent, d, errors, fault)
      BY <1>5, <3>2, <3>3 DEF AudioOf
    <3> QED  BY <1>1, <1>3, <2>2, <3>4, AudioNext
  <2>11. Encoder!FrameNumbers'
    BY <1>1, <1>3, <1>5, <2>2, FramesNext
  <2> QED
    BY <1>8, <1>9, <2>5, <2>6, <2>7, <2>8, <2>9, <2>10, <2>11 DEF Encoder!EncoderInv
<1>12. CASE Encoder!Deliver(outpkts, FALSE)
  <2>1. PICK l : l = lost \o outpkts
    OBVIOUS
  <2>2. datalist' = datalist /\ lost' = l /\ errors' = errors + 1
    BY <1>12, <2>1 DEF Encoder!Deliver
  <2>3. l \in Seq(Q)
    BY <1>3, <1>4, <2>1, Behind
  <2>4. /\ UnitsOf(sent, datalist, l, none, emitted, found)
        /\ Num(l) = Num(lost) \cup Num(outpkts)
    <3>1. /\ lost \in Seq(Q) /\ outpkts \in Seq(Q)
          /\ Fits(lost, emitted) /\ Fits(outpkts, emitted)
          /\ \A m \in Num(lost), n \in Num(outpkts) : m < n
      BY <1>3, <1>4, <1>5 DEF UnitsOf
    <3>2. Num(lost \o outpkts) = Num(lost) \cup Num(outpkts)
      BY ONLY <3>1, NumOfJoined
    <3>3. Fits(lost \o outpkts, emitted)
      BY ONLY <3>1, FitsJoined
    <3>4. Fits(none, emitted)
      BY <1>6, VidOfNone
    <3>5. Num(l) = Num(lost) \cup Num(outpkts) /\ Fits(l, emitted)
      BY <2>1, <3>2, <3>3
    <3>6. UnitsOf(sent, datalist, l, none, emitted, found)
      BY <1>5, <1>7, <3>4, <3>5, UnitsLost
    <3> QED  BY <3>5, <3>6
  <2>5. Encoder!TypesInv'
    BY <1>1, <1>2, <1>3, <1>6, <1>7, <2>2, <2>3 DEF Encoder!EncoderInv, Encoder!TypesInv
  <2>6. Encoder!CountInv'
    <3>1. errors + 1 <= video_pts + audio_pts
      BY <1>1, <1>3 DEF Encoder!CountInv
    <3> QED  BY <1>1, <1>3, <2>2, <3>1 DEF Encoder!CountInv
  <2>7. Encoder!UnitsInv'
    BY <1>1, <1>6, <2>2, <2>4, UnitsNext
  <2>8. Encoder!PtsInv'
    <3>1. PtsOutside(emitted, Num(sent) \cup Num(datalist), Num(l), Num(none), "idle", packet.pts)
      BY <1>7, <1>10, <2>4
    <3> QED  BY <1>1, <1>5, <1>6, <2>2, <3>1, PtsNext
  <2>9. errors + 1 # 0
    BY <1>3
  <2>10. Encoder!VideoClock'
    <3>1. VideoOf(video_timestamp, found, sent, Num(datalist) \cup Num(none), l, errors + 1)
      BY <1>5, <1>7, <2>9 DEF VideoOf
    <3> QED  BY <1>1, <1>6, <2>2, <3>1, VideoNext
  <2>11. Encoder!AudioClock'
    <3>1. AudioOf(audio_timestamp, audio_pts, sent, datalist, errors + 1, fault)
      BY <1>5, <2>9 DEF AudioOf
    <3> QED  BY <1>1, <1>3, <2>2, <3>1, AudioNext
  <2>12. Encoder!FrameNumbers'
    <3>1. FramesOf(errors + 1, emitted, inside, video_pts, fault)
      BY <2>9 DEF FramesOf
    <3> QED  BY <1>1, <1>3, <2>2, <3>1, FramesNext
  <2> QED
    BY <1>8, <1>9, <2>5, <2>6, <2>7, <2>8, <2>10, <2>11, <2>12 DEF Encoder!EncoderInv
<1> QED  BY <1>1, <1>11, <1>12

(* A frame of audio, with all that becomes of it.                          *)
LEMMA AudioFrame ==
  ASSUME Encoder!EncoderInv, Encoder!RecordDataIsAvailable
  PROVE  Encoder!EncoderInv'
<1>1. /\ ready' = ready /\ inside' = inside /\ pc' = pc /\ video_pts' = video_pts
      /\ audio_pts' = audio_pts + 1 /\ packet' = packet /\ i' = i /\ nalus' = nalus
      /\ outpkts' = outpkts
      /\ video_timestamp' = video_timestamp /\ audio_timestamp' = audio_timestamp
      /\ found' = found /\ emitted' = emitted /\ sent' = sent
      /\ pc = "idle" /\ ~fault /\ audio_pts < MaxFrames
      /\ \/ fault' = TRUE /\ errors' = errors /\ datalist' = datalist /\ lost' = lost
         \/ fault' = fault /\ errors' = errors + 1 /\ datalist' = datalist /\ lost' = lost
         \/ fault' = fault /\ \E ok \in BOOLEAN : Encoder!Deliver(<<Encoder!AudioPacket>>, ok)
  BY DEF Encoder!RecordDataIsAvailable, Encoder!NoCodec, Encoder!SendFrameFails,
     Encoder!parser, Encoder!stamps
<1>2. PICK Q : Q = Encoder!VideoPackets \cup Encoder!AudioPackets
  OBVIOUS
<1>3. /\ outpkts \in Seq(Encoder!VideoPackets) /\ datalist \in Seq(Q) /\ lost \in Seq(Q)
      /\ errors \in Nat /\ fault \in BOOLEAN
      /\ video_pts \in Nat /\ audio_pts \in Nat /\ Encoder!CountInv
  BY <1>2, TypesSay
<1>4. /\ ParseOf(pc, i, nalus, packet, found, emitted, outpkts)
      /\ UnitsOf(sent, datalist, lost, outpkts, emitted, found)
      /\ PtsInside(inside, video_pts, emitted)
      /\ PtsOutside(emitted, Num(sent) \cup Num(datalist), Num(lost), Num(outpkts), pc,
                    packet.pts)
      /\ VideoOf(video_timestamp, found, sent, Num(datalist) \cup Num(outpkts), lost, errors)
      /\ AudioOf(audio_timestamp, audio_pts, sent, datalist, errors, fault)
      /\ FramesOf(errors, emitted, inside, video_pts, fault)
  BY PartsSay
<1>5. fault = FALSE
  BY <1>1, <1>3
<1>6. PICK x : x = Encoder!AudioPacket
  OBVIOUS
<1>7. x \in Q /\ x.type = "audio" /\ x.pts = audio_pts
  BY <1>2, <1>3, <1>6 DEF Encoder!AudioPacket, Encoder!AudioPackets
<1>8. Apt(datalist) \subseteq Nat /\ (\A m \in Apt(datalist) : m < audio_pts) /\ Rising(datalist)
  <2>1. PICK a \in 0 .. audio_pts :
          (\A p \in Apt(datalist) : a <= p /\ p < audio_pts) /\ Rising(datalist)
    BY <1>4 DEF AudioOf
  <2>2. ASSUME NEW m \in Apt(datalist) PROVE m \in Nat
    <3>1. PICK k \in Aud(datalist) : m = datalist[k].pts
      BY DEF Apt
    <3>2. datalist[k] \in Q /\ datalist[k].type = "audio"
      BY <1>3 DEF Aud
    <3>3. datalist[k] \in Encoder!AudioPackets
      <4>1. datalist[k] \notin Encoder!VideoPackets
        <5>1. \A p \in Encoder!VideoPackets : p.type \in {"video"}
          BY DEF Encoder!VideoPackets
        <5> QED  BY <3>2, <5>1
      <4> QED  BY <1>2, <3>2, <4>1
    <3> QED  BY <3>1, <3>3 DEF Encoder!AudioPackets
  <2> QED  BY <2>1, <2>2
<1>9. audio_pts + 1 \in Encoder!Times
  BY <1>1, <1>3, EncoderBound DEF Encoder!Times
<1>10. Encoder!ParseInv'
  BY <1>1, <1>4, ParseNext
<1>11. Encoder!SetsInv'
  BY <1>1, PartsSay, SetsNext
<1>12. errors + 1 # 0 /\ errors + 1 \in Nat
  BY <1>3
<1>13. CASE fault' = TRUE /\ errors' = errors /\ datalist' = datalist /\ lost' = lost
  <2>1. Encoder!TypesInv'
    BY <1>1, <1>9, <1>13 DEF Encoder!EncoderInv, Encoder!TypesInv
  <2>2. Encoder!CountInv'
    BY <1>1, <1>3, <1>13 DEF Encoder!CountInv
  <2>3. Encoder!UnitsInv'
    BY <1>1, <1>4, <1>13, UnitsNext
  <2>4. Encoder!PtsInv'
    BY <1>1, <1>4, <1>13, PtsNext
  <2>5. Encoder!VideoClock'
    BY <1>1, <1>4, <1>13, VideoNext
  <2>6. Encoder!AudioClock'
    <3>1. PICK f \in BOOLEAN : f = TRUE /\ f # FALSE
      OBVIOUS
    <3>2. AudioOf(audio_timestamp, audio_pts + 1, sent, datalist, errors, f)
      BY <1>3, <1>4, <1>8, <3>1, AudioFails
    <3> QED  BY <1>1, <1>13, <3>1, <3>2, AudioNext
  <2>7. Encoder!FrameNumbers'
    <3>1. PICK f \in BOOLEAN : f = TRUE /\ f # FALSE
      OBVIOUS
    <3>2. FramesOf(errors, emitted, inside, video_pts, f)
      BY <1>4, <3>1, FramesFault
    <3> QED  BY <1>1, <1>13, <3>1, <3>2, FramesNext
  <2> QED
    BY <1>10, <1>11, <2>1, <2>2, <2>3, <2>4, <2>5, <2>6, <2>7 DEF Encoder!EncoderInv
(* What an error leaves of the clocks, whatever is lost.                   *)
<1>14. ASSUME NEW l \in Seq(Q), lost' = l, fault' = fault, errors' = errors + 1,
              datalist' = datalist, Num(l) = Num(lost),
              UnitsOf(sent, datalist, l, outpkts, emitted, found)
       PROVE  Encoder!EncoderInv'
  <2>1. Encoder!TypesInv'
    BY <1>1, <1>2, <1>9, <1>12, <1>14 DEF Encoder!EncoderInv, Encoder!TypesInv
  <2>2. Encoder!CountInv'
    BY <1>1, <1>3, <1>14 DEF Encoder!CountInv
  <2>3. Encoder!UnitsInv'
    BY <1>1, <1>14, UnitsNext
  <2>4. Encoder!PtsInv'
    BY <1>1, <1>4, <1>14, PtsNext
  <2>5. Encoder!VideoClock'
    <3>1. VideoOf(video_timestamp, found, sent, Num(datalist) \cup Num(outpkts), l, errors + 1)
      BY <1>4, <1>12 DEF VideoOf
    <3> QED  BY <1>1, <1>14, <3>1, VideoNext
  <2>6. Encoder!AudioClock'
    <3>1. AudioOf(audio_timestamp, audio_pts + 1, sent, datalist, errors + 1, fault)
      BY <1>3, <1>4, <1>8, <1>12, AudioFails
    <3> QED  BY <1>1, <1>3, <1>14, <3>1, AudioNext
  <2>7. Encoder!FrameNumbers'
    <3>1. FramesOf(errors + 1, emitted, inside, video_pts, fault)
      BY <1>12 DEF FramesOf
    <3> QED  BY <1>1, <1>3, <1>14, <3>1, FramesNext
  <2> QED
    BY <1>10, <1>11, <2>1, <2>2, <2>3, <2>4, <2>5, <2>6, <2>7 DEF Encoder!EncoderInv
<1>15. CASE fault' = fault /\ errors' = errors + 1 /\ datalist' = datalist /\ lost' = lost
  BY <1>3, <1>4, <1>14, <1>15
<1>16. Fits(datalist, emitted) /\ Fits(lost, emitted) /\ Fits(sent, emitted)
  BY <1>4 DEF UnitsOf
<1>17. CASE fault' = fault /\ Encoder!Deliver(<<Encoder!AudioPacket>>, FALSE)
  <2>1. PICK l : l = lost \o <<x>>
    OBVIOUS
  <2>2. datalist' = datalist /\ lost' = l /\ errors' = errors + 1
    BY <1>6, <1>17, <2>1 DEF Encoder!Deliver
  <2>3. l \in Seq(Q)
    <3>1. <<x>> \in Seq(Q)
      BY <1>7
    <3> QED  BY <1>3, <2>1, <3>1, Behind
  <2>4. Num(l) = Num(lost) /\ Fits(l, emitted)
    BY <1>3, <1>7, <1>16, <2>1, AudioIsNoUnit
  <2>5. UnitsOf(sent, datalist, l, outpkts, emitted, found)
    BY <1>4, <1>16, <2>4, UnitsSame
  <2> QED  BY <1>14, <1>17, <2>2, <2>3, <2>4, <2>5
<1>18. CASE fault' = fault /\ Encoder!Deliver(<<Encoder!AudioPacket>>, TRUE)
  <2>1. PICK d : d = datalist \o <<x>>
    OBVIOUS
  <2>2. datalist' = d /\ lost' = lost /\ errors' = errors
    BY <1>6, <1>18, <2>1 DEF Encoder!Deliver
  <2>3. <<x>> \in Seq(Q) /\ Apt(<<x>>) = {audio_pts} /\ Rising(<<x>>)
    BY <1>7, AudOfOne
  <2>4. d \in Seq(Q)
    BY <1>3, <2>1, <2>3, Behind
  <2>5. Num(d) = Num(datalist) /\ Fits(d, emitted)
    BY <1>3, <1>7, <1>16, <2>1, AudioIsNoUnit
  <2>6. UnitsOf(sent, d, lost, outpkts, emitted, found)
    BY <1>4, <1>16, <2>5, UnitsSame
  <2>7. Apt(d) = Apt(datalist) \cup {audio_pts}
    <3>1. PICK t : t = <<x>>
      OBVIOUS
    <3>2. datalist \in Seq(Q) /\ t \in Seq(Q)
      BY <1>3, <2>3, <3>1
    <3>3. Apt(datalist \o t) = Apt(datalist) \cup Apt(t)
      BY ONLY <3>2, AptOfJoined
    <3> QED  BY <2>1, <2>3, <3>1, <3>3
  <2>8. Rising(d)
    <3>1. \A m \in Apt(datalist), n \in Apt(<<x>>) : m < n
      BY <1>8, <2>3
    <3> QED  BY <1>3, <1>8, <2>1, <2>3, <3>1, RisingJoined
  <2>9. Encoder!TypesInv'
    BY <1>1, <1>2, <1>9, <1>18, <2>2, <2>4 DEF Encoder!EncoderInv, Encoder!TypesInv
  <2>10. Encoder!CountInv'
    BY <1>1, <1>3, <1>18, <2>2 DEF Encoder!CountInv
  <2>11. Encoder!UnitsInv'
    BY <1>1, <2>2, <2>6, UnitsNext
  <2>12. Encoder!PtsInv'
    <3>1. PtsOutside(emitted, Num(sent) \cup Num(d), Num(lost), Num(outpkts), pc, packet.pts)
      BY <1>4, <2>5
    <3> QED  BY <1>1, <1>4, <2>2, <3>1, PtsNext
  <2>13. Encoder!VideoClock'
    <3>1. VideoOf(video_timestamp, found, sent, Num(d) \cup Num(outpkts), lost, errors)
      BY <1>4, <2>5
    <3> QED  BY <1>1, <2>2, <3>1, VideoNext
  <2>14. Encoder!AudioClock'
    <3>1. AudioOf(audio_timestamp, audio_pts + 1, sent, d, errors, fault)
      BY <1>3, <1>4, <1>8, <2>7, <2>8, AudioQueued
    <3> QED  BY <1>1, <1>3, <1>18, <2>2, <3>1, AudioNext
  <2>15. Encoder!FrameNumbers'
    BY <1>1, <1>3, <1>4, <1>18, <2>2, FramesNext
  <2> QED
    BY <1>10, <1>11, <2>9, <2>10, <2>11, <2>12, <2>13, <2>14, <2>15 DEF Encoder!EncoderInv
<1> QED  BY <1>1, <1>13, <1>15, <1>17, <1>18

(* What onTimer sends for a video packet, with the sets ahead of a picture *)
(* that starts anew.                                                       *)
LEMMA VideoMessageIs ==
  ASSUME NEW p \in Encoder!VideoPackets, video_timestamp \in Nat
  PROVE  /\ Encoder!VideoMessage(p) \in Encoder!Messages
         /\ Encoder!VideoMessage(p).type = "video" /\ Encoder!VideoMessage(p).n = p.n
         /\ Encoder!VideoMessage(p).pts = p.pts /\ Encoder!VideoMessage(p).data = p.data
         /\ Encoder!VideoMessage(p).timestamp = video_timestamp
         /\ p.type = "video" /\ p.n \in Nat
         /\ p.keyframe_ \in BOOLEAN
         /\ p.keyframe_ <=> Encoder!NalType(p.data) = Encoder!IDR
         /\ p.keyframe_ => p.sets = Encoder!TheSets
<1>1. /\ p.type \in {"video"} /\ p.pts \in Nat /\ p.data \in Seq(Octets) /\ p.n \in Nat
      /\ p.keyframe_ \in BOOLEAN
      /\ p.keyframe_ <=> Encoder!NalType(p.data) = Encoder!IDR
      /\ p.keyframe_ <=> p.sets = Encoder!TheSets
  BY DEF Encoder!VideoPackets, Octets
<1>2. PICK x : x = Encoder!VideoMessage(p)
  OBVIOUS
<1>3. x = [type |-> "video", pts |-> p.pts, data |-> p.data, timestamp |-> video_timestamp,
           n |-> p.n]
  BY <1>2 DEF Encoder!VideoMessage
<1>4. x \in [type : {"video"}, pts : Nat, data : Seq(Octets), timestamp : Nat, n : Nat]
  BY <1>1, <1>3
<1>5. x \in Encoder!Messages
  BY <1>4 DEF Encoder!Messages, Octets
<1> QED  BY <1>1, <1>2, <1>3, <1>5

LEMMA SetsAhead ==
  ASSUME NEW se \in Seq(Encoder!Messages), NEW em, Fits(se, em), NEW s,
         s = Append(se, AvcMessage) \/ s = se
  PROVE  /\ s \in Seq(Encoder!Messages) /\ Num(s) = Num(se) /\ Fits(s, em) /\ Vid(s) = Vid(se)
         /\ \A k \in Vid(se) : s[k] = se[k]
         /\ \A k \in Aud(s) : k \in Aud(se) /\ s[k] = se[k]
<1>1. CASE s = se
  BY <1>1
<1>2. CASE s = Append(se, AvcMessage)
  <2>1. PICK x : x = AvcMessage
    OBVIOUS
  <2>2. x \in Encoder!Messages /\ x.type = "avc"
    BY <2>1 DEF AvcMessage, Encoder!Messages
  <2>3. x.type # "video" /\ x.type # "audio"
    BY <2>2
  <2>4. Append(se, x) \in Seq(Encoder!Messages)
    BY <2>2, WithOneMore
  <2>5. /\ Vid(Append(se, x)) = Vid(se) /\ Num(Append(se, x)) = Num(se)
        /\ \A k \in Vid(se) : Append(se, x)[k] = se[k]
    BY <2>2, <2>3, NoVideoMore
  <2>6. Fits(Append(se, x), em)
    BY <2>2, <2>3, FitsNoMore
  <2>7. \A k \in Aud(Append(se, x)) : k \in Aud(se) /\ Append(se, x)[k] = se[k]
    BY <2>2, <2>3, AudOfMore
  <2> QED  BY <1>2, <2>1, <2>4, <2>5, <2>6, <2>7
<1> QED  BY <1>1, <1>2

(* What is captured of audio is numbered.                                  *)
LEMMA AudioPtsAreNat ==
  ASSUME NEW s \in Seq(Encoder!VideoPackets \cup Encoder!AudioPackets)
  PROVE  Apt(s) \subseteq Nat
<1> SUFFICES ASSUME NEW m \in Apt(s) PROVE m \in Nat
  OBVIOUS
<1>1. PICK k \in Aud(s) : m = s[k].pts
  BY DEF Apt
<1>2. s[k] \in Encoder!VideoPackets \cup Encoder!AudioPackets /\ s[k].type = "audio"
  BY DEF Aud
<1>3. s[k] \notin Encoder!VideoPackets
  <2>1. \A p \in Encoder!VideoPackets : p.type \in {"video"}
    BY DEF Encoder!VideoPackets
  <2> QED  BY <1>2, <2>1
<1> QED  BY <1>1, <1>2, <1>3 DEF Encoder!AudioPackets

(* A turn of onTimer's loop.                                               *)
LEMMA MessageSent ==
  ASSUME Encoder!EncoderInv, Encoder!OnTimer
  PROVE  Encoder!EncoderInv'
<1>1. PICK p : p = Head(datalist)
  OBVIOUS
<1>2. PICK d : d = Tail(datalist)
  OBVIOUS
<1>3. PICK at : at = (IF Len(datalist) = 1 THEN "idle" ELSE "timer")
  OBVIOUS
<1>4. /\ ready' = ready /\ inside' = inside /\ video_pts' = video_pts /\ audio_pts' = audio_pts
      /\ packet' = packet /\ i' = i /\ nalus' = nalus /\ outpkts' = outpkts /\ lost' = lost
      /\ found' = found /\ emitted' = emitted /\ errors' = errors /\ fault' = fault
      /\ pc \in {"idle", "timer"} /\ ~fault /\ datalist # << >>
      /\ datalist' = d /\ pc' = at
      /\ p.type = "video" => Encoder!SendVideo(p)
      /\ p.type # "video" => Encoder!SendAudio(p)
  BY <1>1, <1>2, <1>3 DEF Encoder!OnTimer, Encoder!clocks, Encoder!parser
<1>5. PICK Q : Q = Encoder!VideoPackets \cup Encoder!AudioPackets
  OBVIOUS
<1>6. /\ datalist \in Seq(Q) /\ errors \in Nat /\ fault \in BOOLEAN /\ found \in Nat
      /\ emitted \in Seq([pts : Nat, data : Seq(Octets)]) /\ sent \in Seq(Encoder!Messages)
      /\ audio_pts \in Nat /\ Encoder!CountInv
  BY <1>5, TypesSay
<1>7. at \in {"idle", "timer"} /\ at # "parse" /\ pc # "parse" /\ fault = FALSE
  BY <1>3, <1>4, <1>6
<1>8. p \in Q /\ d \in Seq(Q)
  BY <1>1, <1>2, <1>4, <1>6, WithoutFirst
<1>9. /\ ParseOf(pc, i, nalus, packet, found, emitted, outpkts)
      /\ UnitsOf(sent, datalist, lost, outpkts, emitted, found)
      /\ PtsInside(inside, video_pts, emitted)
      /\ PtsOutside(emitted, Num(sent) \cup Num(datalist), Num(lost), Num(outpkts), pc,
                    packet.pts)
      /\ SetsOf(sent)
      /\ VideoOf(video_timestamp, found, sent, Num(datalist) \cup Num(outpkts), lost, errors)
      /\ AudioOf(audio_timestamp, audio_pts, sent, datalist, errors, fault)
      /\ FramesOf(errors, emitted, inside, video_pts, fault)
  BY PartsSay
<1>10. outpkts = << >> /\ Num(outpkts) = {}
  BY <1>4, <1>9, VidOfNone DEF ParseOf
<1>11. Encoder!ParseInv'
  <2>1. ParseOf(at, i, nalus, packet, found, emitted, outpkts)
    BY <1>7, <1>9, <1>10 DEF ParseOf
  <2> QED  BY <1>4, <2>1, ParseNext
<1>12. Encoder!FrameNumbers'
  BY <1>4, <1>6, <1>9, FramesNext
<1>13. Encoder!CountInv'
  BY <1>4, <1>6, <1>7 DEF Encoder!CountInv
<1>14. /\ Fits(sent, emitted) /\ Fits(datalist, emitted)
       /\ \A m \in Num(sent), n \in Num(datalist) : m < n
  BY <1>9 DEF UnitsOf
<1>15. /\ Fits(d, emitted)
       /\ p.type # "video" => Num(datalist) = Num(d)
       /\ p.type = "video" =>
            /\ Num(datalist) = Num(d) \cup {p.n} /\ \A n \in Num(d) : p.n < n
            /\ p.n \in DOMAIN emitted /\ emitted[p.n] = [pts |-> p.pts, data |-> p.data]
  BY <1>1, <1>2, <1>4, <1>6, <1>14, FitsFirst
<1>16. Rising(datalist)
  BY <1>9 DEF AudioOf
<1>17. /\ Rising(d)
       /\ p.type # "audio" => Apt(datalist) = Apt(d)
       /\ p.type = "audio" =>
            /\ Apt(datalist) = Apt(d) \cup {p.pts} /\ \A n \in Apt(d) : p.pts < n
  BY <1>1, <1>2, <1>4, <1>6, <1>16, RisingFirst
<1>18. video_timestamp \in Nat /\ audio_timestamp \in Nat
  <2>1. PICK v \in 0 .. found : video_timestamp = 40 * v
    BY <1>9 DEF VideoOf
  <2>2. PICK a \in 0 .. audio_pts : audio_timestamp = 20 * a
    BY <1>9 DEF AudioOf
  <2> QED  BY <1>6, <2>1, <2>2
(* What follows from the messages sent and what is left of the list.       *)
<1>19. ASSUME NEW r, r \in Seq(Encoder!Messages), sent' = r, SetsOf(r),
              UnitsOf(r, d, lost, outpkts, emitted, found),
              Num(sent) \cup Num(datalist) = Num(r) \cup Num(d),
              Encoder!VideoClock', Encoder!AudioClock'
       PROVE  Encoder!EncoderInv'
  <2>1. Encoder!TypesInv'
    BY <1>4, <1>5, <1>7, <1>8, <1>19 DEF Encoder!EncoderInv, Encoder!TypesInv
  <2>2. Encoder!UnitsInv'
    BY <1>4, <1>19, UnitsNext
  <2>3. Encoder!PtsInv'
    <3>1. PtsOutside(emitted, Num(r) \cup Num(d), Num(lost), Num(outpkts), pc, packet.pts)
      BY <1>9, <1>19
    <3>2. PtsOutside(emitted, Num(r) \cup Num(d), Num(lost), Num(outpkts), at, packet.pts)
      BY <1>7, <3>1 DEF PtsOutside
    <3> QED  BY <1>4, <1>9, <1>19, <3>2, PtsNext
  <2>4. Encoder!SetsInv'
    BY <1>19, SetsNext
  <2> QED
    BY <1>11, <1>12, <1>13, <1>19, <2>1, <2>2, <2>3, <2>4 DEF Encoder!EncoderInv
<1>20. CASE p.type = "video"
  <2>1. p \in Encoder!VideoPackets
    <3>1. \A q \in Encoder!AudioPackets : q.type \in {"audio"}
      BY DEF Encoder!AudioPackets
    <3> QED  BY <1>5, <1>8, <1>20, <3>1
  <2>2. PICK x : x = Encoder!VideoMessage(p)
    OBVIOUS
  <2>3. /\ x \in Encoder!Messages /\ x.type = "video" /\ x.n = p.n /\ x.pts = p.pts
        /\ x.data = p.data /\ x.timestamp = video_timestamp
        /\ p.keyframe_ \in BOOLEAN
        /\ p.keyframe_ <=> Encoder!NalType(x.data) = Encoder!IDR
        /\ p.keyframe_ => p.sets = Encoder!TheSets
    BY <1>18, <2>1, <2>2, VideoMessageIs
  <2>4. PICK s : s = IF Encoder!NalType(x.data) = Encoder!IDR THEN Append(sent, AvcMessage)
                     ELSE sent
    OBVIOUS
  <2>5. PICK r : r = Append(s, x)
    OBVIOUS
  <2>6. /\ sent' = r /\ video_timestamp' = video_timestamp + 40
        /\ audio_timestamp' = audio_timestamp
    <3>1. /\ sent' = Append(IF p.keyframe_ THEN Append(sent, [type |-> "avc", sets |-> p.sets])
                            ELSE sent, x)
          /\ video_timestamp' = video_timestamp + 40 /\ audio_timestamp' = audio_timestamp
      BY <1>4, <1>20, <2>2 DEF Encoder!SendVideo
    <3>2. CASE p.keyframe_
      BY <2>3, <2>4, <2>5, <3>1, <3>2 DEF AvcMessage
    <3>3. CASE ~p.keyframe_
      BY <2>3, <2>4, <2>5, <3>1, <3>3
    <3> QED  BY <3>2, <3>3
  <2>7. /\ s \in Seq(Encoder!Messages) /\ Num(s) = Num(sent) /\ Fits(s, emitted)
        /\ Vid(s) = Vid(sent) /\ \A k \in Vid(sent) : s[k] = sent[k]
        /\ \A k \in Aud(s) : k \in Aud(sent) /\ s[k] = sent[k]
    <3>1. s = Append(sent, AvcMessage) \/ s = sent
      BY <2>4
    <3> QED  BY <1>6, <1>14, <3>1, SetsAhead
  <2>8. r \in Seq(Encoder!Messages)
    BY <2>3, <2>5, <2>7, WithOneMore
  <2>9. /\ Vid(r) = Vid(s) \cup {Len(s) + 1} /\ r[Len(s) + 1] = x
        /\ \A k \in Vid(s) : r[k] = s[k]
        /\ Num(r) = Num(s) \cup {p.n}
    BY <2>3, <2>5, <2>7, OneVideoMore
  <2>10. \A k \in Aud(r) : k \in Aud(sent) /\ r[k] = sent[k]
    <3>1. x.type # "audio"
      BY <2>3
    <3>2. \A k \in Aud(Append(s, x)) : k \in Aud(s) /\ Append(s, x)[k] = s[k]
      BY <2>3, <2>7, <3>1, AudOfMore
    <3> QED  BY <2>5, <2>7, <3>2
  <2>11. SetsOf(r)
    <3>1. AvcMessage \in Encoder!Messages
      <4>1. PICK y : y = AvcMessage
        OBVIOUS
      <4>2. y \in [type : {"avc"}, sets : {Encoder!TheSets}]
        BY <4>1 DEF AvcMessage
      <4> QED  BY <4>1, <4>2 DEF Encoder!Messages
    <3> QED  BY <1>6, <1>9, <2>3, <2>4, <2>5, <3>1, SetsVideo
  <2>12. Fits(r, emitted)
    <3>1. p.n \in Num(datalist)
      BY <1>15, <1>20
    <3>2. \A m \in Num(s) : m < x.n
      BY <1>14, <2>3, <2>7, <3>1
    <3>3. x.n \in DOMAIN emitted /\ emitted[x.n] = [pts |-> x.pts, data |-> x.data]
      BY <1>15, <1>20, <2>3
    <3>4. /\ s \in Seq(Encoder!Messages) /\ x \in Encoder!Messages /\ x.type = "video"
          /\ Fits(s, emitted)
      BY <2>3, <2>7
    <3>5. Fits(Append(s, x), emitted)
      BY ONLY <3>2, <3>3, <3>4, FitsMore
    <3> QED  BY <2>5, <3>5
  <2>13. /\ Num(r) = Num(sent) \cup {p.n}
         /\ Num(datalist) = Num(d) \cup {p.n} /\ \A n \in Num(d) : p.n < n
    BY <1>15, <1>20, <2>7, <2>9
  <2>14. UnitsOf(r, d, lost, outpkts, emitted, found)
    BY <1>9, <1>15, <2>12, <2>13, UnitsSent
  <2>15. Num(sent) \cup Num(datalist) = Num(r) \cup Num(d)
    BY <2>13
  <2>16. Encoder!VideoClock'
    <3>1. (Num(sent) \cup Num(lost)) \cup (Num(datalist) \cup Num(outpkts)) = 1 .. found
      BY <1>9 DEF UnitsOf
    <3>2. Num(datalist) \cup Num(outpkts) = (Num(d) \cup Num(outpkts)) \cup {p.n}
      BY <2>13
    <3>3. \A m \in Num(d) \cup Num(outpkts) : p.n < m
      BY <1>10, <2>13
    <3>4. \A k \in Vid(r) : \/ k \in Vid(sent) /\ r[k] = sent[k]
                            \/ r[k].n = p.n /\ r[k].timestamp = video_timestamp
      BY <2>3, <2>7, <2>9
    <3>5. PICK queued : queued = Num(datalist) \cup Num(outpkts)
      OBVIOUS
    <3>6. PICK q : q = Num(d) \cup Num(outpkts)
      OBVIOUS
    <3>7. PICK n : n = p.n
      OBVIOUS
    <3>8. /\ found \in Nat /\ VideoOf(video_timestamp, found, sent, queued, lost, errors)
          /\ (Num(sent) \cup Num(lost)) \cup queued = 1 .. found
          /\ queued = q \cup {n} /\ (\A m \in q : n < m) /\ Num(r) = Num(sent) \cup {n}
          /\ \A k \in Vid(r) : \/ k \in Vid(sent) /\ r[k] = sent[k]
                               \/ r[k].n = n /\ r[k].timestamp = video_timestamp
      BY <1>6, <1>9, <2>13, <3>1, <3>2, <3>3, <3>4, <3>5, <3>6, <3>7
    <3>9. VideoOf(video_timestamp + 40, found, r, q, lost, errors)
      BY ONLY <3>8, VideoSent
    <3>10. VideoOf(video_timestamp + 40, found, r, Num(d) \cup Num(outpkts), lost, errors)
      BY <3>6, <3>9
    <3> QED  BY <1>4, <2>6, <3>10, VideoNext
  <2>17. Encoder!AudioClock'
    <3>1. Apt(d) = Apt(datalist)
      BY <1>17, <1>20
    <3>2. AudioOf(audio_timestamp, audio_pts, r, d, errors, fault)
      BY <1>9, <1>17, <2>10, <3>1, AudioSame
    <3> QED  BY <1>4, <1>6, <2>6, <3>2, AudioNext
  <2> QED  BY <1>19, <2>6, <2>8, <2>11, <2>14, <2>15, <2>16, <2>17
<1>21. CASE p.type # "video"
  <2>1. p \in Encoder!AudioPackets /\ p.type = "audio" /\ p.pts \in Nat
    <3>1. p \in Encoder!AudioPackets
      <4>1. \A q \in Encoder!VideoPackets : q.type \in {"video"}
        BY DEF Encoder!VideoPackets
      <4> QED  BY <1>5, <1>8, <1>21, <4>1
    <3> QED  BY <3>1 DEF Encoder!AudioPackets
  <2>2. PICK x : x = [type |-> "audio", pts |-> p.pts, timestamp |-> audio_timestamp]
    OBVIOUS
  <2>3. /\ x \in Encoder!Messages /\ x.type = "audio" /\ x.pts = p.pts
        /\ x.timestamp = audio_timestamp
    <3>1. x \in [type : {"audio"}, pts : Nat, timestamp : Nat]
      BY <1>18, <2>1, <2>2
    <3> QED  BY <2>2, <3>1 DEF Encoder!Messages
  <2>4. PICK r : r = Append(sent, x)
    OBVIOUS
  <2>5. /\ sent' = r /\ audio_timestamp' = audio_timestamp + 20
        /\ video_timestamp' = video_timestamp
    BY <1>4, <1>21, <2>2, <2>4 DEF Encoder!SendAudio
  <2>6. r \in Seq(Encoder!Messages)
    BY <1>6, <2>3, <2>4, WithOneMore
  <2>7. x.type # "video"
    BY <2>3
  <2>8. /\ Vid(r) = Vid(sent) /\ Num(r) = Num(sent) /\ \A k \in Vid(sent) : r[k] = sent[k]
    BY <1>6, <2>3, <2>4, <2>7, NoVideoMore
  <2>9. Fits(r, emitted)
    BY <1>6, <1>14, <2>3, <2>4, <2>7, FitsNoMore
  <2>10. SetsOf(r)
    BY <1>6, <1>9, <2>3, <2>4, SetsOther
  <2>11. Num(datalist) = Num(d)
    BY <1>15, <1>21
  <2>12. UnitsOf(r, d, lost, outpkts, emitted, found)
    <3>1. Fits(lost, emitted)
      BY <1>9 DEF UnitsOf
    <3> QED  BY <1>9, <1>15, <2>8, <2>9, <2>11, <3>1, UnitsSame
  <2>13. Num(sent) \cup Num(datalist) = Num(r) \cup Num(d)
    BY <2>8, <2>11
  <2>14. Encoder!VideoClock'
    <3>1. VideoOf(video_timestamp, found, sent, Num(d) \cup Num(outpkts), lost, errors)
      BY <1>9, <2>11
    <3>2. VideoOf(video_timestamp, found, r, Num(d) \cup Num(outpkts), lost, errors)
      BY <2>8, <3>1, VideoOther
    <3> QED  BY <1>4, <2>5, <3>2, VideoNext
  <2>15. Encoder!AudioClock'
    <3>1. \A k \in Aud(r) : \/ k \in Aud(sent) /\ r[k] = sent[k]
                            \/ r[k].pts = p.pts /\ r[k].timestamp = audio_timestamp
      <4>1. sent \in Seq(Encoder!Messages) /\ x \in Encoder!Messages
        BY <1>6, <2>3
      <4>2. \A k \in Aud(Append(sent, x)) :
               \/ k \in Aud(sent) /\ Append(sent, x)[k] = sent[k]
               \/ x.type = "audio" /\ Append(sent, x)[k] = x
        BY ONLY <4>1, AudOfMore
      <4> QED  BY <2>3, <2>4, <4>2
    <3>2. Apt(datalist) \subseteq Nat
      BY <1>5, <1>6, AudioPtsAreNat
    <3>3. PICK q : q = p.pts
      OBVIOUS
    <3>4. /\ AudioOf(audio_timestamp, audio_pts, sent, datalist, errors, FALSE)
          /\ audio_pts \in Nat /\ Apt(datalist) \subseteq Nat
          /\ Apt(datalist) = Apt(d) \cup {q} /\ (\A m \in Apt(d) : q < m) /\ Rising(d)
          /\ \A k \in Aud(r) : \/ k \in Aud(sent) /\ r[k] = sent[k]
                               \/ r[k].pts = q /\ r[k].timestamp = audio_timestamp
      BY <1>6, <1>7, <1>9, <1>17, <2>1, <3>1, <3>2, <3>3
    <3>5. AudioOf(audio_timestamp + 20, audio_pts, r, d, errors, FALSE)
      BY ONLY <3>4, AudioSent
    <3>6. AudioOf(audio_timestamp + 20, audio_pts, r, d, errors, fault)
      BY <1>7, <3>5
    <3> QED  BY <1>4, <1>6, <2>5, <3>6, AudioNext
  <2> QED  BY <1>19, <2>5, <2>6, <2>10, <2>12, <2>13, <2>14, <2>15
<1> QED  BY <1>20, <1>21

-----------------------------------------------------------------------------
(* The encoder begins with nothing captured, queued or sent.               *)
LEMMA EncoderInit == Encoder!Init => Encoder!EncoderInv
<1> SUFFICES ASSUME Encoder!Init PROVE Encoder!EncoderInv
  OBVIOUS
<1>1. PICK none : none = << >>
  OBVIOUS
<1>2. /\ ready \subseteq {"video", "audio"}
      /\ inside = none /\ video_pts = 0 /\ audio_pts = 0
      /\ pc = "idle" /\ packet = Encoder!NoPacket /\ i = 0 /\ nalus = none
      /\ outpkts = none /\ datalist = none /\ lost = none
      /\ video_timestamp = 0 /\ audio_timestamp = 0
      /\ found = 0 /\ emitted = none /\ sent = none /\ errors = 0 /\ fault = FALSE
  <2>1. ready \subseteq {"video", "audio"}
    BY DEF Encoder!Init, Encoder!OpenVideo, Encoder!OpenAudio
  <2> QED  BY <1>1, <2>1 DEF Encoder!Init
<1>3. Len(none) = 0 /\ DOMAIN none = {} /\ \A S : none \in Seq(S)
  BY <1>1
<1>4. Num(none) = {} /\ Vid(none) = {} /\ Fits(none, none)
  BY <1>1, <1>3, VidOfNone DEF Vid
<1>5. Aud(none) = {} /\ Apt(none) = {} /\ Rising(none)
  BY <1>3 DEF Aud, Apt, Rising
<1>6. Encoder!TypesInv
  <2>1. /\ none \in Seq(Encoder!Frames) /\ none \in Seq(0 .. 255)
        /\ none \in Seq(Encoder!VideoPackets)
        /\ none \in Seq(Encoder!VideoPackets \cup Encoder!AudioPackets)
        /\ none \in Seq([pts : Nat, data : Seq(0 .. 255)]) /\ none \in Seq(Encoder!Messages)
    BY <1>3
  <2>2. 0 \in Encoder!Times
    BY EncoderBound DEF Encoder!Times
  <2> QED  BY <1>2, <2>1, <2>2 DEF Encoder!TypesInv
<1>7. Encoder!CountInv
  BY <1>2, <1>3 DEF Encoder!CountInv
<1>8. Encoder!ParseInv
  BY <1>1, <1>2, <1>3 DEF Encoder!ParseInv
<1>9. Encoder!UnitsInv
  <2>1. UnitsOf(none, none, none, none, none, 0)
    BY <1>4 DEF UnitsOf
  <2>2. UnitsOf(sent, datalist, lost, outpkts, emitted, found)
    BY <1>2, <2>1
  <2> QED
    BY <2>2 DEF Encoder!UnitsInv, Encoder!Faithful, Encoder!Numbers, Encoder!Videos,
       Encoder!Gone, UnitsOf, Fits, Num, Vid
<1>10. Encoder!PtsInv
  <2>1. Encoder!Numbers(none) = {}
    BY <1>4 DEF Encoder!Numbers, Encoder!Videos, Num, Vid
  <2>2. Encoder!Gone = {}
    BY <1>2, <2>1 DEF Encoder!Gone
  <2> QED  BY <1>2, <1>3, <2>1, <2>2 DEF Encoder!PtsInv
<1>11. Encoder!SetsInv
  BY <1>1, <1>2, <1>3 DEF Encoder!SetsInv, Encoder!SetsBeforePicture, Encoder!Videos
<1>12. Encoder!VideoClock
  <2>1. VideoOf(0, 0, none, {} \cup {}, none, 0)
    BY <1>1, <1>4 DEF VideoOf
  <2>2. VideoOf(video_timestamp, found, sent, Num(datalist) \cup Num(outpkts), lost, errors)
    BY <1>2, <1>4, <2>1
  <2> QED
    BY <2>2 DEF Encoder!VideoClock, Encoder!Numbers, Encoder!Videos, VideoOf, Num, Vid
<1>13. Encoder!AudioClock
  <2>1. AudioOf(0, 0, none, none, 0, FALSE)
    BY <1>5 DEF AudioOf
  <2>2. AudioOf(audio_timestamp, audio_pts, sent, datalist, errors, fault)
    BY <1>2, <2>1
  <2> QED
    BY <1>2, <2>2 DEF Encoder!AudioClock, Encoder!AudioPts, Encoder!Audios, AudioOf, Rising,
       Apt, Aud
<1>14. Encoder!FrameNumbers
  BY <1>2, <1>3 DEF Encoder!FrameNumbers
<1> QED
  BY <1>6, <1>7, <1>8, <1>9, <1>10, <1>11, <1>12, <1>13, <1>14 DEF Encoder!EncoderInv

(* Nothing the encoder does not do changes it.                             *)
LEMMA EncoderRests ==
  ASSUME Encoder!EncoderInv, UNCHANGED encoder
  PROVE  Encoder!EncoderInv'
<1>1. /\ ready' = ready /\ inside' = inside /\ video_pts' = video_pts /\ audio_pts' = audio_pts
      /\ pc' = pc /\ packet' = packet /\ i' = i /\ nalus' = nalus /\ outpkts' = outpkts
      /\ datalist' = datalist /\ lost' = lost /\ video_timestamp' = video_timestamp
      /\ audio_timestamp' = audio_timestamp /\ found' = found /\ emitted' = emitted
      /\ sent' = sent /\ errors' = errors /\ fault' = fault
  BY DEF encoder
<1>2. fault \in BOOLEAN /\ Encoder!CountInv
  BY TypesSay
<1>3. Encoder!TypesInv'
  BY <1>1 DEF Encoder!EncoderInv, Encoder!TypesInv
<1>4. Encoder!CountInv'
  BY <1>1, <1>2 DEF Encoder!CountInv
<1>5. Encoder!ParseInv'
  BY <1>1, PartsSay, ParseNext
<1>6. Encoder!UnitsInv'
  BY <1>1, PartsSay, UnitsNext
<1>7. Encoder!PtsInv'
  BY <1>1, PartsSay, PtsNext
<1>8. Encoder!SetsInv'
  BY <1>1, PartsSay, SetsNext
<1>9. Encoder!VideoClock'
  BY <1>1, PartsSay, VideoNext
<1>10. Encoder!AudioClock'
  BY <1>1, <1>2, PartsSay, AudioNext
<1>11. Encoder!FrameNumbers'
  BY <1>1, <1>2, PartsSay, FramesNext
<1> QED
  BY <1>3, <1>4, <1>5, <1>6, <1>7, <1>8, <1>9, <1>10, <1>11 DEF Encoder!EncoderInv

LEMMA EncoderStep ==
  ASSUME Encoder!EncoderInv, Encoder!Next
  PROVE  Encoder!EncoderInv'
<1>1. CASE Encoder!YuvDataIsAvailable
  BY <1>1, VideoFrame
<1>2. CASE Encoder!ReceivePacket
  BY <1>2, PacketTaken
<1>3. CASE Encoder!ParseH264
  BY <1>3, PacketParsed
<1>4. CASE Encoder!ParseEnds
  BY <1>4, PacketDone
<1>5. CASE Encoder!EncodeReturns
  BY <1>5, EncodeDone
<1>6. CASE Encoder!RecordDataIsAvailable
  BY <1>6, AudioFrame
<1>7. CASE Encoder!OnTimer
  BY <1>7, MessageSent
<1> QED  BY <1>1, <1>2, <1>3, <1>4, <1>5, <1>6, <1>7 DEF Encoder!Next

-----------------------------------------------------------------------------
(* The properties follow from the invariant.                               *)
LEMMA NoMoreFoundThanEmitted ==
  ASSUME Encoder!EncoderInv
  PROVE  found \in Nat /\ Len(emitted) \in Nat /\ found <= Len(emitted)
<1>1. /\ found \in Nat /\ emitted \in Seq([pts : Nat, data : Seq(Octets)])
      /\ Len(emitted) \in Nat
  BY TypesSay
<1>2. UnitsOf(sent, datalist, lost, outpkts, emitted, found)
  BY PartsSay
<1>3. 1 .. found \subseteq DOMAIN emitted
  BY <1>2, FitsNumbers DEF UnitsOf
<1>4. DOMAIN emitted = 1 .. Len(emitted)
  BY <1>1, Places
<1>5. found = 0 \/ found \in 1 .. found
  BY <1>1
<1> QED  BY <1>1, <1>3, <1>4, <1>5

LEMMA TypesFollow == Encoder!EncoderInv => Encoder!TypeOK
<1> SUFFICES ASSUME Encoder!EncoderInv PROVE Encoder!TypeOK
  OBVIOUS
<1>1. /\ ready \subseteq {"video", "audio"} /\ fault \in BOOLEAN
      /\ pc \in {"idle", "encode", "parse", "timer"}
      /\ video_pts \in Nat /\ audio_pts \in Nat
      /\ video_pts <= MaxFrames /\ audio_pts <= MaxFrames
      /\ datalist \in Seq(Encoder!VideoPackets \cup Encoder!AudioPackets)
      /\ errors \in Nat /\ Len(inside) \in Nat /\ Encoder!CountInv
  BY TypesSay
<1>2. found \in Nat /\ Len(emitted) \in Nat /\ found <= Len(emitted)
  BY NoMoreFoundThanEmitted
<1>3. /\ Len(inside) <= video_pts /\ Len(emitted) + 2 * Len(inside) <= 2 * video_pts
      /\ errors <= video_pts + audio_pts
  BY <1>1 DEF Encoder!CountInv
<1>4. MaxFrames \in Nat
  BY EncoderBound
<1>5. /\ Len(inside) <= MaxFrames
      /\ errors \in 0 .. 2 * MaxFrames /\ found \in 0 .. 2 * MaxFrames
  BY <1>1, <1>2, <1>3, <1>4
<1>6. video_pts \in Encoder!Times /\ audio_pts \in Encoder!Times
  BY <1>1, <1>4 DEF Encoder!Times
<1>7. ASSUME NEW k \in Encoder!Videos(datalist)
      PROVE  datalist[k].keyframe_ <=> datalist[k].sets = [sps |-> Sps, pps |-> Pps]
  <2>1. k \in DOMAIN datalist /\ datalist[k].type = "video"
    BY DEF Encoder!Videos
  <2>2. datalist[k] \in Encoder!VideoPackets \cup Encoder!AudioPackets
    BY <1>1, <2>1, Places
  <2>3. \A q \in Encoder!AudioPackets : q.type \in {"audio"}
    BY DEF Encoder!AudioPackets
  <2>4. datalist[k] \in Encoder!VideoPackets
    BY <2>1, <2>2, <2>3
  <2> QED  BY <2>4 DEF Encoder!VideoPackets, Encoder!TheSets
<1>8. video_timestamp \in {40 * k : k \in 0 .. 2 * MaxFrames}
  <2>1. PICK v \in 0 .. found : video_timestamp = 40 * v
    BY DEF Encoder!EncoderInv, Encoder!VideoClock
  <2>2. v \in 0 .. 2 * MaxFrames
    BY <1>2, <1>4, <1>5, <2>1
  <2> QED  BY <2>1, <2>2
<1>9. audio_timestamp \in {20 * k : k \in 0 .. MaxFrames}
  <2>1. PICK a \in 0 .. audio_pts : audio_timestamp = 20 * a
    BY DEF Encoder!EncoderInv, Encoder!AudioClock
  <2>2. a \in 0 .. MaxFrames
    BY <1>1, <1>4, <2>1
  <2> QED  BY <2>1, <2>2
<1> QED  BY <1>1, <1>5, <1>6, <1>7, <1>8, <1>9 DEF Encoder!TypeOK

LEMMA UnitsFollow == Encoder!EncoderInv => Encoder!EveryUnitOnce
<1> SUFFICES ASSUME Encoder!EncoderInv PROVE Encoder!EveryUnitOnce
  OBVIOUS
<1>1. /\ Encoder!Faithful(sent) /\ Encoder!Faithful(datalist) /\ Encoder!Faithful(lost)
      /\ \A m \in Encoder!Numbers(sent), n \in Encoder!Numbers(datalist) : m < n
      /\ Encoder!Gone \cup Encoder!Numbers(outpkts) = 1 .. found
  BY DEF Encoder!EncoderInv, Encoder!UnitsInv
<1>2. \A m \in Encoder!Numbers(lost),
         n \in Encoder!Numbers(sent) \cup Encoder!Numbers(datalist) :
        emitted[m].pts # emitted[n].pts
  BY DEF Encoder!EncoderInv, Encoder!PtsInv
<1>3. ASSUME pc \in {"idle", "timer"} PROVE DOMAIN emitted = Encoder!Gone
  <2>1. outpkts = << >> /\ found = Len(emitted)
    BY <1>3 DEF Encoder!EncoderInv, Encoder!ParseInv
  <2>2. Encoder!Numbers(outpkts) = {}
    BY <2>1, VidOfNone DEF Encoder!Numbers, Encoder!Videos, Num, Vid
  <2>3. DOMAIN emitted = 1 .. Len(emitted)
    BY TypesSay, Places
  <2> QED  BY <1>1, <2>1, <2>2, <2>3
<1> QED  BY <1>1, <1>2, <1>3 DEF Encoder!EveryUnitOnce, Encoder!Gone

LEMMA StampsFollow == Encoder!EncoderInv => Encoder!StampsTellFrames
<1> SUFFICES ASSUME Encoder!EncoderInv, errors = 0, NEW k \in DOMAIN sent
             PROVE  /\ sent[k].type = "audio" => sent[k].timestamp = 20 * sent[k].pts
                    /\ sent[k].type = "video" /\ Encoder!OneUnitAFrame =>
                         sent[k].timestamp = 40 * sent[k].pts
  BY DEF Encoder!StampsTellFrames
<1>1. CASE sent[k].type = "audio"
  <2>1. k \in Aud(sent)
    BY <1>1 DEF Aud
  <2>2. \A j \in Aud(sent) : sent[j].timestamp = 20 * sent[j].pts
    BY PartsSay DEF AudioOf
  <2> QED  BY <1>1, <2>1, <2>2
<1>2. CASE sent[k].type = "video" /\ Encoder!OneUnitAFrame
  <2>1. k \in Vid(sent)
    BY <1>2 DEF Vid
  <2>2. sent[k].timestamp = 40 * (sent[k].n - 1)
    BY <2>1, PartsSay DEF VideoOf
  <2>3. sent[k].n \in DOMAIN emitted
        /\ emitted[sent[k].n] = [pts |-> sent[k].pts, data |-> sent[k].data]
    BY <2>1, PartsSay DEF UnitsOf, Fits
  <2>4. \A n \in DOMAIN emitted : emitted[n].pts = n - 1
    BY <1>2 DEF Encoder!EncoderInv, Encoder!FrameNumbers
  <2>5. emitted[sent[k].n].pts = sent[k].pts
    BY <2>3
  <2> QED  BY <1>2, <2>2, <2>3, <2>4, <2>5
<1> QED  BY <1>1, <1>2

-----------------------------------------------------------------------------
(* A device and an encoder together: each leaves the other's variables     *)
(* alone.                                                                  *)
LEMMA CaptureInit == MCInit => IInv /\ Encoder!EncoderInv
  BY InitInv, EncoderInit DEF MCInit

LEMMA CaptureStep ==
  ASSUME IInv, Encoder!EncoderInv, [MCNext]_all
  PROVE  IInv' /\ Encoder!EncoderInv'
<1>1. CASE Next /\ UNCHANGED encoder
  BY <1>1, StepInv, EncoderRests
<1>2. CASE Encoder!Next /\ UNCHANGED vars
  BY <1>2, StepInv, EncoderStep
<1>3. CASE UNCHANGED all
  <2>1. UNCHANGED vars /\ UNCHANGED encoder
    BY <1>3 DEF all
  <2> QED  BY <2>1, StepInv, EncoderRests
<1>4. MCNext => (Next /\ UNCHANGED encoder) \/ (Encoder!Next /\ UNCHANGED vars)
  BY DEF MCNext
<1> QED  BY <1>1, <1>2, <1>3, <1>4

\* Every reachable state of both satisfies the two invariants.
THEOREM CaptureInvariance == MCSpec => [](IInv /\ Encoder!EncoderInv)
  BY CaptureInit, CaptureStep, PTL DEF MCSpec

(* TypesOK: what the fields of a device and of an encoder hold, for any    *)
(* formats, units, numbers of calls and of frames.                         *)
THEOREM CaptureIsTyped == MCSpec => []TypesOK
<1>1. IInv /\ Encoder!EncoderInv => TypesOK
  BY TypesFollow DEF IInv, TypesOK
<1> QED
  BY <1>1, CaptureInvariance, PTL

(* UnitsSurvive: parseH264 finds every unit libx264 put in its packets,    *)
(* whatever the start codes and the zeros; onTimer sends each once, in     *)
(* order and behind its sets; and the time stamps tell the frame as long   *)
(* as every frame is one unit and no encode has failed.                    *)
THEOREM UnitsAreKept == MCSpec => []UnitsSurvive
<1>1. Encoder!EncoderInv => Encoder!SetsBeforePicture
  BY DEF Encoder!EncoderInv, Encoder!SetsInv
<1>2. IInv /\ Encoder!EncoderInv => UnitsSurvive
  BY <1>1, UnitsFollow, StampsFollow DEF UnitsSurvive
<1> QED
  BY <1>2, CaptureInvariance, PTL
=============================================================================
