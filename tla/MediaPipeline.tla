--------------------------- MODULE MediaPipeline ---------------------------
(***************************************************************************)
(* The media path of RtmpPublishClient between Publish.Start and its       *)
(* deletion.  One thread per capture device encodes frames under the       *)
(* device's mutex and queues a second share of each packet in datalist;    *)
(* the 20 ms timer on the loop thread sends and deletes what is queued.    *)
(* The share count is a plain int that both threads decrement: a load, a   *)
(* store, and a read that decides on delete.                               *)
(*                                                                         *)
(* A behaviour stops at its first use of freed memory.                     *)
(***************************************************************************)
EXTENDS Integers, Sequences, FiniteSets, SequencesExt

CONSTANTS
    Devices,       \* "video", with or without "audio"
    Batches,       \* how many packets one frame may be encoded to
    MaxPackets     \* bound: packets encoded by one device

ASSUME DevicesAssumption == "video" \in Devices /\ Devices \subseteq {"video", "audio"}
ASSUME BoundsAssumption == Batches \subseteq Nat /\ MaxPackets \in Nat

Packets == Devices \X (1..MaxPackets)

VARIABLES
    recording_, start_,   \* [device -> BOOLEAN]
    at,           \* where the device thread is
    mutex,        \* the device mutex: "free" or "thread"
    outpkts,      \* [device -> packets of the frame being handled]
    i,            \* [device -> position of the iterator in outpkts]
    encoded,      \* [device -> packets encoded so far]
    shareCnt,     \* [packet -> count]
    freed,        \* packets whose MediaPacketData is deleted
    datalist, data_mutex,
    loop,         \* where the loop thread is
    reg,          \* the value the loop or a device thread has loaded
    client,       \* "alive" or "freed"
    sent, overlap, faults,  \* history
    lost          \* history: packets made by an encode that then failed

thread == <<start_, at, mutex, outpkts, i, encoded>>
vars == <<recording_, thread, shareCnt, freed, datalist, data_mutex, loop, reg,
          client, sent, overlap, faults, lost>>

-----------------------------------------------------------------------------
(* The share count *)

\* Both threads are between their load and their decision on the same packet.
Decrementing(d) == at[d] \in {"store", "decide"}
LoopDecrementing == loop \in {"store", "decide"}

Touch(p) ==
    faults' = IF p \in freed THEN faults \cup {"use_after_free"} ELSE faults

Load(who, p) ==
    /\ reg' = [reg EXCEPT ![who] = shareCnt[p]]
    /\ Touch(p)
    /\ UNCHANGED <<shareCnt, freed>>

Store(who, p) ==
    /\ shareCnt' = [shareCnt EXCEPT ![p] = reg[who] - 1]
    /\ Touch(p)
    /\ UNCHANGED <<freed, reg>>

\* if (shareCnt <= 0) delete
Decide(p) ==
    /\ freed' = IF shareCnt[p] <= 0 THEN freed \cup {p} ELSE freed
    /\ Touch(p)
    /\ UNCHANGED <<shareCnt, reg>>

-----------------------------------------------------------------------------
(* A device thread *)

Current(d) == outpkts[d][i[d]]

\* AudioDeviceThread and VideoDeviceThread take the mutex, and the encoder
\* makes n packets of the frame, each with one share.
Made(d, n) == [k \in 1..n |-> <<d, encoded[d] + k>>]

Capture(d, n) ==
    /\ at[d] = "sleep" /\ start_[d] /\ mutex[d] = "free" /\ faults = {}
    /\ recording_[d] /\ encoded[d] + n <= MaxPackets
    /\ shareCnt' = [p \in Packets |-> IF p \in ToSet(Made(d, n)) THEN 1 ELSE shareCnt[p]]
    /\ encoded' = [encoded EXCEPT ![d] = @ + n]
    /\ mutex' = [mutex EXCEPT ![d] = "thread"]
    /\ UNCHANGED <<recording_, start_, freed, datalist, data_mutex, loop, reg, client,
                   sent, overlap, faults>>

Encode(d, n) ==
    /\ Capture(d, n)
    /\ outpkts' = [outpkts EXCEPT ![d] = Made(d, n)]
    /\ i' = [i EXCEPT ![d] = 1]
    /\ at' = [at EXCEPT ![d] = IF n = 0 THEN "check" ELSE "copy"]
    /\ UNCHANGED lost

\* encode fails behind its n-th packet: YuvDataIsAvailable and
\* RecordDataIsAvailable return, and with them goes the vector that alone has
\* the packets.
EncodeFails(d, n) ==
    /\ Capture(d, n)
    /\ lost' = lost \cup ToSet(Made(d, n))
    /\ outpkts' = [outpkts EXCEPT ![d] = <<>>]
    /\ at' = [at EXCEPT ![d] = "check"]
    /\ UNCHANGED i

\* The mutex taken with recording_ false: nothing to capture.
NoFrame(d) ==
    /\ at[d] = "sleep" /\ start_[d] /\ mutex[d] = "free" /\ faults = {}
    /\ ~recording_[d]
    /\ mutex' = [mutex EXCEPT ![d] = "thread"]
    /\ at' = [at EXCEPT ![d] = "check"]
    /\ UNCHANGED <<recording_, start_, outpkts, i, encoded, shareCnt, freed, datalist,
                   data_mutex, loop, reg, client, sent, overlap, faults, lost>>

\* YuvDataIsAvailable and RecordDataIsAvailable: copy() takes another share.
Copy(d) ==
    /\ at[d] = "copy" /\ faults = {}
    /\ shareCnt' = [shareCnt EXCEPT ![Current(d)] = @ + 1]
    /\ Touch(Current(d))
    /\ at' = [at EXCEPT ![d] = "push"]
    /\ UNCHANGED <<recording_, start_, mutex, outpkts, i, encoded, freed, datalist,
                   data_mutex, loop, reg, client, sent, overlap, lost>>

\* The copy is queued under data_mutex; after the last one freePackets begins.
Push(d) ==
    /\ at[d] = "push" /\ data_mutex = "free" /\ faults = {}
    /\ datalist' = Append(datalist, Current(d))
    /\ IF i[d] < Len(outpkts[d])
       THEN i' = [i EXCEPT ![d] = @ + 1] /\ at' = [at EXCEPT ![d] = "copy"]
       ELSE i' = [i EXCEPT ![d] = 1] /\ at' = [at EXCEPT ![d] = "load"]
    /\ UNCHANGED <<recording_, start_, mutex, outpkts, encoded, shareCnt, freed,
                   data_mutex, loop, reg, client, sent, overlap, faults, lost>>

\* freePackets deletes the first share of each packet, without a lock.
FreeLoad(d) ==
    /\ at[d] = "load" /\ faults = {}
    /\ Load(d, Current(d))
    /\ at' = [at EXCEPT ![d] = "store"]
    /\ overlap' = (overlap \/ (LoopDecrementing /\ Head(datalist) = Current(d)))
    /\ UNCHANGED <<recording_, start_, mutex, outpkts, i, encoded, datalist,
                   data_mutex, loop, client, sent, lost>>

FreeStore(d) ==
    /\ at[d] = "store" /\ faults = {}
    /\ Store(d, Current(d))
    /\ at' = [at EXCEPT ![d] = "decide"]
    /\ UNCHANGED <<recording_, start_, mutex, outpkts, i, encoded, datalist,
                   data_mutex, loop, client, sent, overlap, lost>>

FreeDecide(d) ==
    /\ at[d] = "decide" /\ faults = {}
    /\ Decide(Current(d))
    /\ IF i[d] < Len(outpkts[d])
       THEN i' = [i EXCEPT ![d] = @ + 1] /\ at' = [at EXCEPT ![d] = "load"]
       ELSE at' = [at EXCEPT ![d] = "check"] /\ UNCHANGED i
    /\ UNCHANGED <<recording_, start_, mutex, outpkts, encoded, datalist,
                   data_mutex, loop, client, sent, overlap, lost>>

\* Mutants: the mutex kept by a thread that ends; recording_ not looked at.
EndsHoldingLock(d) ==
    /\ at[d] = "check" /\ faults = {}
    /\ start_' = [start_ EXCEPT ![d] = recording_[d]]
    /\ at' = [at EXCEPT ![d] = IF recording_[d] THEN "sleep" ELSE "ended"]
    /\ mutex' = [mutex EXCEPT ![d] = IF recording_[d] THEN "free" ELSE "thread"]
    /\ outpkts' = [outpkts EXCEPT ![d] = <<>>]
    /\ UNCHANGED <<recording_, i, encoded, shareCnt, freed, datalist, data_mutex,
                   loop, reg, client, sent, overlap, faults, lost>>

NeverEnds(d) ==
    /\ at[d] = "check" /\ faults = {}
    /\ at' = [at EXCEPT ![d] = "sleep"]
    /\ mutex' = [mutex EXCEPT ![d] = "free"]
    /\ outpkts' = [outpkts EXCEPT ![d] = <<>>]
    /\ UNCHANGED <<recording_, start_, i, encoded, shareCnt, freed, datalist,
                   data_mutex, loop, reg, client, sent, overlap, faults, lost>>

\* The end of one turn of the thread's loop: it stops for good once recording_
\* is false, else it releases the mutex and sleeps.
EndTurn(d) ==
    /\ at[d] = "check" /\ faults = {}
    /\ start_' = [start_ EXCEPT ![d] = recording_[d]]
    /\ at' = [at EXCEPT ![d] = IF recording_[d] THEN "sleep" ELSE "ended"]
    /\ mutex' = [mutex EXCEPT ![d] = "free"]
    /\ outpkts' = [outpkts EXCEPT ![d] = <<>>]
    /\ UNCHANGED <<recording_, i, encoded, shareCnt, freed, datalist, data_mutex,
                   loop, reg, client, sent, overlap, faults, lost>>

-----------------------------------------------------------------------------
(* The loop thread *)

\* onTimer holds data_mutex until datalist is empty.
OnTimer ==
    /\ loop = "idle" /\ data_mutex = "free" /\ faults = {}
    /\ data_mutex' = "loop" /\ loop' = "send"
    /\ UNCHANGED <<recording_, thread, shareCnt, freed, datalist, reg, client, sent,
                   overlap, faults, lost>>

\* The packet at the front is encoded into RTMP messages and sent.
SendFront ==
    /\ loop = "send" /\ datalist # <<>> /\ faults = {}
    /\ sent' = Append(sent, Head(datalist))
    /\ Touch(Head(datalist))
    /\ loop' = "load"
    /\ UNCHANGED <<recording_, thread, shareCnt, freed, datalist, data_mutex, reg,
                   client, overlap, lost>>

\* delete share: ~MediaPacketShareData.
DeleteLoad ==
    /\ loop = "load" /\ faults = {}
    /\ Load("loop", Head(datalist))
    /\ loop' = "store"
    /\ overlap' = (overlap \/ \E d \in Devices :
                                 Decrementing(d) /\ Current(d) = Head(datalist))
    /\ UNCHANGED <<recording_, thread, datalist, data_mutex, client, sent, lost>>

DeleteStore ==
    /\ loop = "store" /\ faults = {}
    /\ Store("loop", Head(datalist))
    /\ loop' = "decide"
    /\ UNCHANGED <<recording_, thread, datalist, data_mutex, client, sent, overlap, lost>>

DeleteDecide ==
    /\ loop = "decide" /\ faults = {}
    /\ Decide(Head(datalist))
    /\ datalist' = Tail(datalist)
    /\ loop' = "send"
    /\ UNCHANGED <<recording_, thread, data_mutex, client, sent, overlap, lost>>

OnTimerEnds ==
    /\ loop = "send" /\ datalist = <<>> /\ faults = {}
    /\ data_mutex' = "free" /\ loop' = "idle"
    /\ UNCHANGED <<recording_, thread, shareCnt, freed, datalist, reg, client, sent,
                   overlap, faults, lost>>

\* onPublishStop: StopRecord for the video device, then for the audio device.
\* Each waits for the device mutex.
StopVideo ==
    /\ loop = "idle" /\ faults = {}
    /\ mutex["video"] = "free"
    /\ recording_' = [recording_ EXCEPT !["video"] = FALSE]
    /\ loop' = "stopping"
    /\ UNCHANGED <<thread, shareCnt, freed, datalist, data_mutex, reg, client, sent,
                   overlap, faults, lost>>

\* Mutant: StopRecord without the lock_guard.
StopsWithoutLock ==
    /\ loop = "stopping" /\ faults = {}
    /\ recording_' = [d \in Devices |-> FALSE]
    /\ loop' = "stopped"
    /\ UNCHANGED <<thread, shareCnt, freed, datalist, data_mutex, reg, client, sent,
                   overlap, faults, lost>>

StopAudio ==
    /\ loop = "stopping" /\ faults = {}
    /\ \A d \in Devices \ {"video"} : mutex[d] = "free"
    /\ recording_' = [d \in Devices |-> FALSE]
    /\ loop' = "stopped"
    /\ UNCHANGED <<thread, shareCnt, freed, datalist, data_mutex, reg, client, sent,
                   overlap, faults, lost>>

\* Mutant: the queue is forgotten.
DeletesWithoutQueue ==
    /\ loop = "stopped" /\ at["video"] = "ended" /\ faults = {}
    /\ client' = "freed" /\ loop' = "gone"
    /\ datalist' = <<>>
    /\ UNCHANGED <<recording_, thread, data_mutex, shareCnt, freed, reg, sent, overlap,
                   faults, lost>>

\* delete this, once the timer and the socket are closed: the video device is
\* deleted, which joins its thread; the audio device is not; then every share
\* left in datalist is.
DeleteClient ==
    LET left == ToSet(datalist)
    IN  /\ loop = "stopped" /\ at["video"] = "ended" /\ faults = {}
        /\ client' = "freed" /\ loop' = "gone"
        /\ shareCnt' = [p \in Packets |-> IF p \in left THEN shareCnt[p] - 1
                                                        ELSE shareCnt[p]]
        /\ freed' = freed \cup {p \in left : shareCnt'[p] <= 0}
        /\ faults' = IF left \cap freed # {} THEN {"use_after_free"} ELSE {}
        /\ datalist' = <<>>
        /\ UNCHANGED <<recording_, thread, data_mutex, reg, sent, overlap, lost>>

Idle ==
    /\ faults # {} \/ (client = "freed" /\ \A d \in Devices : at[d] = "ended")
    /\ UNCHANGED vars

-----------------------------------------------------------------------------
\* onPublishStart has just created the devices and their threads.
Init ==
    /\ recording_ = [d \in Devices |-> TRUE] /\ start_ = [d \in Devices |-> TRUE]
    /\ at = [d \in Devices |-> "sleep"] /\ mutex = [d \in Devices |-> "free"]
    /\ outpkts = [d \in Devices |-> <<>>] /\ i = [d \in Devices |-> 1]
    /\ encoded = [d \in Devices |-> 0]
    /\ shareCnt = [p \in Packets |-> 0] /\ freed = {}
    /\ datalist = <<>> /\ data_mutex = "free"
    /\ loop = "idle" /\ reg = [w \in Devices \cup {"loop"} |-> 0]
    /\ client = "alive"
    /\ sent = <<>> /\ overlap = FALSE /\ faults = {} /\ lost = {}

Thread(d) ==
    \/ \E n \in Batches : Encode(d, n) \/ EncodeFails(d, n)
    \/ NoFrame(d) \/ Copy(d) \/ Push(d)
    \/ FreeLoad(d) \/ FreeStore(d) \/ FreeDecide(d)
    \/ EndTurn(d)

Stopping == StopVideo \/ StopAudio \/ DeleteClient

Timer ==
    \/ OnTimer \/ SendFront
    \/ DeleteLoad \/ DeleteStore \/ DeleteDecide \/ OnTimerEnds

Next == (\E d \in Devices : Thread(d)) \/ Timer \/ Stopping \/ Idle

\* Every thread is scheduled; the mutexes are taken in turn by those waiting
\* for them, the timer callback ends, and a stop that has begun goes on.
Fairness ==
    /\ \A d \in Devices : WF_vars(Thread(d))
    /\ WF_vars(SendFront \/ DeleteLoad \/ DeleteStore \/ DeleteDecide \/ OnTimerEnds)
    /\ SF_vars(StopAudio) /\ WF_vars(DeleteClient)

Spec == Init /\ [][Next]_vars /\ Fairness

-----------------------------------------------------------------------------
(* Properties *)

InCallback == {"copy", "push", "load", "store", "decide"}

\* Types; a device thread is in a callback only with its mutex.
TypeOK ==
    /\ recording_ \in [Devices -> BOOLEAN] /\ start_ \in [Devices -> BOOLEAN]
    /\ at \in [Devices -> InCallback \cup {"sleep", "check", "ended"}]
    /\ mutex \in [Devices -> {"free", "thread"}]
    /\ \A d \in Devices : mutex[d] = "thread" <=> at[d] \in InCallback \cup {"check"}
    /\ \A d \in Devices : i[d] \in 1..(MaxPackets + 1) /\ encoded[d] \in 0..MaxPackets
    /\ shareCnt \in [Packets -> -1..2] /\ freed \subseteq Packets
    /\ datalist \in Seq(Packets) /\ data_mutex \in {"free", "loop"}
    /\ loop \in {"idle", "send", "load", "store", "decide", "stopping", "stopped", "gone"}
    /\ client \in {"alive", "freed"}
    /\ lost \subseteq Packets

\* A packet is used after it is freed only when the device thread and the
\* timer decrement its count at the same time.
OnlyRacesFault == faults # {} => overlap

\* Without that race every packet is deleted by the time the client and the
\* callbacks are gone, whether it was sent or still queued, but for those of an
\* encode that failed: they leak.
OnlyFailedLeak ==
    client = "freed" /\ ~overlap /\ faults = {} =>
        \A d \in Devices : \A k \in 1..encoded[d] :
            (<<d, k>> \in freed) = (<<d, k>> \notin lost)

\* StopRecord returns only between two callbacks and no callback starts after
\* it, so the deleted client is not called back, not even by the audio device
\* that outlives it.
NoCallbackAfterDelete ==
    client = "freed" => \A d \in Devices : at[d] \notin InCallback

\* Frames of one device are sent in the order of their capture, none twice.
SentInOrder ==
    \A a, b \in 1..Len(sent) :
       a < b /\ sent[a][1] = sent[b][1] => sent[a][2] < sent[b][2]

\* Together: but for that race, a packet is sent at most once, in order, and
\* freed once, unless the encode that made it failed.
PacketsShared == OnlyRacesFault /\ OnlyFailedLeak /\ SentInOrder

\* A stop never waits for ever for the mutex of a device, nor the deletion for
\* its thread.
StopEnds == (loop = "stopping") ~> (client = "freed" \/ faults # {})
=============================================================================
