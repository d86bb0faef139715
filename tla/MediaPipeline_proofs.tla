------------------------ MODULE MediaPipeline_proofs ------------------------
(***************************************************************************)
(* Proofs about MediaPipeline, for any set of devices, any sizes of frames *)
(* and any number of packets: who holds a share of which packet, in which  *)
(* order packets are queued, and when a device may still call back.        *)
(***************************************************************************)
EXTENDS MediaPipeline, TLAPS

-----------------------------------------------------------------------------
(* The inductive invariant *)

\* onTimer has the packet at the front of datalist in its hands.
Handling == loop \in {"load", "store", "decide"}

\* The number of the last packet before the frame being handled, and of the
\* packet the iterator is at.
Base(d) == encoded[d] - Len(outpkts[d])
Number(d) == Base(d) + i[d]

TypeInv ==
    /\ recording_ \in [Devices -> BOOLEAN] /\ start_ \in [Devices -> BOOLEAN]
    /\ at \in [Devices -> InCallback \cup {"sleep", "check", "ended"}]
    /\ mutex \in [Devices -> {"free", "thread"}]
    /\ outpkts \in [Devices -> Seq(Packets)]
    /\ i \in [Devices -> 1..(MaxPackets + 1)]
    /\ encoded \in [Devices -> 0..MaxPackets]
    /\ shareCnt \in [Packets -> -1..2] /\ freed \subseteq Packets
    /\ datalist \in Seq(Packets) /\ data_mutex \in {"free", "loop"}
    /\ loop \in {"idle", "send", "load", "store", "decide", "stopping", "stopped", "gone"}
    /\ reg \in [Devices \cup {"loop"} -> 0..2]
    /\ client \in {"alive", "freed"} /\ sent \in Seq(Packets)
    /\ overlap \in BOOLEAN /\ lost \subseteq Packets

\* A frame's packets are numbered from Base on, and the iterator is in them
\* during the callback.
FrameInv ==
    \A d \in Devices :
       /\ mutex[d] = "thread" <=> at[d] \in InCallback \cup {"check"}
       /\ Base(d) >= 0
       /\ \A j \in 1..Len(outpkts[d]) : outpkts[d][j] = <<d, Base(d) + j>>
       /\ at[d] \in InCallback => i[d] <= Len(outpkts[d])

\* The timer and the teardown.
LoopInv ==
    /\ data_mutex = "loop" <=> loop \in {"send", "load", "store", "decide"}
    /\ Handling => datalist # <<>>
    /\ loop = "gone" => datalist = <<>>
    /\ client = "freed" <=> loop = "gone"
    /\ loop = "stopping" => ~recording_["video"] /\ at["video"] \notin InCallback
    /\ loop \in {"stopped", "gone"} =>
         \A d \in Devices : ~recording_[d] /\ at[d] \notin InCallback

\* Copied and queued: packets that the callback is done with, and that have a
\* second share.
Pushed(d, k) ==
    k <= encoded[d] /\ (at[d] \in {"copy", "push"} => k < Number(d))
Done == {p \in Packets : Pushed(p[1], p[2])}
Copied(d, k) == Pushed(d, k) \/ (at[d] = "push" /\ k = Number(d))

\* The first place in datalist that is not sent yet.
First == IF Handling THEN 2 ELSE 1

Before(p, q) == p[1] = q[1] => p[2] < q[2]

\* sent, then datalist, then what is not queued yet.
OrderInv ==
    /\ \A a, b \in 1..Len(sent) : a < b => Before(sent[a], sent[b])
    /\ \A a, b \in 1..Len(datalist) : a < b => Before(datalist[a], datalist[b])
    /\ \A a \in 1..Len(sent) : \A b \in First..Len(datalist) :
          Before(sent[a], datalist[b])
    /\ \A a \in 1..Len(sent) : sent[a] \in Done
    /\ \A a \in 1..Len(datalist) : datalist[a] \in Done

\* Packets of a failed encode are in no list and are never freed: nobody has
\* them but the frame they were made for.
Live(p) == p \notin lost /\ p[2] <= encoded[p[1]]

LostInv ==
    /\ \A p \in freed : Live(p)
    /\ \A a \in 1..Len(datalist) : Live(datalist[a])
    /\ \A p \in lost : p[2] <= Base(p[1])

Born(d, k) == k <= encoded[d]

\* The thread's share of packet k is still counted.
ThreadHolds(d, k) ==
    /\ Born(d, k)
    /\ \/ at[d] \in {"copy", "push"} /\ k > Base(d)
       \/ at[d] \in {"load", "store"} /\ k >= Number(d)
       \/ at[d] = "decide" /\ k > Number(d)

\* So is the copy's, on its way to datalist or in it.
Queued(d, k) == \E b \in 1..Len(datalist) : datalist[b] = <<d, k>>
AtFront(d, k) == Handling /\ datalist[1] = <<d, k>>
QueueHolds(d, k) ==
    \/ at[d] = "push" /\ k = Number(d)
    \/ Queued(d, k) /\ ~(loop = "decide" /\ AtFront(d, k))

\* Either of them is about to store what it has loaded, or to decide on the deletion.
ThreadStores(d, k) == at[d] = "store" /\ k = Number(d)
LoopStores(d, k) == loop = "store" /\ AtFront(d, k)
ThreadDecides(d, k) == at[d] \in {"store", "decide"} /\ k = Number(d)
LoopDecides(d, k) == loop \in {"store", "decide"} /\ AtFront(d, k)

Ones(b) == IF b THEN 1 ELSE 0

\* Updates can be lost but none is invented: the count never falls below the
\* shares there are, nor does what a thread has loaded.
CountOf(d, k) ==
    /\ shareCnt[<<d, k>>] >= Ones(ThreadHolds(d, k)) + Ones(QueueHolds(d, k))
    /\ ~Copied(d, k) => shareCnt[<<d, k>>] <= 1
    /\ ThreadStores(d, k) => reg[d] >= 1 + Ones(QueueHolds(d, k))
    /\ LoopStores(d, k) => reg["loop"] >= 1 + Ones(ThreadHolds(d, k))

CountInv == \A d \in Devices : \A k \in 1..MaxPackets : CountOf(d, k)

\* Without an overlap it is exact, and a packet is freed when its last share is,
\* but for those of a failed encode.
ExactOf(d, k) ==
    /\ shareCnt[<<d, k>>] = Ones(ThreadHolds(d, k)) + Ones(QueueHolds(d, k))
    /\ ThreadStores(d, k) => reg[d] = shareCnt[<<d, k>>]
    /\ LoopStores(d, k) => reg["loop"] = shareCnt[<<d, k>>]
    /\ ~(ThreadDecides(d, k) /\ LoopDecides(d, k))
    /\ <<d, k>> \in freed <=>
         /\ Born(d, k)
         /\ ~ThreadHolds(d, k) /\ ~QueueHolds(d, k)
         /\ ~ThreadDecides(d, k) /\ ~LoopDecides(d, k)

Sound(d, k) == ~overlap /\ <<d, k>> \notin lost => ExactOf(d, k)

ExactInv == \A d \in Devices : \A k \in 1..MaxPackets : Sound(d, k)

IInv ==
    /\ TypeInv /\ FrameInv /\ LoopInv /\ OrderInv /\ LostInv
    /\ faults = {} => CountInv /\ ExactInv
    /\ faults # {} => overlap

-----------------------------------------------------------------------------
(* What the provers need to know of packets and sequences *)

\* The loop is no device, and the video device is always there.
LEMMA DeviceNames == "video" \in Devices /\ "loop" \notin Devices
BY DevicesAssumption

\* A packet is a device and a number.
LEMMA PacketParts ==
    /\ \A p \in Packets : /\ p[1] \in Devices /\ p[2] \in 1..MaxPackets
                          /\ p = <<p[1], p[2]>>
    /\ \A d \in Devices, k \in 1..MaxPackets : <<d, k>> \in Packets
BY DEF Packets

\* The packet the iterator is at, in the callback.
LEMMA CurrentIs ==
    ASSUME TypeInv, FrameInv, NEW d \in Devices, at[d] \in InCallback
    PROVE  /\ Current(d) = <<d, Number(d)>> /\ Current(d) \in Packets
           /\ Number(d) \in 1..MaxPackets /\ Number(d) <= encoded[d]
           /\ Base(d) \in Nat /\ Base(d) < Number(d)
<1>1. /\ outpkts[d] \in Seq(Packets) /\ i[d] \in 1..(MaxPackets + 1)
      /\ encoded[d] \in 0..MaxPackets /\ MaxPackets \in Nat
  BY BoundsAssumption DEF TypeInv
<1>2. Len(outpkts[d]) \in Nat /\ i[d] \in 1..Len(outpkts[d])
  BY <1>1 DEF FrameInv
<1>3. outpkts[d][i[d]] = <<d, Base(d) + i[d]>>
  BY <1>2 DEF FrameInv
<1>4. Number(d) \in 1..MaxPackets /\ Number(d) <= encoded[d] /\ Base(d) \in Nat
      /\ Base(d) < Number(d)
  <2>1. Base(d) = encoded[d] - Len(outpkts[d]) /\ Number(d) = Base(d) + i[d]
    BY DEF Base, Number
  <2>2. Base(d) >= 0
    BY DEF FrameInv
  <2> QED  BY ONLY <1>1, <1>2, <2>1, <2>2
<1> QED  BY <1>3, <1>4, PacketParts DEF Current, Number

\* The packet at the front of datalist, in the hands of the timer.
LEMMA FrontIs ==
    ASSUME TypeInv, LoopInv, Handling
    PROVE  /\ Head(datalist) = datalist[1] /\ Head(datalist) \in Packets
           /\ Len(datalist) \in Nat \ {0}
BY DEF TypeInv, LoopInv

\* A list without its first element.
LEMMA TailIs ==
    ASSUME NEW S, NEW s \in Seq(S), s # <<>>
    PROVE  /\ Tail(s) \in Seq(S) /\ Len(Tail(s)) = Len(s) - 1
           /\ \A a \in 1..Len(Tail(s)) : Tail(s)[a] = s[a + 1]
OBVIOUS

\* A list with one more element.
LEMMA AppendIs ==
    ASSUME NEW S, NEW s \in Seq(S), NEW e \in S
    PROVE  /\ Append(s, e) \in Seq(S) /\ Len(Append(s, e)) = Len(s) + 1
           /\ \A a \in 1..Len(s) : Append(s, e)[a] = s[a]
           /\ Append(s, e)[Len(s) + 1] = e
OBVIOUS

\* A function with one value replaced.
LEMMA ExceptIs ==
    ASSUME NEW S, NEW T, NEW f \in [S -> T], NEW x \in S, NEW v \in T
    PROVE  [f EXCEPT ![x] = v] \in [S -> T]
OBVIOUS

\* A share is counted once.
LEMMA OnesIs == \A b : Ones(b) \in {0, 1}
BY DEF Ones

-----------------------------------------------------------------------------
(* Initial states *)

\* Right after onPublishStart nothing is encoded, queued or counted.
THEOREM Initially == Init => IInv
<1> SUFFICES ASSUME Init PROVE IInv
  OBVIOUS
<1> USE BoundsAssumption, DeviceNames
<1>1. TypeInv
  <2>1. recording_ \in [Devices -> BOOLEAN] /\ start_ \in [Devices -> BOOLEAN]
    BY Zenon DEF Init
  <2>2. overlap \in BOOLEAN
    BY DEF Init
  <2>3. outpkts \in [Devices -> Seq(Packets)] /\ i \in [Devices -> 1..(MaxPackets + 1)]
        /\ encoded \in [Devices -> 0..MaxPackets] /\ shareCnt \in [Packets -> -1..2]
        /\ reg \in [Devices \cup {"loop"} -> 0..2]
    BY DEF Init
  <2> QED  BY <2>1, <2>2, <2>3 DEF Init, TypeInv, InCallback
<1>2. FrameInv
  BY DEF Init, FrameInv, InCallback, Base
<1>3. LoopInv
  BY DEF Init, LoopInv, Handling
<1>4. OrderInv
  BY DEF Init, OrderInv
<1>5. LostInv
  BY DEF Init, LostInv
<1>6. CountInv /\ ExactInv
  BY PacketParts DEF Init, CountInv, CountOf, ExactInv, Sound, ExactOf, ThreadHolds, QueueHolds,
     Queued,
     AtFront, ThreadStores, LoopStores, ThreadDecides, LoopDecides, Copied, Pushed, Born, Ones,
     Handling
<1> QED  BY <1>1, <1>2, <1>3, <1>4, <1>5, <1>6 DEF IInv, Init

-----------------------------------------------------------------------------
(* Types *)

\* The flags stay flags.
LEMMA FlagStep ==
    ASSUME TypeInv, Next
    PROVE  /\ recording_' \in [Devices -> BOOLEAN] /\ start_' \in [Devices -> BOOLEAN]
           /\ overlap' \in BOOLEAN
<1>1. /\ recording_ \in [Devices -> BOOLEAN] /\ start_ \in [Devices -> BOOLEAN]
      /\ overlap \in BOOLEAN
  BY DEF TypeInv
<1>2. ASSUME NEW d \in Devices, Thread(d)
      PROVE  recording_' = recording_ /\ overlap' \in BOOLEAN
  BY <1>1, <1>2 DEF Thread, Encode, EncodeFails, Capture, NoFrame, Copy, Push, FreeLoad,
     FreeStore, FreeDecide,
     EndTurn
<1>3. ASSUME NEW d \in Devices, Thread(d)
      PROVE  start_' = start_ \/ start_' = [start_ EXCEPT ![d] = recording_[d]]
  BY <1>3 DEF Thread, Encode, EncodeFails, Capture, NoFrame, Copy, Push, FreeLoad, FreeStore,
     FreeDecide, EndTurn
<1>4. ASSUME NEW d \in Devices
      PROVE  [start_ EXCEPT ![d] = recording_[d]] \in [Devices -> BOOLEAN]
  BY <1>1, Zenon
<1>5. ASSUME Timer
      PROVE  recording_' = recording_ /\ start_' = start_ /\ overlap' \in BOOLEAN
  BY <1>1, <1>5 DEF Timer, OnTimer, SendFront, DeleteLoad, DeleteStore, DeleteDecide,
     OnTimerEnds, thread
<1>6. ASSUME Stopping
      PROVE  /\ \/ recording_' = recording_
                \/ recording_' = [recording_ EXCEPT !["video"] = FALSE]
                \/ recording_' = [d \in Devices |-> FALSE]
             /\ start_' = start_ /\ overlap' = overlap
  BY <1>6 DEF Stopping, StopVideo, StopAudio, DeleteClient, thread
<1>7. /\ [recording_ EXCEPT !["video"] = FALSE] \in [Devices -> BOOLEAN]
      /\ [d \in Devices |-> FALSE] \in [Devices -> BOOLEAN]
  BY <1>1, Zenon
<1>8. CASE Idle
  BY <1>1, <1>8 DEF Idle, vars, thread
<1> QED  BY <1>1, <1>2, <1>3, <1>4, <1>5, <1>6, <1>7, <1>8, Zenon DEF Next

\* Positions, lists and counts keep their types; a count is at most two.
LEMMA TypeStep ==
    ASSUME TypeInv, FrameInv, LoopInv, faults = {} => CountInv, Next
    PROVE  TypeInv'
<1> USE BoundsAssumption, DeviceNames
<1>f. /\ recording_' \in [Devices -> BOOLEAN] /\ start_' \in [Devices -> BOOLEAN]
      /\ overlap' \in BOOLEAN
  BY FlagStep
<1>c. \A p \in Packets : faults = {} => shareCnt[p] \in 0..2
  <2> SUFFICES ASSUME NEW p \in Packets, faults = {} PROVE shareCnt[p] \in 0..2
    OBVIOUS
  <2>1. p[1] \in Devices /\ p[2] \in 1..MaxPackets /\ p = <<p[1], p[2]>>
    BY PacketParts
  <2>2. PICK d \in Devices, k \in 1..MaxPackets : p = <<d, k>>
    BY <2>1
  <2>3. shareCnt[p] >= Ones(ThreadHolds(d, k)) + Ones(QueueHolds(d, k))
    BY <2>2 DEF CountInv, CountOf
  <2>4. Ones(ThreadHolds(d, k)) \in {0, 1} /\ Ones(QueueHolds(d, k)) \in {0, 1}
    BY OnesIs
  <2>5. shareCnt[p] \in -1..2
    BY DEF TypeInv
  <2> QED  BY <2>3, <2>4, <2>5
<1>1. ASSUME NEW d \in Devices, NEW n \in Batches, Encode(d, n) \/ EncodeFails(d, n)
      PROVE  TypeInv'
  <2> DEFINE new == Made(d, n)
  <2>0. Capture(d, n)
    BY <1>1 DEF Encode, EncodeFails
  <2>1. n \in Nat /\ encoded[d] \in Nat /\ encoded[d] + n <= MaxPackets
    BY <2>0 DEF Capture, TypeInv
  <2>2. new \in Seq(Packets) /\ ToSet(new) \subseteq Packets /\ <<>> \in Seq(Packets)
    <3>1. \A k \in 1..n : <<d, encoded[d] + k>> \in Packets
      BY <2>1, PacketParts
    <3>2. new \in Seq(Packets)
      BY <2>1, <3>1 DEF Made
    <3>3. ToSet(new) \subseteq Packets
      BY <3>2 DEF ToSet
    <3> QED  BY <3>2, <3>3
  <2>3. outpkts' = [outpkts EXCEPT ![d] = new] \/ outpkts' = [outpkts EXCEPT ![d] = <<>>]
    BY <1>1 DEF Encode, EncodeFails
  <2>4. shareCnt' \in [Packets -> -1..2]
    BY <2>0 DEF Capture, TypeInv
  <2>5. lost' \subseteq Packets
    BY <1>1, <2>2 DEF Encode, EncodeFails, TypeInv
  <2> HIDE DEF new
  <2>6. outpkts' \in [Devices -> Seq(Packets)] /\ i' \in [Devices -> 1..(MaxPackets + 1)]
        /\ encoded' \in [Devices -> 0..MaxPackets]
    <3>1. i' = [i EXCEPT ![d] = 1] \/ i' = i
      BY <1>1 DEF Encode, EncodeFails
    <3>2. encoded' = [encoded EXCEPT ![d] = encoded[d] + n]
      BY <2>0 DEF Capture, TypeInv
    <3>3. encoded[d] + n \in 0..MaxPackets /\ 1 \in 1..(MaxPackets + 1)
      BY <2>1
    <3>4. i \in [Devices -> 1..(MaxPackets + 1)] /\ encoded \in [Devices -> 0..MaxPackets]
          /\ outpkts \in [Devices -> Seq(Packets)]
      BY DEF TypeInv
    <3>5. outpkts' \in [Devices -> Seq(Packets)]
      <4>1. PICK w \in Seq(Packets) : outpkts' = [outpkts EXCEPT ![d] = w]
        BY <2>2, <2>3
      <4> QED  BY <3>4, <4>1, ExceptIs
    <3>6. i' \in [Devices -> 1..(MaxPackets + 1)]
      BY <3>1, <3>3, <3>4, ExceptIs
    <3>7. encoded' \in [Devices -> 0..MaxPackets]
      BY <3>2, <3>3, <3>4, ExceptIs
    <3> QED  BY <3>5, <3>6, <3>7
  <2>7. mutex' \in [Devices -> {"free", "thread"}]
    BY <2>0 DEF Capture, TypeInv
  <2>8. at' \in [Devices -> InCallback \cup {"sleep", "check", "ended"}]
    BY <1>1 DEF Encode, EncodeFails, TypeInv, InCallback
  <2> QED  BY <2>0, <1>f, <2>4, <2>5, <2>6, <2>7, <2>8 DEF Capture, TypeInv
<1>2. ASSUME NEW d \in Devices, NoFrame(d) PROVE TypeInv'
  BY <1>2, <1>f DEF NoFrame, TypeInv, InCallback
<1>3. ASSUME NEW d \in Devices, Copy(d) PROVE TypeInv'
  <2>1. Current(d) = <<d, Number(d)>> /\ Current(d) \in Packets
        /\ Number(d) \in 1..MaxPackets
    BY <1>3, CurrentIs DEF Copy, InCallback
  <2>2. shareCnt[Current(d)] \in 0..1
    BY <1>3, <2>1, <1>c DEF Copy, CountInv, CountOf, Copied, Pushed, Number
  <2>3. shareCnt' = [shareCnt EXCEPT ![Current(d)] = @ + 1]
    BY <1>3 DEF Copy
  <2>4. shareCnt' \in [Packets -> -1..2]
    BY <2>1, <2>2, <2>3 DEF TypeInv
  <2> QED  BY <1>3, <1>f, <2>4 DEF Copy, TypeInv, InCallback
<1>4. ASSUME NEW d \in Devices, Push(d) PROVE TypeInv'
  <2>1. Current(d) \in Packets
    BY <1>4, CurrentIs DEF Push, InCallback
  <2>2. datalist' \in Seq(Packets)
    BY <1>4, <2>1, AppendIs DEF Push, TypeInv
  <2>3. Len(outpkts[d]) <= MaxPackets /\ Len(outpkts[d]) \in Nat
    BY DEF FrameInv, Base, TypeInv
  <2>4. i' \in [Devices -> 1..(MaxPackets + 1)]
    <3>1. at[d] \in InCallback /\ i[d] \in 1..(MaxPackets + 1)
      BY <1>4 DEF Push, InCallback, TypeInv
    <3>2. i[d] <= Len(outpkts[d])
      BY <3>1 DEF FrameInv
    <3>3. i' = i \/ i' = [i EXCEPT ![d] = 1]
          \/ (i[d] < Len(outpkts[d]) /\ i' = [i EXCEPT ![d] = i[d] + 1])
      BY <1>4 DEF Push, TypeInv
    <3>4. 1 \in 1..(MaxPackets + 1)
          /\ (i[d] < Len(outpkts[d]) => i[d] + 1 \in 1..(MaxPackets + 1))
      BY <3>1, <2>3
    <3>5. [i EXCEPT ![d] = 1] \in [Devices -> 1..(MaxPackets + 1)]
      BY <3>4, ExceptIs DEF TypeInv
    <3>6. ASSUME i[d] < Len(outpkts[d])
          PROVE  [i EXCEPT ![d] = i[d] + 1] \in [Devices -> 1..(MaxPackets + 1)]
      BY <3>4, <3>6, ExceptIs DEF TypeInv
    <3>7. i \in [Devices -> 1..(MaxPackets + 1)]
      BY DEF TypeInv
    <3> QED  BY <3>3, <3>5, <3>6, <3>7
  <2>5. at' \in [Devices -> InCallback \cup {"sleep", "check", "ended"}]
    <3>1. at' = [at EXCEPT ![d] = "copy"] \/ at' = [at EXCEPT ![d] = "load"]
      BY <1>4 DEF Push, TypeInv
    <3> DEFINE Places == InCallback \cup {"sleep", "check", "ended"}
    <3>2. "copy" \in Places /\ "load" \in Places
      BY DEF InCallback
    <3>3. at \in [Devices -> Places]
      BY DEF TypeInv
    <3> HIDE DEF Places
    <3>4. at' \in [Devices -> Places]
      BY <3>1, <3>2, <3>3, ExceptIs
    <3> QED  BY <3>4 DEF Places
  <2> QED  BY <1>4, <1>f, <2>2, <2>4, <2>5 DEF Push, TypeInv, InCallback
<1>5. ASSUME NEW d \in Devices, FreeLoad(d) PROVE TypeInv'
  <2>1. Current(d) \in Packets
    BY <1>5, CurrentIs DEF FreeLoad, InCallback
  <2>2. shareCnt[Current(d)] \in 0..2
    BY <1>5, <2>1, <1>c DEF FreeLoad
  <2> QED  BY <1>5, <1>f, <2>2 DEF FreeLoad, Load, TypeInv, InCallback
<1>6. ASSUME NEW d \in Devices, FreeStore(d) PROVE TypeInv'
  <2>1. Current(d) \in Packets /\ reg[d] \in 0..2
    BY <1>6, CurrentIs DEF FreeStore, InCallback, TypeInv
  <2> QED  BY <1>6, <1>f, <2>1 DEF FreeStore, Store, TypeInv, InCallback
<1>7. ASSUME NEW d \in Devices, FreeDecide(d) PROVE TypeInv'
  <2>1. Current(d) \in Packets
    BY <1>7, CurrentIs DEF FreeDecide, InCallback
  <2>2. Len(outpkts[d]) <= MaxPackets /\ Len(outpkts[d]) \in Nat
    BY DEF FrameInv, Base, TypeInv
  <2>3. i' \in [Devices -> 1..(MaxPackets + 1)]
    <3>1. at[d] \in InCallback /\ i[d] \in 1..(MaxPackets + 1)
      BY <1>7 DEF FreeDecide, InCallback, TypeInv
    <3>2. i[d] <= Len(outpkts[d])
      BY <3>1 DEF FrameInv
    <3>3. i' = i \/ i' = [i EXCEPT ![d] = 1]
          \/ (i[d] < Len(outpkts[d]) /\ i' = [i EXCEPT ![d] = i[d] + 1])
      BY <1>7 DEF FreeDecide, TypeInv
    <3>4. 1 \in 1..(MaxPackets + 1)
          /\ (i[d] < Len(outpkts[d]) => i[d] + 1 \in 1..(MaxPackets + 1))
      BY <3>1, <2>2
    <3>5. [i EXCEPT ![d] = 1] \in [Devices -> 1..(MaxPackets + 1)]
      BY <3>4, ExceptIs DEF TypeInv
    <3>6. ASSUME i[d] < Len(outpkts[d])
          PROVE  [i EXCEPT ![d] = i[d] + 1] \in [Devices -> 1..(MaxPackets + 1)]
      BY <3>4, <3>6, ExceptIs DEF TypeInv
    <3>7. i \in [Devices -> 1..(MaxPackets + 1)]
      BY DEF TypeInv
    <3> QED  BY <3>3, <3>5, <3>6, <3>7
  <2>4. at' \in [Devices -> InCallback \cup {"sleep", "check", "ended"}]
    <3>1. at' = [at EXCEPT ![d] = "load"] \/ at' = [at EXCEPT ![d] = "check"]
      BY <1>7 DEF FreeDecide, TypeInv
    <3> DEFINE Places == InCallback \cup {"sleep", "check", "ended"}
    <3>2. "load" \in Places /\ "check" \in Places
      BY DEF InCallback
    <3>3. at \in [Devices -> Places]
      BY DEF TypeInv
    <3> HIDE DEF Places
    <3>4. at' \in [Devices -> Places]
      BY <3>1, <3>2, <3>3, ExceptIs
    <3> QED  BY <3>4 DEF Places
  <2> QED  BY <1>7, <1>f, <2>1, <2>3, <2>4 DEF FreeDecide, Decide, TypeInv, InCallback
<1>8. ASSUME NEW d \in Devices, EndTurn(d) PROVE TypeInv'
  BY <1>8, <1>f DEF EndTurn, TypeInv, InCallback
<1>9. CASE OnTimer \/ OnTimerEnds
  BY <1>9, <1>f DEF OnTimer, OnTimerEnds, thread, TypeInv
<1>10. CASE SendFront
  <2>1. Head(datalist) \in Packets
    BY <1>10 DEF SendFront, TypeInv
  <2> QED  BY <1>10, <1>f, <2>1, AppendIs DEF SendFront, thread, TypeInv
<1>11. CASE DeleteLoad
  <2>1. Head(datalist) \in Packets /\ shareCnt[Head(datalist)] \in 0..2
    BY <1>11, <1>c, FrontIs DEF DeleteLoad, Handling
  <2> QED  BY <1>11, <1>f, <2>1 DEF DeleteLoad, Load, thread, TypeInv
<1>12. CASE DeleteStore
  <2>1. Head(datalist) \in Packets /\ reg["loop"] \in 0..2
    BY <1>12, FrontIs DEF DeleteStore, Handling, TypeInv
  <2> QED  BY <1>12, <1>f, <2>1 DEF DeleteStore, Store, thread, TypeInv
<1>13. CASE DeleteDecide
  <2>1. Head(datalist) \in Packets /\ datalist # <<>>
    BY <1>13, FrontIs DEF DeleteDecide, Handling, LoopInv
  <2>2. Tail(datalist) \in Seq(Packets)
    BY <2>1, TailIs DEF TypeInv
  <2> QED  BY <1>13, <1>f, <2>1, <2>2 DEF DeleteDecide, Decide, thread, TypeInv
<1>14. CASE StopVideo \/ StopAudio
  BY <1>14, <1>f DEF StopVideo, StopAudio, thread, TypeInv
<1>15. CASE DeleteClient
  <2>1. shareCnt' \in [Packets -> -1..2]
    BY <1>15, <1>c DEF DeleteClient, TypeInv
  <2>2. freed' \subseteq Packets
    <3>1. ToSet(datalist) \subseteq Packets
      BY DEF ToSet, TypeInv
    <3>2. freed' \subseteq freed \cup ToSet(datalist)
      BY <1>15 DEF DeleteClient
    <3> QED  BY <3>1, <3>2 DEF TypeInv
  <2> QED  BY <1>15, <1>f, <2>1, <2>2 DEF DeleteClient, thread, TypeInv
<1>16. CASE Idle
  BY <1>16 DEF Idle, vars, thread, TypeInv
<1> QED
  BY <1>1, <1>2, <1>3, <1>4, <1>5, <1>6, <1>7, <1>8, <1>9, <1>10, <1>11, <1>12, <1>13,
     <1>14, <1>15, <1>16 DEF Next, Thread, Timer, Stopping

-----------------------------------------------------------------------------
(* Frames and their packets *)

\* The encoder numbers a frame's packets on from the last one; the callback
\* only moves the iterator.
LEMMA FrameStep ==
    ASSUME TypeInv, FrameInv, Next
    PROVE  FrameInv'
<1> USE BoundsAssumption
<1> DEFINE Frame(d) ==
       /\ mutex[d] = "thread" <=> at[d] \in InCallback \cup {"check"}
       /\ Base(d) >= 0
       /\ \A j \in 1..Len(outpkts[d]) : outpkts[d][j] = <<d, Base(d) + j>>
       /\ at[d] \in InCallback => i[d] <= Len(outpkts[d])
<1>1. ASSUME NEW d \in Devices, Thread(d), NEW e \in Devices, e # d
      PROVE  Frame(e)'
  <2>1. /\ mutex'[e] = mutex[e] /\ at'[e] = at[e] /\ outpkts'[e] = outpkts[e]
        /\ i'[e] = i[e] /\ encoded'[e] = encoded[e]
    BY <1>1 DEF Thread, Encode, EncodeFails, Capture, NoFrame, Copy, Push, FreeLoad, FreeStore,
       FreeDecide, EndTurn,
       TypeInv
  <2> QED  BY <2>1 DEF FrameInv, Base
<1>2. ASSUME NEW d \in Devices, NEW n \in Batches, Encode(d, n) \/ EncodeFails(d, n)
      PROVE  Frame(d)'
  <2>1. n \in Nat /\ encoded[d] \in Nat
    BY DEF TypeInv
  <2>2. encoded'[d] = encoded[d] + n /\ mutex'[d] = "thread"
    BY <1>2 DEF Encode, EncodeFails, Capture, TypeInv
  <2>3. CASE Encode(d, n)
    <3>1. /\ outpkts'[d] = [k \in 1..n |-> <<d, encoded[d] + k>>] /\ i'[d] = 1
          /\ at'[d] = IF n = 0 THEN "check" ELSE "copy"
      BY <2>3 DEF Encode, Made, TypeInv
    <3>2. Len(outpkts'[d]) = n
      BY <2>1, <3>1
    <3>3. Base(d)' = encoded[d]
      BY <2>1, <2>2, <3>2 DEF Base
    <3> QED  BY <2>1, <2>2, <3>1, <3>2, <3>3 DEF InCallback
  <2>4. CASE EncodeFails(d, n)
    <3>1. outpkts'[d] = <<>> /\ at'[d] = "check"
      BY <2>4 DEF EncodeFails, TypeInv
    <3> QED  BY <2>1, <2>2, <3>1 DEF Base, InCallback
  <2> QED  BY <1>2, <2>3, <2>4
<1>3. ASSUME NEW d \in Devices, NoFrame(d)
      PROVE  Frame(d)'
  <2>1. outpkts' = outpkts /\ encoded' = encoded /\ mutex'[d] = "thread" /\ at'[d] = "check"
    BY <1>3 DEF NoFrame, TypeInv
  <2> QED  BY <2>1 DEF FrameInv, Base, InCallback
<1>4. ASSUME NEW d \in Devices, Copy(d) \/ Push(d) \/ FreeLoad(d) \/ FreeStore(d) \/ FreeDecide(d)
      PROVE  Frame(d)'
  <2>1. outpkts' = outpkts /\ encoded' = encoded /\ mutex' = mutex
    BY <1>4 DEF Copy, Push, FreeLoad, FreeStore, FreeDecide
  <2>2. at[d] \in InCallback /\ at'[d] \in InCallback \cup {"check"}
    BY <1>4 DEF Copy, Push, FreeLoad, FreeStore, FreeDecide, TypeInv, InCallback
  <2>3. i'[d] = i[d] \/ i'[d] = 1 \/ (i[d] < Len(outpkts[d]) /\ i'[d] = i[d] + 1)
    BY <1>4 DEF Copy, Push, FreeLoad, FreeStore, FreeDecide, TypeInv
  <2>4. i[d] \in 1..Len(outpkts[d]) /\ Len(outpkts[d]) \in Nat
    BY <2>2 DEF FrameInv, TypeInv
  <2>5. i'[d] <= Len(outpkts[d])
    BY <2>3, <2>4
  <2> QED  BY <2>1, <2>2, <2>5 DEF FrameInv, Base
<1>5. ASSUME NEW d \in Devices, EndTurn(d)
      PROVE  Frame(d)'
  <2>1. /\ outpkts'[d] = <<>> /\ encoded' = encoded /\ mutex'[d] = "free"
        /\ at'[d] \in {"sleep", "ended"} /\ encoded[d] \in Nat
    BY <1>5 DEF EndTurn, TypeInv
  <2> QED  BY <2>1 DEF Base, InCallback
<1>6. ASSUME UNCHANGED <<mutex, at, outpkts, i, encoded>>
      PROVE  FrameInv'
  BY <1>6 DEF FrameInv, Base
<1>7. CASE Timer \/ Stopping \/ Idle
  BY <1>6, <1>7 DEF Timer, OnTimer, SendFront, DeleteLoad, DeleteStore, DeleteDecide,
     OnTimerEnds, Stopping, StopVideo, StopAudio, DeleteClient, Idle, vars, thread
<1>8. ASSUME NEW d \in Devices, Thread(d)
      PROVE  FrameInv'
  <2>1. Frame(d)'
    BY <1>2, <1>3, <1>4, <1>5, <1>8 DEF Thread
  <2>2. \A e \in Devices : Frame(e)'
    BY <1>1, <1>8, <2>1
  <2> QED  BY <2>2 DEF FrameInv
<1> QED  BY <1>7, <1>8 DEF Next

-----------------------------------------------------------------------------
(* The timer and the teardown *)

\* The timer has something in its hands while it handles it, and once a device
\* is stopped its thread is between two callbacks and begins no other.
LEMMA LoopStep ==
    ASSUME TypeInv, FrameInv, LoopInv, Next
    PROVE  LoopInv'
<1> USE DeviceNames
<1>1. ASSUME NEW d \in Devices, Thread(d)
      PROVE  LoopInv'
  <2>1. UNCHANGED <<recording_, loop, data_mutex, client>>
    BY <1>1 DEF Thread, Encode, EncodeFails, Capture, NoFrame, Copy, Push, FreeLoad, FreeStore,
       FreeDecide, EndTurn
  <2>2. datalist' = datalist \/ (at[d] = "push" /\ datalist' = Append(datalist, Current(d)))
    BY <1>1 DEF Thread, Encode, EncodeFails, Capture, NoFrame, Copy, Push, FreeLoad, FreeStore,
       FreeDecide, EndTurn
  <2>3. at[d] = "push" => Append(datalist, Current(d)) # <<>>
    <3> SUFFICES ASSUME at[d] = "push" PROVE Append(datalist, Current(d)) # <<>>
      OBVIOUS
    <3>1. Current(d) \in Packets /\ datalist \in Seq(Packets)
      BY CurrentIs DEF InCallback, TypeInv
    <3>2. Len(Append(datalist, Current(d))) = Len(datalist) + 1 /\ Len(datalist) \in Nat
      BY <3>1
    <3>3. Len(<<>>) = 0
      OBVIOUS
    <3>4. ASSUME Append(datalist, Current(d)) = <<>> PROVE FALSE
      BY <3>2, <3>3, <3>4
    <3> QED  BY <3>4, Zenon
  <2>4. ~recording_[d] /\ at[d] \notin InCallback => at'[d] \notin InCallback
    BY <1>1 DEF Thread, Encode, EncodeFails, Capture, NoFrame, Copy, Push, FreeLoad, FreeStore,
       FreeDecide, EndTurn,
       InCallback, TypeInv
  <2>5. \A e \in Devices \ {d} : at'[e] = at[e]
    BY <1>1 DEF Thread, Encode, EncodeFails, Capture, NoFrame, Copy, Push, FreeLoad, FreeStore,
       FreeDecide, EndTurn,
       TypeInv
  <2>6. loop \in {"stopped", "gone"} => datalist' = datalist
    BY <2>2 DEF LoopInv, InCallback
  <2> QED  BY <2>1, <2>2, <2>3, <2>4, <2>5, <2>6 DEF LoopInv, Handling
<1>2. CASE OnTimer \/ OnTimerEnds \/ SendFront \/ DeleteLoad \/ DeleteStore \/ DeleteDecide
  BY <1>2 DEF OnTimer, OnTimerEnds, SendFront, DeleteLoad, DeleteStore, DeleteDecide, thread,
     LoopInv, Handling, TypeInv
<1>3. CASE StopVideo
  <2>1. at["video"] \notin InCallback
    BY <1>3 DEF StopVideo, FrameInv
  <2>2. recording_'["video"] = FALSE
    BY <1>3, Zenon DEF StopVideo, TypeInv
  <2> QED  BY <1>3, <2>1, <2>2 DEF StopVideo, thread, LoopInv, Handling
<1>4. CASE StopAudio
  <2>1. \A d \in Devices : at[d] \notin InCallback
    BY <1>4 DEF StopAudio, FrameInv, LoopInv
  <2>2. \A d \in Devices : ~recording_'[d]
    BY <1>4 DEF StopAudio
  <2> QED  BY <1>4, <2>1, <2>2 DEF StopAudio, thread, LoopInv, Handling
<1>5. CASE DeleteClient
  BY <1>5 DEF DeleteClient, thread, LoopInv, Handling
<1>6. CASE Idle
  BY <1>6 DEF Idle, vars, thread, LoopInv, Handling
<1> QED  BY <1>1, <1>2, <1>3, <1>4, <1>5, <1>6 DEF Next, Timer, Stopping

-----------------------------------------------------------------------------
(* The order of packets *)

\* What is queued stays so: a frame begins after the packets before it, and
\* the iterator only moves on.
LEMMA PushedStays ==
    ASSUME TypeInv, FrameInv, Next, NEW e \in Devices, NEW k \in Nat, Pushed(e, k)
    PROVE  Pushed(e, k)'
<1>1. /\ encoded[e] \in Nat /\ i[e] \in Nat /\ Base(e) \in Int /\ Number(e) = Base(e) + i[e]
      /\ Len(outpkts[e]) \in Nat /\ Base(e) = encoded[e] - Len(outpkts[e])
  BY DEF TypeInv, Base, Number
<1>2. ASSUME UNCHANGED <<at[e], outpkts[e], i[e], encoded[e]>>
      PROVE  Pushed(e, k)'
  BY <1>2 DEF Pushed, Number, Base
<1>3. ASSUME NEW d \in Devices, Thread(d), d # e
      PROVE  UNCHANGED <<at[e], outpkts[e], i[e], encoded[e]>>
  BY <1>3 DEF Thread, Encode, EncodeFails, Capture, NoFrame, Copy, Push, FreeLoad, FreeStore,
     FreeDecide, EndTurn,
     TypeInv
<1>4. ASSUME NEW n \in Batches, Encode(e, n)
      PROVE  Pushed(e, k)'
  <2>1. n \in Nat /\ at[e] = "sleep"
    BY <1>4, BoundsAssumption DEF Encode, Capture
  <2>2. /\ outpkts'[e] = [j \in 1..n |-> <<e, encoded[e] + j>>]
        /\ encoded'[e] = encoded[e] + n /\ i'[e] = 1
    BY <1>4 DEF Encode, Capture, Made, TypeInv
  <2>3. Len(outpkts'[e]) = n
    BY <2>1, <2>2
  <2>4. Number(e)' = encoded[e] + 1
    BY <1>1, <2>1, <2>2, <2>3 DEF Number, Base
  <2> QED  BY <1>1, <2>1, <2>2, <2>4 DEF Pushed
<1>9. ASSUME NEW n \in Batches, EncodeFails(e, n)
      PROVE  Pushed(e, k)'
  <2>1. n \in Nat /\ encoded'[e] = encoded[e] + n /\ at'[e] = "check"
    BY <1>9, BoundsAssumption DEF EncodeFails, Capture, TypeInv
  <2>2. k <= encoded[e]
    BY DEF Pushed
  <2> QED  BY <1>1, <2>1, <2>2 DEF Pushed
<1>5. ASSUME Copy(e) \/ Push(e) \/ FreeLoad(e) \/ FreeStore(e) \/ FreeDecide(e)
      PROVE  Pushed(e, k)'
  <2>1. outpkts' = outpkts /\ encoded' = encoded
    BY <1>5 DEF Copy, Push, FreeLoad, FreeStore, FreeDecide
  <2>2. \/ at[e] \in {"copy", "push"} /\ i'[e] >= i[e]
        \/ at'[e] \notin {"copy", "push"}
    BY <1>1, <1>5 DEF Copy, Push, FreeLoad, FreeStore, FreeDecide, TypeInv
  <2>3. i'[e] \in Int
    BY <1>1, <1>5 DEF Copy, Push, FreeLoad, FreeStore, FreeDecide, TypeInv
  <2>4. Number(e)' = Base(e) + i'[e]
    BY <2>1 DEF Number, Base
  <2> QED  BY <1>1, <2>1, <2>2, <2>3, <2>4 DEF Pushed
<1>6. ASSUME NoFrame(e) \/ EndTurn(e)
      PROVE  Pushed(e, k)'
  <2>1. encoded' = encoded /\ at'[e] \notin {"copy", "push"}
    BY <1>6 DEF NoFrame, EndTurn, TypeInv
  <2> QED  BY <2>1 DEF Pushed
<1>7. CASE Timer \/ Stopping \/ Idle
  <2>1. UNCHANGED <<at, outpkts, i, encoded>>
    BY <1>7 DEF Timer, OnTimer, SendFront, DeleteLoad, DeleteStore, DeleteDecide,
       OnTimerEnds, Stopping, StopVideo, StopAudio, DeleteClient, Idle, vars, thread
  <2> QED  BY <1>2, <2>1
<1>8. ASSUME Thread(e) PROVE Pushed(e, k)'
  BY <1>4, <1>5, <1>6, <1>8, <1>9 DEF Thread
<1> QED  BY <1>2, <1>3, <1>7, <1>8 DEF Next

\* Queued behind all that is queued, taken from the front, sent before it is
\* taken.
LEMMA OrderStep ==
    ASSUME TypeInv, FrameInv, LoopInv, OrderInv, Next
    PROVE  OrderInv'
<1>t. /\ sent \in Seq(Packets) /\ datalist \in Seq(Packets)
      /\ Len(sent) \in Nat /\ Len(datalist) \in Nat
  BY DEF TypeInv
<1>p. Done \subseteq Packets /\ Done \subseteq Done'
  <2>1. ASSUME NEW p \in Packets, Pushed(p[1], p[2]) PROVE Pushed(p[1], p[2])'
    BY <2>1, PacketParts, PushedStays
  <2> QED  BY <2>1 DEF Done
<1>1. ASSUME UNCHANGED <<sent, datalist>>, First' = First \/ First' = 2
      PROVE  OrderInv'
  <2>1. First \in {1, 2} /\ First' >= First
    BY <1>1 DEF First
  <2>2. \A a \in 1..Len(sent) : sent[a] \in Packets
    BY <1>t
  <2>3. \A a \in 1..Len(datalist) : datalist[a] \in Packets
    BY <1>t
  <2>4. /\ \A a \in 1..Len(sent) : sent[a] \in Done'
        /\ \A a \in 1..Len(datalist) : datalist[a] \in Done'
    BY <1>p DEF OrderInv
  <2>5. First'..Len(datalist) \subseteq First..Len(datalist)
    BY <1>1, <1>t, <2>1
  <2> QED  BY <1>1, <2>4, <2>5 DEF OrderInv, Before
<1>2. ASSUME NEW d \in Devices, Push(d)
      PROVE  OrderInv'
  <2> DEFINE n == Len(datalist)
  <2>1. PICK p \in Packets : p = Current(d)
    BY <1>2, CurrentIs DEF Push, InCallback
  <2>2. p[1] = d /\ p[2] = Number(d) /\ p[2] \in Nat /\ p[2] <= encoded[d]
    BY <1>2, <2>1, CurrentIs DEF Push, InCallback
  <2>3. /\ datalist' = Append(datalist, p) /\ sent' = sent /\ loop' = loop
        /\ First' = First /\ First = 1
    BY <1>2, <2>1 DEF Push, First, Handling, LoopInv
  <2>4. /\ Len(datalist') = n + 1
        /\ \A a \in 1..n : datalist'[a] = datalist[a]
        /\ datalist'[n + 1] = p
    BY <1>t, <2>3, AppendIs
  <2>5. \A q \in Done : Before(q, p)
    BY <1>2, <2>2, PacketParts DEF Done, Pushed, Before, Push
  <2>6. \A a \in 1..Len(sent) : /\ sent[a] \in Packets /\ Before(sent[a], p)
                                /\ sent[a] \in Done'
    BY <1>t, <1>p, <2>5 DEF OrderInv
  <2>7. \A a \in 1..n : /\ datalist[a] \in Packets /\ Before(datalist[a], p)
                        /\ datalist[a] \in Done'
    BY <1>t, <1>p, <2>5 DEF OrderInv
  <2>8. p \in Done'
    <3>1. outpkts' = outpkts /\ encoded' = encoded
      BY <1>2 DEF Push
    <3>2. (i'[d] = i[d] + 1 /\ at'[d] = "copy") \/ at'[d] = "load"
      BY <1>2 DEF Push, TypeInv
    <3>3. p[2] = Base(d) + i[d] /\ Base(d) \in Int /\ i[d] \in Int
      BY <1>2, <2>2, CurrentIs DEF Number, TypeInv, Push, InCallback
    <3>4. Number(d)' = Base(d) + i'[d]
      BY <3>1 DEF Base, Number
    <3> QED  BY <2>2, <3>1, <3>2, <3>3, <3>4 DEF Done, Pushed
  <2>9. \A a \in 1..Len(datalist') : datalist'[a] \in Done'
    BY <1>t, <2>4, <2>7, <2>8
  <2>10. \A a, b \in 1..Len(datalist') : a < b => Before(datalist'[a], datalist'[b])
    BY <1>t, <2>4, <2>7 DEF OrderInv
  <2>11. \A a \in 1..Len(sent) : \A b \in First'..Len(datalist') :
            Before(sent[a], datalist'[b])
    BY <1>t, <2>3, <2>4, <2>6 DEF OrderInv
  <2> QED  BY <2>3, <2>6, <2>9, <2>10, <2>11 DEF OrderInv, Before
<1>3. CASE SendFront
  <2> DEFINE n == Len(sent)
  <2>1. PICK p \in Packets : p = Head(datalist) /\ p = datalist[1]
    BY <1>3, <1>t DEF SendFront
  <2>2. /\ datalist' = datalist /\ sent' = Append(sent, p) /\ First = 1 /\ First' = 2
        /\ Len(datalist) >= 1
    BY <1>3, <1>t, <2>1 DEF SendFront, First, Handling
  <2>3. /\ Len(sent') = n + 1
        /\ \A a \in 1..n : sent'[a] = sent[a]
        /\ sent'[n + 1] = p
    BY <1>t, <2>2, AppendIs
  <2>4. \A a \in 1..n : Before(sent[a], p)
    BY <2>1, <2>2, <1>t DEF OrderInv
  <2>5. \A a, b \in 1..Len(sent') : a < b => Before(sent'[a], sent'[b])
    BY <1>t, <2>3, <2>4 DEF OrderInv
  <2>6. \A b \in 2..Len(datalist) : Before(p, datalist[b])
    BY <1>t, <2>1, <2>2 DEF OrderInv
  <2>7. \A a \in 1..Len(sent') : \A b \in First'..Len(datalist) :
           Before(sent'[a], datalist[b])
    BY <1>t, <2>2, <2>3, <2>6 DEF OrderInv
  <2>8. \A a \in 1..n : sent[a] \in Done'
    BY <1>t, <1>p DEF OrderInv
  <2>9. \A a \in 1..Len(datalist) : datalist[a] \in Done'
    BY <1>t, <1>p DEF OrderInv
  <2>10. \A a \in 1..Len(sent') : sent'[a] \in Done'
    BY <1>t, <2>1, <2>2, <2>3, <2>8, <2>9
  <2> QED  BY <2>2, <2>5, <2>7, <2>9, <2>10 DEF OrderInv, Before
<1>4. CASE DeleteDecide
  <2>1. /\ datalist' = Tail(datalist) /\ sent' = sent /\ First = 2 /\ First' = 1
        /\ datalist # <<>>
    BY <1>4 DEF DeleteDecide, First, Handling, LoopInv
  <2>2. /\ Len(datalist') = Len(datalist) - 1
        /\ \A a \in 1..Len(datalist') : datalist'[a] = datalist[a + 1]
    BY <1>t, <2>1, TailIs
  <2>3. \A a \in 1..Len(sent) : sent[a] \in Done'
    BY <1>t, <1>p DEF OrderInv
  <2>4. \A a \in 1..Len(datalist) : datalist[a] \in Done'
    BY <1>t, <1>p DEF OrderInv
  <2>5. \A a \in 1..Len(datalist') : a + 1 \in 1..Len(datalist) /\ a + 1 \in 2..Len(datalist)
    BY <1>t, <2>2
  <2>6. \A a \in 1..Len(datalist') : datalist'[a] \in Done'
    BY <2>2, <2>4, <2>5
  <2>7. \A a, b \in 1..Len(datalist') : a < b => Before(datalist'[a], datalist'[b])
    BY <1>t, <2>2, <2>5 DEF OrderInv
  <2>8. \A a \in 1..Len(sent) : \A b \in First'..Len(datalist') :
           Before(sent[a], datalist'[b])
    BY <2>1, <2>2, <2>5 DEF OrderInv
  <2> QED  BY <2>1, <2>3, <2>6, <2>7, <2>8 DEF OrderInv, Before
<1>5. CASE DeleteClient
  <2>1. datalist' = <<>> /\ sent' = sent
    BY <1>5 DEF DeleteClient
  <2>2. Len(datalist') = 0 /\ First' \in {1, 2}
    BY <2>1 DEF First
  <2>3. 1..Len(datalist') = {} /\ First'..Len(datalist') = {}
    BY <2>2
  <2>4. \A a \in 1..Len(sent) : sent[a] \in Done'
    BY <1>t, <1>p DEF OrderInv
  <2> QED  BY <2>1, <2>3, <2>4 DEF OrderInv, Before
<1>6. ASSUME NEW d \in Devices,
             \/ \E n \in Batches : Encode(d, n) \/ EncodeFails(d, n)
             \/ NoFrame(d) \/ Copy(d) \/ FreeLoad(d) \/ FreeStore(d) \/ FreeDecide(d)
             \/ EndTurn(d)
      PROVE  OrderInv'
  BY <1>1, <1>6 DEF Encode, EncodeFails, Capture, NoFrame, Copy, FreeLoad, FreeStore,
     FreeDecide, EndTurn, First,
     Handling
<1>7. CASE OnTimer \/ OnTimerEnds \/ DeleteLoad \/ DeleteStore \/ StopVideo \/ StopAudio \/ Idle
  BY <1>1, <1>7 DEF OnTimer, OnTimerEnds, DeleteLoad, DeleteStore, StopVideo, StopAudio, Idle,
     vars, thread, First, Handling
<1> QED  BY <1>2, <1>3, <1>4, <1>5, <1>6, <1>7 DEF Next, Thread, Timer, Stopping

-----------------------------------------------------------------------------
(* The packets of failed encodes *)

\* The packet the iterator is at, and those in datalist, are no failed encode's.
LEMMA CurrentLives ==
    ASSUME TypeInv, FrameInv, LostInv, NEW d \in Devices, at[d] \in InCallback
    PROVE  Live(Current(d))
<1>1. PICK k \in Nat : Current(d) = <<d, k>> /\ Base(d) < k /\ k <= encoded[d]
  BY CurrentIs
<1>2. Base(d) \in Int
  BY CurrentIs
<1>3. <<d, k>>[1] = d /\ <<d, k>>[2] = k
  OBVIOUS
<1>4. <<d, k>> \in lost => k <= Base(d)
  BY <1>3 DEF LostInv
<1> QED  BY <1>1, <1>2, <1>3, <1>4 DEF Live

\* A failed encode takes new packets; only the others are queued and freed.
LEMMA LostStep ==
    ASSUME TypeInv, FrameInv, LoopInv, LostInv, Next
    PROVE  LostInv'
<1> USE BoundsAssumption, DeviceNames
<1>1. \A p \in Packets : p[1] \in Devices /\ p[2] \in Nat
  BY PacketParts
<1>2. \A e \in Devices : /\ encoded[e] \in Nat /\ Len(outpkts[e]) \in Nat
                         /\ Base(e) = encoded[e] - Len(outpkts[e])
  BY DEF TypeInv, Base
<1>t. /\ freed \subseteq Packets /\ lost \subseteq Packets /\ datalist \in Seq(Packets)
      /\ Len(datalist) \in Nat
  BY DEF TypeInv
<1>h. datalist # <<>> => Head(datalist) \in Packets /\ Live(Head(datalist))
  BY <1>t DEF LostInv
<1>3. ASSUME UNCHANGED <<outpkts, encoded, lost, datalist>>,
             \A p \in freed' : p \in freed \/ (p \in Packets /\ Live(p))
      PROVE  LostInv'
  <2>1. \A p : Live(p)' <=> Live(p)
    BY <1>3 DEF Live
  <2>2. \A p : Base(p[1])' = Base(p[1])
    BY <1>3 DEF Base
  <2> QED  BY <1>3, <2>1, <2>2 DEF LostInv
<1>4. ASSUME NEW d \in Devices, NEW n \in Batches, Encode(d, n) \/ EncodeFails(d, n)
      PROVE  LostInv'
  <2>1. /\ n \in Nat /\ encoded'[d] = encoded[d] + n /\ freed' = freed /\ datalist' = datalist
        /\ \A e \in Devices \ {d} : encoded'[e] = encoded[e] /\ outpkts'[e] = outpkts[e]
    BY <1>4 DEF Encode, EncodeFails, Capture, TypeInv
  <2>2. \A e \in Devices : encoded'[e] \in Nat /\ encoded[e] <= encoded'[e]
    BY <1>2, <2>1
  <2>3. ASSUME NEW p \in Packets, p \notin lost \/ p \notin lost', Live(p)
        PROVE  Live(p)'
    <3>1. p[2] <= encoded'[p[1]]
      BY <1>1, <1>2, <2>2, <2>3 DEF Live
    <3>2. p \notin lost'
      <4>1. CASE Encode(d, n)
        BY <2>3, <4>1 DEF Encode, Live
      <4>2. CASE EncodeFails(d, n)
        <5>1. lost' = lost \cup ToSet(Made(d, n)) /\ p \notin lost
          BY <2>3, <4>2 DEF EncodeFails, Live
        <5>2. ASSUME p \in ToSet(Made(d, n)) PROVE FALSE
          <6>1. PICK j \in 1..n : p = <<d, encoded[d] + j>>
            BY <2>1, <5>2 DEF ToSet, Made
          <6>2. p[1] = d /\ p[2] = encoded[d] + j
            BY <6>1
          <6> QED  BY <1>2, <2>3, <6>2 DEF Live
        <5> QED  BY <5>1, <5>2
      <4> QED  BY <1>4, <4>1, <4>2
    <3> QED  BY <3>1, <3>2 DEF Live
  <2>4. (\A p \in freed' : Live(p)') /\ \A a \in 1..Len(datalist) : Live(datalist[a])'
    BY <1>t, <2>1, <2>3 DEF LostInv, Live
  <2>5. CASE Encode(d, n)
    <3>1. outpkts'[d] = [j \in 1..n |-> <<d, encoded[d] + j>>] /\ lost' = lost
      BY <2>5 DEF Encode, Made, TypeInv
    <3>2. Len(outpkts'[d]) = n
      BY <2>1, <3>1
    <3>3. Base(d)' = encoded[d]
      BY <1>2, <2>1, <3>2 DEF Base
    <3>4. \A e \in Devices : Base(e)' \in Int /\ Base(e) \in Int /\ Base(e) <= Base(e)'
      <4>1. ASSUME NEW e \in Devices \ {d} PROVE Base(e)' = Base(e)
        BY <2>1, <4>1 DEF Base
      <4>2. /\ encoded[d] \in Int /\ Base(d) <= encoded[d]
            /\ \A e \in Devices : Base(e) \in Int
        BY <1>2
      <4>3. Base(d)' \in Int /\ Base(d) \in Int /\ Base(d) <= Base(d)'
        BY <3>3, <4>2
      <4>4. \A e \in Devices \ {d} : Base(e)' \in Int /\ Base(e) \in Int /\ Base(e) <= Base(e)'
        BY <4>1, <4>2
      <4> QED  BY <4>3, <4>4
    <3>5. ASSUME NEW p \in lost PROVE p[2] <= Base(p[1])'
      <4>1. p[2] <= Base(p[1]) /\ p[1] \in Devices /\ p[2] \in Nat
        BY <1>1, <1>t DEF LostInv
      <4> QED  BY <3>4, <4>1
    <3> QED  BY <2>1, <2>4, <3>1, <3>5 DEF LostInv
  <2>6. CASE EncodeFails(d, n)
    <3>1. outpkts'[d] = <<>> /\ lost' = lost \cup ToSet(Made(d, n))
      BY <2>6 DEF EncodeFails, TypeInv
    <3>2. Base(d)' = encoded[d] + n
      BY <1>2, <2>1, <3>1 DEF Base
    <3>3. \A e \in Devices : Base(e)' \in Int /\ Base(e) \in Int /\ Base(e) <= Base(e)'
      <4>1. ASSUME NEW e \in Devices \ {d} PROVE Base(e)' = Base(e)
        BY <2>1, <4>1 DEF Base
      <4>2. /\ encoded[d] \in Int /\ Base(d) <= encoded[d]
            /\ \A e \in Devices : Base(e) \in Int
        BY <1>2
      <4>3. n \in Nat
        BY <2>1
      <4>4. Base(d)' \in Int /\ Base(d) \in Int /\ Base(d) <= Base(d)'
        BY <3>2, <4>2, <4>3
      <4>5. \A e \in Devices \ {d} : Base(e)' \in Int /\ Base(e) \in Int /\ Base(e) <= Base(e)'
        BY <4>1, <4>2
      <4> QED  BY <4>4, <4>5
    <3>4. ASSUME NEW p \in lost PROVE p[2] <= Base(p[1])'
      <4>1. p[2] <= Base(p[1]) /\ p[1] \in Devices /\ p[2] \in Nat
        BY <1>1, <1>t DEF LostInv
      <4> QED  BY <3>3, <4>1
    <3>5. ASSUME NEW p \in ToSet(Made(d, n)) PROVE p[2] <= Base(p[1])'
      <4>1. PICK j \in 1..n : p = <<d, encoded[d] + j>>
        BY <2>1 DEF ToSet, Made
      <4>2. p[1] = d /\ p[2] = encoded[d] + j
        BY <4>1
      <4> QED  BY <1>2, <2>1, <3>2, <4>2
    <3> QED  BY <2>1, <2>4, <3>1, <3>4, <3>5 DEF LostInv
  <2> QED  BY <1>4, <2>5, <2>6
<1>5. ASSUME NEW d \in Devices, EndTurn(d)
      PROVE  LostInv'
  <2>1. /\ outpkts'[d] = <<>> /\ UNCHANGED <<encoded, lost, freed, datalist>>
        /\ \A e \in Devices \ {d} : outpkts'[e] = outpkts[e]
    BY <1>5 DEF EndTurn, TypeInv
  <2>2. \A e \in Devices : Base(e)' \in Int /\ Base(e) \in Int /\ Base(e) <= Base(e)'
    BY <1>2, <2>1 DEF Base
  <2>3. ASSUME NEW p \in lost PROVE p[2] <= Base(p[1])'
    <3>1. p[2] <= Base(p[1]) /\ p[1] \in Devices /\ p[2] \in Nat
      BY <1>1, <1>t DEF LostInv
    <3> QED  BY <2>2, <3>1
  <2>4. \A p : Live(p)' <=> Live(p)
    BY <2>1 DEF Live
  <2> QED  BY <2>1, <2>3, <2>4 DEF LostInv
<1>6. ASSUME NEW d \in Devices, NoFrame(d) \/ Copy(d) \/ FreeLoad(d) \/ FreeStore(d)
      PROVE  LostInv'
  <2>1. UNCHANGED <<outpkts, encoded, lost, datalist>> /\ freed' = freed
    BY <1>6 DEF NoFrame, Copy, FreeLoad, FreeStore, Load, Store
  <2> QED  BY <1>3, <2>1
<1>7. ASSUME NEW d \in Devices, FreeDecide(d)
      PROVE  LostInv'
  <2>1. UNCHANGED <<outpkts, encoded, lost, datalist>> /\ freed' \subseteq freed \cup {Current(d)}
    BY <1>7 DEF FreeDecide, Decide
  <2>2. Current(d) \in Packets /\ Live(Current(d))
    BY <1>7, CurrentIs, CurrentLives DEF FreeDecide, InCallback
  <2> QED  BY <1>3, <2>1, <2>2
<1>8. ASSUME NEW d \in Devices, Push(d)
      PROVE  LostInv'
  <2>1. /\ UNCHANGED <<outpkts, encoded, lost, freed>>
        /\ datalist' = Append(datalist, Current(d))
    BY <1>8 DEF Push
  <2>2. Current(d) \in Packets /\ Live(Current(d))
    BY <1>8, CurrentIs, CurrentLives DEF Push, InCallback
  <2>3. /\ Len(datalist') = Len(datalist) + 1 /\ datalist'[Len(datalist) + 1] = Current(d)
        /\ \A a \in 1..Len(datalist) : datalist'[a] = datalist[a]
    BY <1>t, <2>1, <2>2, AppendIs
  <2>4. \A a \in 1..Len(datalist') : Live(datalist'[a])
    <3>1. 1..Len(datalist') = 1..Len(datalist) \cup {Len(datalist) + 1}
      BY <1>t, <2>3
    <3> QED  BY <2>2, <2>3, <3>1 DEF LostInv
  <2>5. \A p : Live(p)' <=> Live(p)
    BY <2>1 DEF Live
  <2>6. \A p : Base(p[1])' = Base(p[1])
    BY <2>1 DEF Base
  <2> QED  BY <2>1, <2>4, <2>5, <2>6 DEF LostInv
<1>9. CASE OnTimer \/ OnTimerEnds \/ SendFront \/ DeleteLoad \/ DeleteStore \/ StopVideo
           \/ StopAudio \/ Idle
  <2>1. UNCHANGED <<outpkts, encoded, lost, datalist>> /\ freed' = freed
    BY <1>9 DEF OnTimer, OnTimerEnds, SendFront, DeleteLoad, DeleteStore, Load, Store, StopVideo,
       StopAudio, Idle, vars, thread
  <2> QED  BY <1>3, <2>1
<1>10. CASE DeleteDecide
  <2>1. /\ UNCHANGED <<outpkts, encoded, lost>> /\ freed' \subseteq freed \cup {Head(datalist)}
        /\ datalist' = Tail(datalist) /\ datalist # <<>>
    BY <1>10 DEF DeleteDecide, Decide, thread, LoopInv, Handling
  <2>2. /\ Len(datalist') = Len(datalist) - 1
        /\ \A a \in 1..Len(datalist') : datalist'[a] = datalist[a + 1]
    BY <1>t, <2>1, TailIs
  <2>3. \A a \in 1..Len(datalist') : Live(datalist'[a])
    BY <1>t, <2>2 DEF LostInv
  <2>4. \A p \in freed' : Live(p)
    BY <1>h, <2>1 DEF LostInv
  <2>5. \A p : Live(p)' <=> Live(p)
    BY <2>1 DEF Live
  <2>6. \A p : Base(p[1])' = Base(p[1])
    BY <2>1 DEF Base
  <2> QED  BY <2>1, <2>3, <2>4, <2>5, <2>6 DEF LostInv
<1>11. CASE DeleteClient
  <2>1. /\ UNCHANGED <<outpkts, encoded, lost>> /\ freed' \subseteq freed \cup ToSet(datalist)
        /\ datalist' = <<>>
    BY <1>11 DEF DeleteClient, thread
  <2>2. \A p \in ToSet(datalist) : Live(p)
    BY <1>t DEF ToSet, LostInv
  <2>3. \A p \in freed' : Live(p)
    BY <2>1, <2>2 DEF LostInv
  <2>4. \A p : Live(p)' <=> Live(p)
    BY <2>1 DEF Live
  <2>5. \A p : Base(p[1])' = Base(p[1])
    BY <2>1 DEF Base
  <2>6. 1..Len(datalist') = {}
    BY <2>1
  <2> QED  BY <2>1, <2>3, <2>4, <2>5, <2>6 DEF LostInv
<1> QED  BY <1>4, <1>5, <1>6, <1>7, <1>8, <1>9, <1>10, <1>11 DEF Next, Thread, Timer, Stopping

-----------------------------------------------------------------------------
(* Who holds what, from one step to the next *)

\* A step that is not about a packet.
Steady(d, k) ==
    /\ Born(d, k)' <=> Born(d, k)
    /\ ThreadHolds(d, k)' <=> ThreadHolds(d, k)
    /\ QueueHolds(d, k)' <=> QueueHolds(d, k)
    /\ Copied(d, k)' <=> Copied(d, k)
    /\ ThreadStores(d, k)' <=> ThreadStores(d, k)
    /\ LoopStores(d, k)' <=> LoopStores(d, k)
    /\ ThreadDecides(d, k)' <=> ThreadDecides(d, k)
    /\ LoopDecides(d, k)' <=> LoopDecides(d, k)
    /\ shareCnt'[<<d, k>>] = shareCnt[<<d, k>>]
    /\ <<d, k>> \in freed' <=> <<d, k>> \in freed
    /\ ThreadStores(d, k) => reg'[d] = reg[d]
    /\ LoopStores(d, k) => reg'["loop"] = reg["loop"]

\* What such a step does to the count is nothing.
LEMMA SteadyKeeps ==
    ASSUME NEW d, NEW k, Steady(d, k)
    PROVE  (CountOf(d, k) => CountOf(d, k)') /\ (ExactOf(d, k) => ExactOf(d, k)')
BY Zenon DEF Steady, CountOf, ExactOf, Ones

\* What is in datalist is queued by its thread, the packet at the front is in
\* it, and a packet not yet queued is not.
LEMMA QueuedIs ==
    ASSUME TypeInv, LoopInv, OrderInv, NEW d \in Devices, NEW k \in 1..MaxPackets
    PROVE  /\ Queued(d, k) => Pushed(d, k) /\ Copied(d, k) /\ Born(d, k)
           /\ AtFront(d, k) => Queued(d, k)
           /\ LoopStores(d, k) => LoopDecides(d, k)
           /\ ThreadStores(d, k) => ThreadDecides(d, k)
<1>1. Queued(d, k) => <<d, k>> \in Done
  BY DEF Queued, OrderInv
<1>2. <<d, k>> \in Done => Pushed(d, k)
  BY DEF Done
<1>3. AtFront(d, k) => Queued(d, k)
  BY FrontIs DEF AtFront, Queued
<1> QED  BY <1>1, <1>2, <1>3 DEF Pushed, Copied, Born, LoopStores, LoopDecides, ThreadStores,
         ThreadDecides

\* Another device's thread does not touch this one's packets.
LEMMA OtherDevice ==
    ASSUME TypeInv, FrameInv, LoopInv, OrderInv, NEW d \in Devices, Thread(d),
           NEW e \in Devices, e # d, NEW k \in 1..MaxPackets
    PROVE  Steady(e, k)
<1> USE DeviceNames
<1>1. /\ at'[e] = at[e] /\ outpkts'[e] = outpkts[e] /\ i'[e] = i[e] /\ encoded'[e] = encoded[e]
      /\ loop' = loop /\ reg'[e] = reg[e] /\ reg'["loop"] = reg["loop"]
  BY DEF Thread, Encode, EncodeFails, Capture, NoFrame, Copy, Push, FreeLoad, FreeStore,
     FreeDecide, EndTurn, Load,
     Store, Decide, TypeInv
<1>2. at[d] \in InCallback => Current(d) \in Packets /\ Current(d) # <<e, k>>
  BY CurrentIs
<1>3. <<e, k>> \in Packets
  BY PacketParts
<1>4. shareCnt'[<<e, k>>] = shareCnt[<<e, k>>] /\ (<<e, k>> \in freed' <=> <<e, k>> \in freed)
  <2>1. ASSUME NEW n \in Batches, Encode(d, n) \/ EncodeFails(d, n)
        PROVE  shareCnt'[<<e, k>>] = shareCnt[<<e, k>>] /\ freed' = freed
    <3>1. n \in Nat
      BY BoundsAssumption
    <3>2. \A j \in 1..n : [m \in 1..n |-> <<d, encoded[d] + m>>][j] # <<e, k>>
      BY <3>1
    <3>3. <<e, k>> \notin ToSet(Made(d, n))
      BY <3>2 DEF ToSet, Made
    <3>4. Capture(d, n)
      BY <2>1 DEF Encode, EncodeFails
    <3> QED  BY <1>3, <3>3, <3>4 DEF Capture
  <2> QED  BY <1>2, <1>3, <2>1 DEF Thread, NoFrame, Copy, Push, FreeLoad, FreeStore,
           FreeDecide, EndTurn, Load, Store, Decide, TypeInv, InCallback
<1>5. datalist' = datalist \/ (Push(d) /\ datalist' = Append(datalist, Current(d)))
  BY DEF Thread, Encode, EncodeFails, Capture, NoFrame, Copy, Push, FreeLoad, FreeStore,
     FreeDecide, EndTurn
<1>6. Queued(e, k)' <=> Queued(e, k)
  <2>1. CASE datalist' = datalist
    BY <2>1 DEF Queued
  <2>2. CASE Push(d) /\ datalist' = Append(datalist, Current(d))
    <3>1. at[d] \in InCallback
      BY <2>2 DEF Push, InCallback
    <3>2. PICK p \in Packets : p = Current(d) /\ p # <<e, k>>
      BY <1>2, <3>1
    <3>3. datalist' = Append(datalist, p) /\ datalist \in Seq(Packets) /\ Len(datalist) \in Nat
      BY <2>2, <3>2 DEF TypeInv
    <3>4. /\ Len(datalist') = Len(datalist) + 1 /\ datalist'[Len(datalist) + 1] = p
          /\ \A a \in 1..Len(datalist) : datalist'[a] = datalist[a]
      BY <3>3, AppendIs
    <3>5. 1..Len(datalist') = 1..Len(datalist) \cup {Len(datalist) + 1}
      BY <3>3, <3>4
    <3> QED  BY <3>2, <3>4, <3>5, Zenon DEF Queued
  <2> QED  BY <1>5, <2>1, <2>2
<1>7. AtFront(e, k)' <=> AtFront(e, k)
  BY <1>1, <1>5 DEF AtFront, Handling, Push, LoopInv
<1> QED  BY <1>1, <1>4, <1>6, <1>7 DEF Steady, Born, ThreadHolds, QueueHolds, Copied, Pushed,
         ThreadStores, LoopStores, ThreadDecides, LoopDecides, Number, Base

\* A thread's steps are about the packet the iterator is at; queueing it only
\* moves its share from the thread to datalist.
LEMMA OtherPackets ==
    ASSUME TypeInv, FrameInv, LoopInv, OrderInv, NEW d \in Devices, NEW k \in 1..MaxPackets,
           \/ NoFrame(d) \/ EndTurn(d)
           \/ /\ Copy(d) \/ Push(d) \/ FreeLoad(d) \/ FreeStore(d) \/ FreeDecide(d)
              /\ k # Number(d)
    PROVE  Steady(d, k)
<1> USE DeviceNames
<1>1. /\ encoded' = encoded /\ loop' = loop /\ reg'["loop"] = reg["loop"]
      /\ at[d] \in {"decide", "store"} => reg'[d] = reg[d]
  BY DEF NoFrame, EndTurn, Copy, Push, FreeLoad, FreeStore, FreeDecide, Load, Store, Decide,
     TypeInv
<1>2. /\ encoded[d] \in Nat /\ i[d] \in Nat /\ Len(outpkts[d]) \in Nat
      /\ Base(d) = encoded[d] - Len(outpkts[d]) /\ Number(d) = Base(d) + i[d]
  BY DEF TypeInv, Base, Number
<1>3. at[d] \in InCallback => Current(d) = <<d, Number(d)>> /\ Current(d) \in Packets
  BY CurrentIs
<1>4. <<d, k>> \in Packets
  BY PacketParts
<1>5. shareCnt'[<<d, k>>] = shareCnt[<<d, k>>] /\ (<<d, k>> \in freed' <=> <<d, k>> \in freed)
  <2>1. CASE NoFrame(d) \/ EndTurn(d)
    BY <2>1 DEF NoFrame, EndTurn
  <2>2. CASE Copy(d) \/ Push(d) \/ FreeLoad(d) \/ FreeStore(d) \/ FreeDecide(d)
    <3>1. NoFrame(d) \/ EndTurn(d) \/ (Current(d) \in Packets /\ Current(d) # <<d, k>>)
      BY <1>3, <2>2 DEF Copy, Push, FreeLoad, FreeStore, FreeDecide, InCallback
    <3> QED  BY <1>4, <2>1, <2>2, <3>1 DEF Copy, Push, FreeLoad, FreeStore, FreeDecide, Load, Store,
             Decide, TypeInv
  <2> QED  BY <2>1, <2>2
<1>6. Queued(d, k)' <=> Queued(d, k)
  <2>1. CASE datalist' = datalist
    BY <2>1 DEF Queued
  <2>2. CASE Push(d) /\ k # Number(d)
    <3>1. PICK p \in Packets : p = Current(d) /\ p # <<d, k>>
      BY <1>3, <2>2 DEF Push, InCallback
    <3>2. datalist' = Append(datalist, p) /\ datalist \in Seq(Packets) /\ Len(datalist) \in Nat
      BY <2>2, <3>1 DEF Push, TypeInv
    <3>3. /\ Len(datalist') = Len(datalist) + 1 /\ datalist'[Len(datalist) + 1] = p
          /\ \A a \in 1..Len(datalist) : datalist'[a] = datalist[a]
      BY <3>2, AppendIs
    <3>4. 1..Len(datalist') = 1..Len(datalist) \cup {Len(datalist) + 1}
      BY <3>2, <3>3
    <3> QED  BY <3>1, <3>3, <3>4, Zenon DEF Queued
  <2> QED  BY <2>1, <2>2 DEF NoFrame, EndTurn, Copy, Push, FreeLoad, FreeStore, FreeDecide
<1>7. AtFront(d, k)' <=> AtFront(d, k)
  <2>1. CASE datalist' = datalist
    BY <1>1, <2>1 DEF AtFront, Handling
  <2>2. CASE Push(d)
    BY <1>1, <2>2 DEF AtFront, Handling, Push, LoopInv
  <2> QED  BY <2>1, <2>2 DEF NoFrame, EndTurn, Copy, Push, FreeLoad, FreeStore, FreeDecide
<1>8. ASSUME NoFrame(d) \/ EndTurn(d)
      PROVE  Steady(d, k)
  <2>1. at[d] \in {"sleep", "check"} /\ at'[d] \in {"check", "sleep", "ended"}
    BY <1>8 DEF NoFrame, EndTurn, TypeInv
  <2> QED  BY <1>1, <1>5, <1>6, <1>7, <2>1 DEF Steady, Born, ThreadHolds, QueueHolds, Copied,
           Pushed, ThreadStores, LoopStores, ThreadDecides, LoopDecides
<1>9. ASSUME Copy(d) \/ Push(d) \/ FreeLoad(d) \/ FreeStore(d) \/ FreeDecide(d), k # Number(d)
      PROVE  Steady(d, k)
  <2>1. outpkts' = outpkts
    BY <1>9 DEF Copy, Push, FreeLoad, FreeStore, FreeDecide
  <2>2. Base(d)' = Base(d) /\ Number(d)' = Base(d) + i'[d]
    BY <1>1, <2>1 DEF Base, Number
  <2>3. /\ i[d] \in 1..Len(outpkts[d])
        /\ \/ at[d] = "copy" /\ at'[d] = "push" /\ i'[d] = i[d]
           \/ at[d] = "push" /\ at'[d] = "copy" /\ i'[d] = i[d] + 1
           \/ at[d] = "push" /\ at'[d] = "load" /\ i'[d] = 1 /\ i[d] >= Len(outpkts[d])
           \/ at[d] = "load" /\ at'[d] = "store" /\ i'[d] = i[d]
           \/ at[d] = "store" /\ at'[d] = "decide" /\ i'[d] = i[d]
           \/ at[d] = "decide" /\ at'[d] = "load" /\ i'[d] = i[d] + 1
           \/ at[d] = "decide" /\ at'[d] = "check" /\ i[d] >= Len(outpkts[d])
    BY <1>9 DEF Copy, Push, FreeLoad, FreeStore, FreeDecide, TypeInv, FrameInv, InCallback
  <2>4. k \in Int
    OBVIOUS
  <2>5. Born(d, k)' <=> Born(d, k)
    BY <1>1 DEF Born
  <2>6. ThreadHolds(d, k)' <=> ThreadHolds(d, k)
    <3>1. /\ Base(d) \in Int /\ Number(d) \in Int /\ Number(d)' = Base(d) + i'[d]
          /\ Born(d, k) => k <= Base(d) + Len(outpkts[d])
      BY <1>2, <2>2 DEF Born
    <3>2. CASE at[d] \in {"copy", "push"} /\ at'[d] \in {"copy", "push"}
      BY <2>2, <2>5, <3>2 DEF ThreadHolds
    <3>3. CASE at[d] = "push" /\ at'[d] = "load" /\ i'[d] = 1
      BY <2>4, <2>5, <3>1, <3>3 DEF ThreadHolds
    <3>4. CASE at[d] = "load" /\ at'[d] = "store" /\ i'[d] = i[d]
      BY <1>2, <2>5, <3>1, <3>4 DEF ThreadHolds
    <3>5. CASE at[d] = "store" /\ at'[d] = "decide" /\ i'[d] = i[d]
      BY <1>2, <1>9, <2>4, <2>5, <3>1, <3>5 DEF ThreadHolds
    <3>6. CASE at[d] = "decide" /\ at'[d] = "load" /\ i'[d] = i[d] + 1
      BY <1>2, <2>4, <2>5, <3>1, <3>6 DEF ThreadHolds
    <3>7. CASE at[d] = "decide" /\ at'[d] = "check" /\ i[d] >= Len(outpkts[d])
      BY <1>2, <2>4, <2>5, <3>1, <3>7 DEF ThreadHolds
    <3> QED  BY <2>3, <3>2, <3>3, <3>4, <3>5, <3>6, <3>7
  <2>7. Copied(d, k)' <=> Copied(d, k)
    <3>1. /\ encoded'[d] = encoded[d] /\ k # Number(d) /\ i[d] \in Int /\ encoded[d] \in Int
          /\ Number(d) = Base(d) + i[d] /\ Number(d)' = Base(d) + i'[d] /\ Base(d) \in Int
      BY <1>1, <1>2, <1>9, <2>2, <2>3
    <3>2. CASE at[d] = "copy" /\ at'[d] = "push" /\ i'[d] = i[d]
      BY <2>4, <3>1, <3>2 DEF Copied, Pushed
    <3>3. CASE at[d] = "push" /\ at'[d] = "copy" /\ i'[d] = i[d] + 1
      BY <2>4, <3>1, <3>3 DEF Copied, Pushed
    <3>4. CASE at[d] = "push" /\ at'[d] = "load" /\ i[d] >= Len(outpkts[d])
      <4>1. k <= encoded[d] => k < Number(d)
        BY <1>2, <2>3, <2>4, <3>1, <3>4
      <4> QED  BY <3>1, <3>4, <4>1 DEF Copied, Pushed
    <3>5. CASE at[d] \notin {"copy", "push"} /\ at'[d] \notin {"copy", "push"}
      BY <3>1, <3>5 DEF Copied, Pushed
    <3> QED  BY <2>3, <3>2, <3>3, <3>4, <3>5
  <2>8. /\ at'[d] = "push" => k # Number(d)'
        /\ at'[d] = "store" => k # Number(d)'
        /\ at'[d] = "decide" => k # Number(d)'
    BY <1>2, <1>9, <2>2, <2>3
  <2>9. QueueHolds(d, k)' <=> QueueHolds(d, k)
    BY <1>1, <1>6, <1>7, <1>9, <2>8 DEF QueueHolds
  <2>10. /\ ~ThreadStores(d, k) /\ ~ThreadStores(d, k)'
         /\ ~ThreadDecides(d, k) /\ ~ThreadDecides(d, k)'
    BY <1>9, <2>8 DEF ThreadStores, ThreadDecides
  <2>11. (LoopStores(d, k)' <=> LoopStores(d, k)) /\ (LoopDecides(d, k)' <=> LoopDecides(d, k))
    BY <1>1, <1>7 DEF LoopStores, LoopDecides
  <2> QED  BY <1>1, <1>5, <2>5, <2>6, <2>7, <2>9, <2>10, <2>11 DEF Steady
<1> QED  BY <1>8, <1>9

-----------------------------------------------------------------------------
(* The share count *)

\* The packets of a frame are the next ones.
LEMMA MadeAre ==
    ASSUME NEW d, encoded[d] \in Nat, NEW n \in Nat, NEW k \in Nat
    PROVE  <<d, k>> \in ToSet(Made(d, n)) <=> k \in (encoded[d] + 1)..(encoded[d] + n)
<1>1. <<d, k>> \in ToSet(Made(d, n)) <=> \E j \in 1..n : encoded[d] + j = k
  BY DEF ToSet, Made
<1>2. ASSUME k \in (encoded[d] + 1)..(encoded[d] + n)
      PROVE  k - encoded[d] \in 1..n /\ encoded[d] + (k - encoded[d]) = k
  BY <1>2
<1> QED  BY <1>1, <1>2

\* A new packet has one share, the thread's.
LEMMA EncodeKeeps ==
    ASSUME TypeInv, FrameInv, LoopInv, OrderInv, NEW d \in Devices, NEW n \in Batches,
           Encode(d, n), NEW k \in 1..MaxPackets, CountOf(d, k), Sound(d, k)
    PROVE  CountOf(d, k)' /\ Sound(d, k)'
<1> USE DeviceNames
<1>1. /\ encoded[d] \in Nat /\ n \in Nat /\ at[d] = "sleep" /\ <<d, k>> \in Packets /\ k \in Nat
      /\ at'[d] = IF n = 0 THEN "check" ELSE "copy"
      /\ encoded'[d] = encoded[d] + n /\ i'[d] = 1
      /\ outpkts'[d] = [j \in 1..n |-> <<d, encoded[d] + j>>]
  BY BoundsAssumption, PacketParts DEF Encode, Capture, Made, TypeInv
<1>2. Len(outpkts'[d]) = n
  BY <1>1
<1>3. Base(d)' = encoded[d] /\ Number(d)' = encoded[d] + 1
  BY <1>1, <1>2 DEF Base, Number
<1>4. /\ loop' = loop /\ reg' = reg /\ freed' = freed /\ datalist' = datalist /\ overlap' = overlap
      /\ lost' = lost
      /\ shareCnt'[<<d, k>>] = IF <<d, k>> \in ToSet(Made(d, n)) THEN 1 ELSE shareCnt[<<d, k>>]
  BY <1>1 DEF Encode, Capture
<1>5. (Queued(d, k)' <=> Queued(d, k)) /\ (AtFront(d, k)' <=> AtFront(d, k))
  BY <1>4 DEF Queued, AtFront, Handling
<1>6. CASE k \in (encoded[d] + 1)..(encoded[d] + n)
  <2>1. /\ ~Born(d, k) /\ Born(d, k)' /\ ~Queued(d, k) /\ ~Queued(d, k)' /\ ~AtFront(d, k)'
        /\ n # 0
    BY <1>1, <1>5, <1>6, QueuedIs DEF Born
  <2>2. shareCnt'[<<d, k>>] = 1
    BY <1>1, <1>4, <1>6, MadeAre
  <2>3. /\ ThreadHolds(d, k)' /\ ~QueueHolds(d, k)' /\ ~Copied(d, k)'
        /\ ~ThreadStores(d, k)' /\ ~LoopStores(d, k)'
        /\ ~ThreadDecides(d, k)' /\ ~LoopDecides(d, k)'
    BY <1>1, <1>3, <1>6, <2>1 DEF ThreadHolds, QueueHolds, Copied, Pushed, ThreadStores,
       LoopStores, ThreadDecides, LoopDecides
  <2>4. ~overlap /\ <<d, k>> \notin lost => <<d, k>> \notin freed
    BY <2>1 DEF Sound, ExactOf
  <2>5. CountOf(d, k)'
    BY <2>2, <2>3 DEF CountOf, Ones
  <2>6. Sound(d, k)'
    BY <1>4, <2>2, <2>3, <2>4 DEF Sound, ExactOf, Ones
  <2> QED  BY <2>5, <2>6
<1>7. CASE k \notin (encoded[d] + 1)..(encoded[d] + n)
  <2>1. Born(d, k)' <=> Born(d, k)
    BY <1>1, <1>7 DEF Born
  <2>2. ~ThreadHolds(d, k) /\ ~ThreadHolds(d, k)'
    BY <1>1, <1>3, <1>7 DEF ThreadHolds, Born
  <2>3. Copied(d, k)' <=> Copied(d, k)
    BY <1>1, <1>3, <1>7 DEF Copied, Pushed
  <2>4. shareCnt'[<<d, k>>] = shareCnt[<<d, k>>]
    BY <1>1, <1>4, <1>7, MadeAre
  <2>5. QueueHolds(d, k)' <=> QueueHolds(d, k)
    BY <1>1, <1>4, <1>5 DEF QueueHolds
  <2>6. Steady(d, k)
    BY <1>1, <1>4, <1>5, <2>1, <2>2, <2>3, <2>4, <2>5 DEF Steady, ThreadStores, LoopStores,
       ThreadDecides, LoopDecides
  <2> QED  BY <1>4, <2>6, SteadyKeeps DEF Sound
<1> QED  BY <1>6, <1>7

\* The packets of a failed encode are counted once and are nobody's.
LEMMA FailsKeeps ==
    ASSUME TypeInv, FrameInv, LoopInv, OrderInv, NEW d \in Devices, NEW n \in Batches,
           EncodeFails(d, n), NEW k \in 1..MaxPackets, CountOf(d, k), Sound(d, k)
    PROVE  CountOf(d, k)' /\ Sound(d, k)'
<1> USE DeviceNames
<1>1. /\ encoded[d] \in Nat /\ n \in Nat /\ at[d] = "sleep" /\ <<d, k>> \in Packets /\ k \in Nat
      /\ at'[d] = "check" /\ encoded'[d] = encoded[d] + n
  BY BoundsAssumption, PacketParts DEF EncodeFails, Capture, TypeInv
<1>2. /\ loop' = loop /\ reg' = reg /\ freed' = freed /\ datalist' = datalist /\ overlap' = overlap
      /\ lost' = lost \cup ToSet(Made(d, n))
      /\ shareCnt'[<<d, k>>] = IF <<d, k>> \in ToSet(Made(d, n)) THEN 1 ELSE shareCnt[<<d, k>>]
  BY <1>1 DEF EncodeFails, Capture
<1>3. (Queued(d, k)' <=> Queued(d, k)) /\ (AtFront(d, k)' <=> AtFront(d, k))
  BY <1>2 DEF Queued, AtFront, Handling
<1>4. /\ ~ThreadHolds(d, k) /\ ~ThreadHolds(d, k)'
      /\ ~ThreadStores(d, k) /\ ~ThreadStores(d, k)'
      /\ ~ThreadDecides(d, k) /\ ~ThreadDecides(d, k)'
  BY <1>1 DEF ThreadHolds, ThreadStores, ThreadDecides
<1>5. QueueHolds(d, k)' <=> QueueHolds(d, k)
  BY <1>1, <1>2, <1>3 DEF QueueHolds
<1>6. CASE k \in (encoded[d] + 1)..(encoded[d] + n)
  <2>1. ~Queued(d, k) /\ ~AtFront(d, k)
    BY <1>1, <1>6, QueuedIs DEF Born
  <2>2. shareCnt'[<<d, k>>] = 1 /\ <<d, k>> \in lost'
    BY <1>1, <1>2, <1>6, MadeAre
  <2>3. ~QueueHolds(d, k)' /\ ~LoopStores(d, k)'
    BY <1>1, <1>3, <2>1 DEF QueueHolds, LoopStores
  <2>4. CountOf(d, k)'
    BY <1>4, <2>2, <2>3 DEF CountOf, Ones
  <2> QED  BY <2>2, <2>4 DEF Sound
<1>7. CASE k \notin (encoded[d] + 1)..(encoded[d] + n)
  <2>1. Born(d, k)' <=> Born(d, k)
    BY <1>1, <1>7 DEF Born
  <2>2. Copied(d, k)' <=> Copied(d, k)
    BY <1>1, <1>7 DEF Copied, Pushed
  <2>3. shareCnt'[<<d, k>>] = shareCnt[<<d, k>>] /\ <<d, k>> \notin ToSet(Made(d, n))
    BY <1>1, <1>2, <1>7, MadeAre
  <2>4. Steady(d, k)
    BY <1>2, <1>3, <1>4, <1>5, <2>1, <2>2, <2>3 DEF Steady, LoopStores, LoopDecides
  <2>5. (<<d, k>> \in lost') <=> (<<d, k>> \in lost)
    BY <1>2, <2>3
  <2> QED  BY <1>2, <2>4, <2>5, SteadyKeeps DEF Sound
<1> QED  BY <1>6, <1>7

\* copy() adds the queue's.
LEMMA CopyKeeps ==
    ASSUME TypeInv, FrameInv, LoopInv, OrderInv, NEW d \in Devices, Copy(d),
           NEW k \in 1..MaxPackets, k = Number(d), CountOf(d, k), Sound(d, k)
    PROVE  CountOf(d, k)' /\ Sound(d, k)'
<1>1. /\ lost' = lost
      /\ at[d] = "copy" /\ at'[d] = "push" /\ Number(d)' = Number(d) /\ Base(d)' = Base(d)
      /\ encoded' = encoded /\ loop' = loop /\ reg' = reg /\ freed' = freed
      /\ datalist' = datalist /\ overlap' = overlap
  BY DEF Copy, Number, Base, TypeInv
<1>2. Current(d) = <<d, k>> /\ <<d, k>> \in Packets /\ k <= encoded[d] /\ k > Base(d) /\ Base(d) \in Int
  BY <1>1, CurrentIs DEF InCallback
<1>3. shareCnt'[<<d, k>>] = shareCnt[<<d, k>>] + 1 /\ shareCnt[<<d, k>>] \in Int
  BY <1>2 DEF Copy, TypeInv
<1>4. ~Queued(d, k) /\ ~Queued(d, k)' /\ ~AtFront(d, k)'
  BY <1>1, QueuedIs DEF Pushed, Queued, AtFront, Handling
<1>5. /\ ThreadHolds(d, k) /\ ~QueueHolds(d, k) /\ Born(d, k)
      /\ ThreadHolds(d, k)' /\ QueueHolds(d, k)' /\ Copied(d, k)'
      /\ ~ThreadStores(d, k)' /\ ~LoopStores(d, k)'
      /\ ~ThreadDecides(d, k)' /\ ~LoopDecides(d, k)'
  BY <1>1, <1>2, <1>4 DEF ThreadHolds, QueueHolds, Copied, Pushed, ThreadStores, Born,
     LoopStores, ThreadDecides, LoopDecides
<1>6. CountOf(d, k)'
  BY <1>3, <1>5 DEF CountOf, Ones
<1>7. Sound(d, k)'
  BY <1>1, <1>3, <1>5 DEF Sound, ExactOf, Ones
<1> QED  BY <1>6, <1>7

\* Queueing the copy changes no count.
LEMMA PushKeeps ==
    ASSUME TypeInv, FrameInv, LoopInv, OrderInv, NEW d \in Devices, Push(d),
           NEW k \in 1..MaxPackets, k = Number(d), CountOf(d, k), Sound(d, k)
    PROVE  CountOf(d, k)' /\ Sound(d, k)'
<1>1. /\ lost' = lost
      /\ at[d] = "push" /\ Base(d)' = Base(d) /\ Number(d)' = Base(d) + i'[d]
      /\ encoded' = encoded /\ loop' = loop /\ reg' = reg /\ freed' = freed
      /\ overlap' = overlap /\ shareCnt' = shareCnt
      /\ \/ at'[d] = "copy" /\ i'[d] = i[d] + 1
         \/ at'[d] = "load" /\ i'[d] = 1
  BY DEF Push, Number, Base, TypeInv
<1>2. /\ Current(d) = <<d, k>> /\ <<d, k>> \in Packets /\ k <= encoded[d] /\ k > Base(d)
      /\ Base(d) \in Int /\ k = Base(d) + i[d] /\ i[d] \in Int
  <2>1. at[d] \in InCallback
    BY <1>1 DEF InCallback
  <2>2. k = Base(d) + i[d] /\ i[d] \in Int
    BY DEF Number, TypeInv
  <2>3. /\ Current(d) = <<d, k>> /\ <<d, k>> \in Packets /\ k <= encoded[d] /\ k > Base(d)
        /\ Base(d) \in Nat
    BY <2>1, CurrentIs
  <2> QED  BY <2>2, <2>3
<1>3. Queued(d, k)'
  <2>1. datalist' = Append(datalist, <<d, k>>) /\ datalist \in Seq(Packets)
    BY <1>2 DEF Push, TypeInv
  <2>2. Len(datalist') = Len(datalist) + 1 /\ datalist'[Len(datalist) + 1] = <<d, k>>
        /\ Len(datalist) \in Nat
    BY <1>2, <2>1, AppendIs
  <2> QED  BY <2>2 DEF Queued
<1>4. ~Queued(d, k) /\ ~Handling /\ ~AtFront(d, k) /\ ~AtFront(d, k)' /\ loop' # "decide"
  BY <1>1, QueuedIs DEF Pushed, AtFront, Handling, Push, LoopInv
<1>5. /\ ThreadHolds(d, k) /\ QueueHolds(d, k) /\ Born(d, k)
      /\ QueueHolds(d, k)' /\ ~ThreadStores(d, k)' /\ ~LoopStores(d, k)'
      /\ ~ThreadDecides(d, k)' /\ ~LoopDecides(d, k)'
  BY <1>1, <1>2, <1>3, <1>4 DEF ThreadHolds, QueueHolds, ThreadStores, Born,
     LoopStores, ThreadDecides, LoopDecides
<1>6. ThreadHolds(d, k)' /\ Copied(d, k)'
  BY <1>1, <1>2 DEF ThreadHolds, Copied, Pushed, Born
<1>7. CountOf(d, k)'
  BY <1>1, <1>5, <1>6 DEF CountOf, Ones
<1>8. Sound(d, k)'
  BY <1>1, <1>5, <1>6 DEF Sound, ExactOf, Ones
<1> QED  BY <1>7, <1>8

\* freePackets loads the count with the thread's share in it.
LEMMA FreeLoadKeeps ==
    ASSUME TypeInv, FrameInv, LoopInv, OrderInv, NEW d \in Devices, FreeLoad(d),
           NEW k \in 1..MaxPackets, k = Number(d), CountOf(d, k), Sound(d, k)
    PROVE  CountOf(d, k)' /\ Sound(d, k)'
<1> USE DeviceNames
<1>1. /\ lost' = lost
      /\ at[d] = "load" /\ at'[d] = "store" /\ Number(d)' = Number(d) /\ Base(d)' = Base(d)
      /\ encoded' = encoded /\ loop' = loop /\ freed' = freed
      /\ datalist' = datalist /\ shareCnt' = shareCnt
  BY DEF FreeLoad, Load, Number, Base, TypeInv
<1>2. Current(d) = <<d, k>> /\ <<d, k>> \in Packets /\ k <= encoded[d] /\ Number(d) \in Int
  BY <1>1, CurrentIs DEF InCallback
<1>3. shareCnt[<<d, k>>] \in Int /\ reg'[d] = shareCnt[<<d, k>>] /\ reg'["loop"] = reg["loop"]
  BY <1>2 DEF FreeLoad, Load, TypeInv
<1>4. (Queued(d, k)' <=> Queued(d, k)) /\ (AtFront(d, k)' <=> AtFront(d, k))
  BY <1>1 DEF Queued, AtFront, Handling
<1>5. ~overlap' => ~overlap /\ ~LoopDecides(d, k)
  BY <1>2, FrontIs DEF FreeLoad, LoopDecides, LoopDecrementing, AtFront
<1>6. /\ ThreadHolds(d, k) /\ ThreadHolds(d, k)' /\ ThreadStores(d, k)'
      /\ Copied(d, k) /\ Copied(d, k)' /\ (QueueHolds(d, k)' <=> QueueHolds(d, k))
      /\ (LoopStores(d, k)' <=> LoopStores(d, k)) /\ (LoopDecides(d, k)' <=> LoopDecides(d, k))
  BY <1>1, <1>2, <1>4 DEF ThreadHolds, QueueHolds, Copied, Pushed, ThreadStores, Born,
     LoopStores, LoopDecides
<1>7. CountOf(d, k)'
  BY <1>1, <1>3, <1>6 DEF CountOf, Ones
<1>8. Sound(d, k)'
  BY <1>1, <1>3, <1>5, <1>6 DEF Sound, ExactOf, Ones
<1> QED  BY <1>7, <1>8

\* It stores what it has loaded, less one.
LEMMA FreeStoreKeeps ==
    ASSUME TypeInv, FrameInv, LoopInv, OrderInv, NEW d \in Devices, FreeStore(d),
           NEW k \in 1..MaxPackets, k = Number(d), CountOf(d, k), Sound(d, k)
    PROVE  CountOf(d, k)' /\ Sound(d, k)'
<1> USE DeviceNames
<1>1. /\ lost' = lost
      /\ at[d] = "store" /\ at'[d] = "decide" /\ Number(d)' = Number(d) /\ Base(d)' = Base(d)
      /\ encoded' = encoded /\ loop' = loop /\ freed' = freed /\ reg' = reg
      /\ datalist' = datalist /\ overlap' = overlap
  BY DEF FreeStore, Store, Number, Base, TypeInv
<1>2. Current(d) = <<d, k>> /\ <<d, k>> \in Packets /\ k <= encoded[d] /\ Number(d) \in Int
  BY <1>1, CurrentIs DEF InCallback
<1>3. /\ shareCnt[<<d, k>>] \in Int /\ shareCnt'[<<d, k>>] = reg[d] - 1 /\ reg[d] \in 0..2
      /\ reg["loop"] \in 0..2
  BY <1>2 DEF FreeStore, Store, TypeInv
<1>4. (Queued(d, k)' <=> Queued(d, k)) /\ (AtFront(d, k)' <=> AtFront(d, k))
  BY <1>1 DEF Queued, AtFront, Handling
<1>5. /\ ThreadHolds(d, k) /\ ThreadStores(d, k) /\ ThreadDecides(d, k) /\ Born(d, k)
      /\ ~ThreadHolds(d, k)' /\ ~ThreadStores(d, k)' /\ ThreadDecides(d, k)'
  BY <1>1, <1>2 DEF ThreadHolds, ThreadStores, ThreadDecides, Born
<1>6. /\ Copied(d, k)' /\ (QueueHolds(d, k)' <=> QueueHolds(d, k))
      /\ (LoopStores(d, k)' <=> LoopStores(d, k)) /\ (LoopDecides(d, k)' <=> LoopDecides(d, k))
      /\ (LoopStores(d, k) => LoopDecides(d, k))
  BY <1>1, <1>2, <1>4 DEF QueueHolds, Copied, Pushed, LoopStores, LoopDecides
<1>7. CountOf(d, k)'
  BY <1>1, <1>3, <1>5, <1>6 DEF CountOf, Ones
<1>8. Sound(d, k)'
  BY <1>1, <1>3, <1>5, <1>6 DEF Sound, ExactOf, Ones
<1> QED  BY <1>7, <1>8

\* Who has taken the last share away deletes the packet, the other not.
LEMMA FreeDecideKeeps ==
    ASSUME TypeInv, FrameInv, LoopInv, OrderInv, NEW d \in Devices, FreeDecide(d),
           NEW k \in 1..MaxPackets, k = Number(d), CountOf(d, k), Sound(d, k)
    PROVE  CountOf(d, k)' /\ Sound(d, k)'
<1>1. /\ lost' = lost
      /\ at[d] = "decide" /\ Base(d)' = Base(d) /\ Number(d)' = Base(d) + i'[d]
      /\ encoded' = encoded /\ loop' = loop /\ reg' = reg /\ shareCnt' = shareCnt
      /\ datalist' = datalist /\ overlap' = overlap
      /\ \/ at'[d] = "load" /\ i'[d] = i[d] + 1
         \/ at'[d] = "check"
  BY DEF FreeDecide, Decide, Number, Base, TypeInv
<1>2. /\ Current(d) = <<d, k>> /\ <<d, k>> \in Packets /\ k <= encoded[d]
      /\ k = Base(d) + i[d] /\ Base(d) \in Int /\ i[d] \in Int
  <2>1. at[d] \in InCallback
    BY <1>1 DEF InCallback
  <2>2. k = Base(d) + i[d] /\ i[d] \in Int
    BY DEF Number, TypeInv
  <2>3. /\ Current(d) = <<d, k>> /\ <<d, k>> \in Packets /\ k <= encoded[d] /\ Base(d) \in Nat
    BY <2>1, CurrentIs
  <2> QED  BY <2>2, <2>3
<1>3. shareCnt[<<d, k>>] \in Int
      /\ freed' = IF shareCnt[<<d, k>>] <= 0 THEN freed \cup {<<d, k>>} ELSE freed
  BY <1>2 DEF FreeDecide, Decide, TypeInv
<1>4. (Queued(d, k)' <=> Queued(d, k)) /\ (AtFront(d, k)' <=> AtFront(d, k))
  BY <1>1 DEF Queued, AtFront, Handling
<1>5. /\ ~ThreadHolds(d, k) /\ ThreadDecides(d, k) /\ Born(d, k) /\ Born(d, k)'
  BY <1>1, <1>2 DEF ThreadHolds, ThreadDecides, Born, Number
<1>6. ~ThreadHolds(d, k)' /\ ~ThreadStores(d, k)' /\ ~ThreadDecides(d, k)'
  BY <1>1, <1>2 DEF ThreadHolds, ThreadDecides, ThreadStores
<1>7. /\ Copied(d, k)' /\ (QueueHolds(d, k)' <=> QueueHolds(d, k))
      /\ (LoopStores(d, k)' <=> LoopStores(d, k)) /\ (LoopDecides(d, k)' <=> LoopDecides(d, k))
      /\ (LoopStores(d, k) => LoopDecides(d, k))
  BY <1>1, <1>2, <1>4 DEF QueueHolds, Copied, Pushed, LoopStores, LoopDecides
<1>8. CountOf(d, k)'
  BY <1>1, <1>3, <1>5, <1>6, <1>7 DEF CountOf, Ones
<1>9. Sound(d, k)'
  BY <1>1, <1>3, <1>5, <1>6, <1>7 DEF Sound, ExactOf, Ones
<1> QED  BY <1>8, <1>9

\* The loop thread's steps are about the packet at the front.
LEMMA LoopElsewhere ==
    ASSUME TypeInv, LoopInv, OrderInv, NEW d \in Devices, NEW k \in 1..MaxPackets,
           \/ OnTimer \/ OnTimerEnds \/ SendFront \/ StopVideo \/ StopAudio \/ Idle
           \/ (DeleteLoad \/ DeleteStore \/ DeleteDecide) /\ ~AtFront(d, k)
    PROVE  Steady(d, k)
<1> USE DeviceNames
<1>1. UNCHANGED thread /\ reg'[d] = reg[d] /\ (loop = "store" => reg'["loop"] = reg["loop"])
  BY DEF OnTimer, OnTimerEnds, SendFront, StopVideo, StopAudio, Idle, vars, DeleteLoad,
     DeleteStore, DeleteDecide, Load, Store, Decide, TypeInv
<1>2. <<d, k>> \in Packets
  BY PacketParts
<1>3. /\ shareCnt'[<<d, k>>] = shareCnt[<<d, k>>] /\ (<<d, k>> \in freed' <=> <<d, k>> \in freed)
  <2>1. CASE OnTimer \/ OnTimerEnds \/ SendFront \/ StopVideo \/ StopAudio \/ Idle
    BY <2>1 DEF OnTimer, OnTimerEnds, SendFront, StopVideo, StopAudio, Idle, vars
  <2>2. CASE (DeleteLoad \/ DeleteStore \/ DeleteDecide) /\ ~AtFront(d, k)
    <3>1. Handling
      BY <2>2 DEF DeleteLoad, DeleteStore, DeleteDecide, Handling
    <3>2. Head(datalist) \in Packets /\ Head(datalist) # <<d, k>>
      BY <2>2, <3>1, FrontIs DEF AtFront
    <3> QED  BY <1>2, <2>2, <3>2 DEF DeleteLoad, DeleteStore, DeleteDecide, Load, Store, Decide,
             TypeInv
  <2> QED  BY <2>1, <2>2
<1>4. Queued(d, k)' <=> Queued(d, k)
  <2>1. CASE datalist' = datalist
    BY <2>1 DEF Queued
  <2>2. CASE DeleteDecide /\ ~AtFront(d, k)
    <3>1. /\ datalist' = Tail(datalist) /\ datalist # <<>> /\ datalist \in Seq(Packets)
          /\ datalist[1] # <<d, k>> /\ Len(datalist) \in Nat \ {0}
      BY <2>2, FrontIs DEF DeleteDecide, LoopInv, Handling, AtFront, TypeInv
    <3>2. /\ Len(datalist') = Len(datalist) - 1
          /\ \A a \in 1..Len(datalist') : datalist'[a] = datalist[a + 1]
      BY <3>1, TailIs
    <3>3. ASSUME NEW b \in 1..Len(datalist), datalist[b] = <<d, k>>
          PROVE  b - 1 \in 1..Len(datalist') /\ datalist'[b - 1] = <<d, k>>
      <4>1. b - 1 \in 1..Len(datalist') /\ (b - 1) + 1 = b
        BY <3>1, <3>2, <3>3
      <4>2. datalist'[b - 1] = datalist[(b - 1) + 1]
        BY <3>2, <4>1
      <4> QED  BY <3>3, <4>1, <4>2
    <3>4. ASSUME NEW b \in 1..Len(datalist'), datalist'[b] = <<d, k>>
          PROVE  b + 1 \in 1..Len(datalist) /\ datalist[b + 1] = <<d, k>>
      BY <3>1, <3>2, <3>4
    <3> QED  BY <3>3, <3>4 DEF Queued
  <2> QED  BY <2>1, <2>2 DEF OnTimer, OnTimerEnds, SendFront, StopVideo, StopAudio, Idle, vars,
           DeleteLoad, DeleteStore
<1>5. \/ datalist' = datalist
      \/ DeleteDecide /\ ~AtFront(d, k)
  BY DEF OnTimer, OnTimerEnds, SendFront, StopVideo, StopAudio, Idle, vars, DeleteLoad,
     DeleteStore
<1>6. /\ loop' \in {"store", "decide"} => (AtFront(d, k)' <=> AtFront(d, k))
      /\ loop \in {"store", "decide"} /\ loop' \notin {"store", "decide"} => ~AtFront(d, k)
      /\ loop' = "store" /\ loop # "store" => ~AtFront(d, k)
      /\ loop' \in {"store", "decide"} /\ loop \notin {"store", "decide"} => ~AtFront(d, k)
      /\ loop' # loop /\ (loop' = "decide" \/ loop = "decide") => ~AtFront(d, k)
      /\ loop' # loop /\ (loop' = "store" \/ loop = "store") => ~AtFront(d, k)
  BY <1>5 DEF OnTimer, OnTimerEnds, SendFront, StopVideo, StopAudio, Idle, vars, DeleteLoad,
     DeleteStore, DeleteDecide, AtFront, Handling
<1>7. (QueueHolds(d, k)' <=> QueueHolds(d, k))
  BY <1>1, <1>4, <1>6 DEF QueueHolds, Number, Base, thread
<1>8. (LoopStores(d, k)' <=> LoopStores(d, k)) /\ (LoopDecides(d, k)' <=> LoopDecides(d, k))
  BY <1>6 DEF LoopStores, LoopDecides
<1> QED  BY <1>1, <1>3, <1>7, <1>8 DEF Steady, Born, ThreadHolds, Copied, Pushed, ThreadStores,
         ThreadDecides, Number, Base, thread, LoopStores

\* What a step of the loop leaves alone.
LEMMA LoopLeaves ==
    ASSUME UNCHANGED thread, NEW d, NEW k
    PROVE  /\ Born(d, k)' <=> Born(d, k)
           /\ ThreadHolds(d, k)' <=> ThreadHolds(d, k)
           /\ Copied(d, k)' <=> Copied(d, k)
           /\ ThreadStores(d, k)' <=> ThreadStores(d, k)
           /\ ThreadDecides(d, k)' <=> ThreadDecides(d, k)
           /\ at' = at /\ Number(d)' = Number(d)
BY DEF thread, Born, ThreadHolds, Copied, Pushed, ThreadStores, ThreadDecides, Number, Base

\* The destructor of the share loads the count with the queue's share in it.
LEMMA DeleteLoadKeeps ==
    ASSUME TypeInv, FrameInv, LoopInv, OrderInv, DeleteLoad, NEW d \in Devices,
           NEW k \in 1..MaxPackets, AtFront(d, k), CountOf(d, k), Sound(d, k)
    PROVE  CountOf(d, k)' /\ Sound(d, k)'
<1> USE DeviceNames
<1>1. /\ lost' = lost
      /\ loop = "load" /\ loop' = "store" /\ UNCHANGED thread /\ datalist' = datalist
      /\ shareCnt' = shareCnt /\ freed' = freed
  BY DEF DeleteLoad, Load
<1>2. Head(datalist) = <<d, k>> /\ <<d, k>> \in Packets
  BY FrontIs DEF AtFront
<1>3. shareCnt[<<d, k>>] \in Int /\ reg'["loop"] = shareCnt[<<d, k>>] /\ reg'[d] = reg[d]
  <2>1. reg' = [reg EXCEPT !["loop"] = shareCnt[Head(datalist)]]
    BY DEF DeleteLoad, Load
  <2>2. shareCnt[<<d, k>>] \in Int
    BY <1>2 DEF TypeInv
  <2> QED  BY <1>2, <2>1, <2>2 DEF TypeInv
<1>4. Queued(d, k) /\ Queued(d, k)' /\ AtFront(d, k)' /\ Copied(d, k) /\ Born(d, k)
  BY <1>1, QueuedIs DEF Queued, AtFront, Handling
<1>5. ~overlap' => ~overlap /\ ~ThreadDecides(d, k)
  <2>1. ThreadDecides(d, k) => Decrementing(d) /\ Current(d) = Head(datalist)
    BY <1>2, CurrentIs DEF ThreadDecides, Decrementing, InCallback
  <2> QED  BY <2>1 DEF DeleteLoad
<1>6. /\ QueueHolds(d, k) /\ QueueHolds(d, k)' /\ LoopStores(d, k)' /\ LoopDecides(d, k)'
  BY <1>1, <1>4 DEF QueueHolds, LoopStores, LoopDecides
<1>7. CountOf(d, k)'
  BY <1>1, <1>3, <1>4, <1>6, LoopLeaves DEF CountOf, Ones
<1>8. Sound(d, k)'
  BY <1>1, <1>3, <1>4, <1>5, <1>6, LoopLeaves DEF Sound, ExactOf, Ones
<1> QED  BY <1>7, <1>8

\* It stores what it has loaded, less one.
LEMMA DeleteStoreKeeps ==
    ASSUME TypeInv, FrameInv, LoopInv, OrderInv, DeleteStore, NEW d \in Devices,
           NEW k \in 1..MaxPackets, AtFront(d, k), CountOf(d, k), Sound(d, k)
    PROVE  CountOf(d, k)' /\ Sound(d, k)'
<1> USE DeviceNames
<1>1. /\ lost' = lost
      /\ loop = "store" /\ loop' = "decide" /\ UNCHANGED thread /\ datalist' = datalist
      /\ reg' = reg /\ freed' = freed /\ overlap' = overlap
  BY DEF DeleteStore, Store
<1>2. Head(datalist) = <<d, k>> /\ <<d, k>> \in Packets
  BY FrontIs DEF AtFront
<1>3. /\ shareCnt[<<d, k>>] \in Int /\ shareCnt'[<<d, k>>] = reg["loop"] - 1
      /\ reg["loop"] \in 0..2 /\ reg[d] \in 0..2
  BY <1>2 DEF DeleteStore, Store, TypeInv
<1>4. /\ Queued(d, k) /\ Queued(d, k)' /\ AtFront(d, k)' /\ Copied(d, k) /\ Born(d, k)
      /\ Pushed(d, k)
  BY <1>1, QueuedIs DEF Queued, AtFront, Handling
<1>5. /\ QueueHolds(d, k) /\ ~QueueHolds(d, k)' /\ LoopStores(d, k) /\ LoopDecides(d, k)
      /\ ~LoopStores(d, k)' /\ LoopDecides(d, k)'
  BY <1>1, <1>4, LoopLeaves DEF QueueHolds, LoopStores, LoopDecides, Pushed
<1>6. CountOf(d, k)'
  BY <1>1, <1>3, <1>4, <1>5, LoopLeaves DEF CountOf, Ones
<1>7. ThreadStores(d, k) => ThreadDecides(d, k)
  BY DEF ThreadStores, ThreadDecides
<1>8. Sound(d, k)'
  BY <1>1, <1>3, <1>4, <1>5, <1>7, LoopLeaves DEF Sound, ExactOf, Ones
<1> QED  BY <1>6, <1>8

\* The packet leaves datalist, which has it but once.
LEMMA DeleteDecideKeeps ==
    ASSUME TypeInv, FrameInv, LoopInv, OrderInv, DeleteDecide, NEW d \in Devices,
           NEW k \in 1..MaxPackets, AtFront(d, k), CountOf(d, k), Sound(d, k)
    PROVE  CountOf(d, k)' /\ Sound(d, k)'
<1>1. /\ lost' = lost
      /\ loop = "decide" /\ loop' = "send" /\ UNCHANGED thread /\ datalist' = Tail(datalist)
      /\ reg' = reg /\ shareCnt' = shareCnt /\ overlap' = overlap
  BY DEF DeleteDecide, Decide
<1>2. /\ Head(datalist) = <<d, k>> /\ <<d, k>> \in Packets /\ datalist[1] = <<d, k>>
      /\ Len(datalist) \in Nat \ {0} /\ datalist \in Seq(Packets) /\ datalist # <<>>
  BY FrontIs DEF AtFront, LoopInv, TypeInv
<1>3. /\ shareCnt[<<d, k>>] \in Int
      /\ freed' = IF shareCnt[<<d, k>>] <= 0 THEN freed \cup {<<d, k>>} ELSE freed
  <2>1. shareCnt[<<d, k>>] \in Int
    BY <1>2 DEF TypeInv
  <2>2. freed' = IF shareCnt[Head(datalist)] <= 0 THEN freed \cup {Head(datalist)} ELSE freed
    BY DEF DeleteDecide, Decide
  <2> QED  BY <1>2, <2>1, <2>2
<1>4. /\ Queued(d, k) /\ Copied(d, k) /\ Born(d, k) /\ Pushed(d, k)
  BY QueuedIs
<1>5. ~Queued(d, k)'
  <2>1. /\ Len(datalist') = Len(datalist) - 1
        /\ \A a \in 1..Len(datalist') : datalist'[a] = datalist[a + 1]
    BY <1>1, <1>2, TailIs
  <2>2. ASSUME NEW b \in 1..Len(datalist'), datalist'[b] = <<d, k>>
        PROVE  FALSE
    <3>1. b + 1 \in 1..Len(datalist) /\ 1 < b + 1 /\ 1 \in 1..Len(datalist)
          /\ datalist[b + 1] = <<d, k>>
      BY <1>2, <2>1, <2>2
    <3>2. Before(datalist[1], datalist[b + 1])
      BY <3>1 DEF OrderInv
    <3> QED  BY <1>2, <3>1, <3>2 DEF Before
  <2> QED  BY <2>2 DEF Queued
<1>6. /\ ~QueueHolds(d, k) /\ ~QueueHolds(d, k)' /\ LoopDecides(d, k) /\ ~LoopStores(d, k)
      /\ ~LoopStores(d, k)' /\ ~LoopDecides(d, k)'
  BY <1>1, <1>4, <1>5, LoopLeaves DEF QueueHolds, LoopStores, LoopDecides, Pushed, Number, Base,
     TypeInv
<1>7. CountOf(d, k)'
  BY <1>1, <1>3, <1>4, <1>6, LoopLeaves DEF CountOf, Ones
<1>8. Sound(d, k)'
  BY <1>1, <1>3, <1>4, <1>6, LoopLeaves DEF Sound, ExactOf, Ones
<1> QED  BY <1>7, <1>8

\* The client's destructor takes the queue's share of every packet left.
LEMMA DeleteClientKeeps ==
    ASSUME TypeInv, FrameInv, LoopInv, OrderInv, DeleteClient, NEW d \in Devices,
           NEW k \in 1..MaxPackets, CountOf(d, k), Sound(d, k)
    PROVE  CountOf(d, k)' /\ Sound(d, k)'
<1>1. /\ lost' = lost
      /\ loop = "stopped" /\ loop' = "gone" /\ UNCHANGED thread /\ datalist' = <<>>
      /\ reg' = reg /\ overlap' = overlap /\ at[d] \notin InCallback
  BY DEF DeleteClient, LoopInv
<1>2. <<d, k>> \in Packets /\ shareCnt[<<d, k>>] \in Int
  BY PacketParts DEF TypeInv
<1>3. <<d, k>> \in ToSet(datalist) <=> Queued(d, k)
  <2>1. DOMAIN datalist = 1..Len(datalist)
    BY DEF TypeInv
  <2> QED  BY <2>1 DEF ToSet, Queued
<1>4. /\ shareCnt'[<<d, k>>] = IF Queued(d, k) THEN shareCnt[<<d, k>>] - 1
                                               ELSE shareCnt[<<d, k>>]
      /\ <<d, k>> \in freed' <=> \/ <<d, k>> \in freed
                                 \/ Queued(d, k) /\ shareCnt'[<<d, k>>] <= 0
  BY <1>2, <1>3 DEF DeleteClient
<1>5. ~Queued(d, k)'
  BY <1>1 DEF Queued
<1>6. Queued(d, k) => Born(d, k) /\ Copied(d, k)
  BY QueuedIs
<1>7. /\ ~ThreadHolds(d, k) /\ ~ThreadStores(d, k) /\ ~ThreadDecides(d, k)
      /\ ~LoopStores(d, k) /\ ~LoopDecides(d, k) /\ ~LoopStores(d, k)' /\ ~LoopDecides(d, k)'
      /\ (QueueHolds(d, k) <=> Queued(d, k)) /\ ~QueueHolds(d, k)'
  BY <1>1, <1>5, LoopLeaves DEF ThreadHolds, ThreadStores, ThreadDecides, LoopStores, LoopDecides,
     QueueHolds, InCallback
<1>8. CountOf(d, k)'
  BY <1>1, <1>2, <1>4, <1>6, <1>7, LoopLeaves DEF CountOf, Ones
<1>9. Sound(d, k)'
  BY <1>1, <1>2, <1>4, <1>6, <1>7, LoopLeaves DEF Sound, ExactOf, Ones
<1> QED  BY <1>8, <1>9

\* Every count is accounted for after every step.
LEMMA ShareStep ==
    ASSUME TypeInv, FrameInv, LoopInv, OrderInv, CountInv, ExactInv, Next
    PROVE  CountInv' /\ ExactInv'
<1> SUFFICES ASSUME NEW e \in Devices, NEW k \in 1..MaxPackets
             PROVE  CountOf(e, k)' /\ Sound(e, k)'
  BY Zenon DEF CountInv, ExactInv
<1>1. CountOf(e, k) /\ Sound(e, k)
  BY DEF CountInv, ExactInv
<1>2. (overlap => overlap') /\ lost \subseteq lost'
  <2>1. overlap => overlap'
    <3>1. ASSUME NEW d \in Devices, Thread(d)
          PROVE  overlap => overlap'
      BY <3>1 DEF Thread, Encode, EncodeFails, Capture, NoFrame, Copy, Push, FreeLoad,
         FreeStore, FreeDecide, EndTurn
    <3>2. CASE Timer
      BY <3>2 DEF Timer, OnTimer, SendFront, DeleteLoad, DeleteStore, DeleteDecide, OnTimerEnds
    <3>3. CASE Stopping \/ Idle
      BY <3>3 DEF Stopping, StopVideo, StopAudio, DeleteClient, Idle, vars
    <3> QED  BY <3>1, <3>2, <3>3 DEF Next
  <2>2. lost \subseteq lost'
    BY DEF Next, Thread, Encode, EncodeFails, Capture, NoFrame, Copy, Push, FreeLoad, FreeStore,
       FreeDecide, EndTurn,
       Timer, OnTimer, SendFront, DeleteLoad, DeleteStore, DeleteDecide, OnTimerEnds,
       Stopping, StopVideo, StopAudio, DeleteClient, Idle, vars
  <2> QED  BY <2>1, <2>2
<1>3. ASSUME Steady(e, k)
      PROVE  CountOf(e, k)' /\ Sound(e, k)'
  BY <1>1, <1>2, <1>3, SteadyKeeps DEF Sound
<1>4. ASSUME NEW d \in Devices, Thread(d), d # e
      PROVE  Steady(e, k)
  BY <1>4, OtherDevice
<1>5. ASSUME Thread(e)
      PROVE  CountOf(e, k)' /\ Sound(e, k)'
  <2>1. ASSUME NEW n \in Batches, Encode(e, n)
        PROVE  CountOf(e, k)' /\ Sound(e, k)'
    BY <1>1, <2>1, EncodeKeeps
  <2>8. ASSUME NEW n \in Batches, EncodeFails(e, n)
        PROVE  CountOf(e, k)' /\ Sound(e, k)'
    BY <1>1, <2>8, FailsKeeps
  <2>2. CASE NoFrame(e) \/ EndTurn(e)
    BY <1>3, <2>2, OtherPackets
  <2>3. CASE Copy(e)
    BY <1>1, <1>3, <2>3, OtherPackets, CopyKeeps
  <2>4. CASE Push(e)
    BY <1>1, <1>3, <2>4, OtherPackets, PushKeeps
  <2>5. CASE FreeLoad(e)
    BY <1>1, <1>3, <2>5, OtherPackets, FreeLoadKeeps
  <2>6. CASE FreeStore(e)
    BY <1>1, <1>3, <2>6, OtherPackets, FreeStoreKeeps
  <2>7. CASE FreeDecide(e)
    BY <1>1, <1>3, <2>7, OtherPackets, FreeDecideKeeps
  <2> QED  BY <1>5, <2>1, <2>2, <2>3, <2>4, <2>5, <2>6, <2>7, <2>8 DEF Thread
<1>6. CASE OnTimer \/ OnTimerEnds \/ SendFront \/ StopVideo \/ StopAudio \/ Idle
  BY <1>3, <1>6, LoopElsewhere
<1>7. CASE DeleteLoad
  BY <1>1, <1>3, <1>7, LoopElsewhere, DeleteLoadKeeps
<1>8. CASE DeleteStore
  BY <1>1, <1>3, <1>8, LoopElsewhere, DeleteStoreKeeps
<1>9. CASE DeleteDecide
  BY <1>1, <1>3, <1>9, LoopElsewhere, DeleteDecideKeeps
<1>10. CASE DeleteClient
  BY <1>1, <1>10, DeleteClientKeeps
<1> QED  BY <1>3, <1>4, <1>5, <1>6, <1>7, <1>8, <1>9, <1>10 DEF Next, Timer, Stopping

\* Whoever touches a packet has a share of it, or has yet to decide: without an
\* overlap it is not freed.
LEMMA FaultStep ==
    ASSUME TypeInv, FrameInv, LoopInv, OrderInv, LostInv, CountInv, ExactInv, Next,
           faults = {}, faults' # {}
    PROVE  overlap'
<1>1. ASSUME NEW d \in Devices, NEW k \in 1..MaxPackets, <<d, k>> \in freed, ~overlap
      PROVE  /\ ~ThreadHolds(d, k) /\ ~QueueHolds(d, k)
             /\ ~ThreadDecides(d, k) /\ ~LoopDecides(d, k)
  BY <1>1 DEF ExactInv, Sound, ExactOf, LostInv, Live
<1>2. ASSUME NEW d \in Devices, at[d] \in InCallback, Current(d) \in freed
      PROVE  overlap
  <2>1. PICK k \in 1..MaxPackets : /\ Current(d) = <<d, k>> /\ k = Number(d)
                                   /\ k <= encoded[d] /\ k > Base(d)
    BY <1>2, CurrentIs
  <2>2. ThreadHolds(d, k) \/ ThreadDecides(d, k)
    BY <1>2, <2>1 DEF ThreadHolds, ThreadDecides, Born, InCallback
  <2> QED  BY <1>1, <1>2, <2>1, <2>2
<1>3. ASSUME loop \in {"send", "load", "store", "decide"}, datalist # <<>>,
             Head(datalist) \in freed
      PROVE  overlap
  <2>1. PICK p \in Packets : p = Head(datalist) /\ p = datalist[1]
    BY <1>3 DEF TypeInv
  <2>2. PICK d \in Devices, k \in 1..MaxPackets : p = <<d, k>>
    BY PacketParts
  <2>3. Queued(d, k)
    <3>1. 1 \in 1..Len(datalist)
      BY <1>3 DEF TypeInv
    <3> QED  BY <2>1, <2>2, <3>1 DEF Queued
  <2>4. QueueHolds(d, k) \/ LoopDecides(d, k)
    BY <1>3, <2>1, <2>2, <2>3 DEF QueueHolds, LoopDecides, AtFront, Handling
  <2> QED  BY <1>1, <1>3, <2>1, <2>2, <2>4
<1>t. ASSUME NEW p, Touch(p) PROVE p \in freed
  BY <1>t DEF Touch
<1>4. ASSUME NEW d \in Devices, Thread(d)
      PROVE  overlap'
  <2>1. /\ ~(\E n \in Batches : Encode(d, n) \/ EncodeFails(d, n))
        /\ ~NoFrame(d) /\ ~Push(d) /\ ~EndTurn(d)
    BY DEF Encode, EncodeFails, Capture, NoFrame, Push, EndTurn
  <2>2. CASE Copy(d)
    BY <1>2, <1>t, <2>2 DEF Copy, InCallback
  <2>3. CASE FreeLoad(d)
    BY <1>2, <1>t, <2>3 DEF FreeLoad, Load, InCallback
  <2>4. CASE FreeStore(d)
    BY <1>2, <1>t, <2>4 DEF FreeStore, Store, InCallback
  <2>5. CASE FreeDecide(d)
    BY <1>2, <1>t, <2>5 DEF FreeDecide, Decide, InCallback
  <2> QED  BY <1>4, <2>1, <2>2, <2>3, <2>4, <2>5 DEF Thread
<1>5. CASE Timer
  <2>1. ~OnTimer /\ ~OnTimerEnds
    BY DEF OnTimer, OnTimerEnds
  <2>2. CASE SendFront
    BY <1>3, <1>t, <2>2 DEF SendFront
  <2>3. CASE DeleteLoad
    BY <1>3, <1>t, <2>3 DEF DeleteLoad, Load, LoopInv, Handling
  <2>4. CASE DeleteStore
    BY <1>3, <1>t, <2>4 DEF DeleteStore, Store, LoopInv, Handling
  <2>5. CASE DeleteDecide
    BY <1>3, <1>t, <2>5 DEF DeleteDecide, Decide, LoopInv, Handling
  <2> QED  BY <1>5, <2>1, <2>2, <2>3, <2>4, <2>5 DEF Timer
<1>6. CASE Stopping
  <2>1. loop = "stopped" /\ ToSet(datalist) \cap freed # {} /\ overlap' = overlap
    BY <1>6 DEF Stopping, StopVideo, StopAudio, DeleteClient
  <2>2. PICK b \in 1..Len(datalist) : datalist[b] \in freed /\ datalist[b] \in Packets
    BY <2>1 DEF ToSet, TypeInv
  <2>3. PICK d \in Devices, k \in 1..MaxPackets : datalist[b] = <<d, k>>
    BY <2>2, PacketParts
  <2>4. QueueHolds(d, k)
    BY <2>1, <2>3 DEF QueueHolds, Queued
  <2> QED  BY <1>1, <2>1, <2>2, <2>3, <2>4
<1>7. CASE Idle
  BY <1>7 DEF Idle, vars
<1> QED  BY <1>4, <1>5, <1>6, <1>7 DEF Next

\* The invariant is inductive.
THEOREM Inductive == IInv /\ [Next]_vars => IInv'
<1> SUFFICES ASSUME IInv, [Next]_vars PROVE IInv'
  OBVIOUS
<1>1. CASE UNCHANGED vars
  <2>1. /\ UNCHANGED <<recording_, start_, at, mutex, outpkts, i, encoded, shareCnt, freed>>
        /\ UNCHANGED <<datalist, data_mutex, loop, reg, client, sent, overlap, faults, lost>>
    BY <1>1 DEF vars, thread
  <2>2. TypeInv' /\ FrameInv' /\ LoopInv'
    BY <2>1 DEF IInv, TypeInv, FrameInv, LoopInv, Base, Handling
  <2>6. LostInv'
    BY <2>1 DEF IInv, LostInv, Live, Base
  <2>3. OrderInv'
    BY <2>1 DEF IInv, OrderInv, First, Handling, Before, Done, Pushed, Number, Base
  <2>4. ASSUME NEW d, NEW k
        PROVE  (CountOf(d, k) => CountOf(d, k)') /\ (ExactOf(d, k) => ExactOf(d, k)')
    <3>1. Steady(d, k)
      BY <2>1 DEF Steady, Born, ThreadHolds, QueueHolds, Queued, AtFront, Handling, Copied, Pushed,
         ThreadStores, LoopStores, ThreadDecides, LoopDecides, Number, Base
    <3> QED  BY <3>1, SteadyKeeps
  <2>5. faults' = {} => CountInv' /\ ExactInv'
    BY <2>1, <2>4, Zenon DEF IInv, CountInv, ExactInv, Sound
  <2> QED  BY <2>1, <2>2, <2>3, <2>5, <2>6 DEF IInv
<1>2. CASE Next /\ ~(UNCHANGED vars)
  <2>1. faults = {}
    BY <1>2 DEF Next, Thread, Encode, EncodeFails, Capture, NoFrame, Copy, Push, FreeLoad,
       FreeStore, FreeDecide,
       EndTurn, Timer, OnTimer, SendFront, DeleteLoad, DeleteStore, DeleteDecide, OnTimerEnds,
       Stopping, StopVideo, StopAudio, DeleteClient, Idle
  <2>2. TypeInv' /\ FrameInv' /\ LoopInv' /\ OrderInv' /\ LostInv'
    BY <1>2, <2>1, TypeStep, FrameStep, LoopStep, OrderStep, LostStep DEF IInv
  <2>3. CountInv' /\ ExactInv'
    BY <1>2, <2>1, ShareStep DEF IInv
  <2>4. faults' # {} => overlap'
    BY <1>2, <2>1, FaultStep DEF IInv
  <2> QED  BY <2>2, <2>3, <2>4 DEF IInv
<1> QED  BY <1>1, <1>2

\* It holds in every state.
LEMMA Always == Spec => []IInv
BY Initially, Inductive, PTL DEF Spec

-----------------------------------------------------------------------------
(* The properties *)

\* The types hold, and a callback runs only under its device's mutex.
THEOREM TypesCorrect == Spec => []TypeOK
<1>1. IInv => TypeOK
  <2> SUFFICES ASSUME IInv PROVE TypeOK
    OBVIOUS
  <2>1. \A d \in Devices : i[d] \in 1..(MaxPackets + 1) /\ encoded[d] \in 0..MaxPackets
    BY DEF IInv, TypeInv
  <2>2. \A d \in Devices : mutex[d] = "thread" <=> at[d] \in InCallback \cup {"check"}
    BY DEF IInv, FrameInv
  <2> QED  BY <2>1, <2>2 DEF IInv, TypeInv, TypeOK
<1> QED  BY <1>1, Always, PTL

\* However many packets the encoders make, and whatever interleaving of threads:
\* a packet that is used after it was freed has been decremented by two threads
\* at once; without that just those of an encode that failed leak; and each
\* device's packets are sent in order, none twice (freePackets,
\* ~MediaPacketShareData, onTimer, the return of RecordDataIsAvailable and
\* YuvDataIsAvailable).
THEOREM PacketsAreShared == Spec => []PacketsShared
<1>1. IInv => OnlyRacesFault
  BY DEF IInv, OnlyRacesFault
<1>2. IInv => OnlyFailedLeak
  <2> SUFFICES ASSUME IInv, client = "freed", ~overlap, faults = {}, NEW d \in Devices,
                      NEW k \in 1..encoded[d]
               PROVE  (<<d, k>> \in freed) = (<<d, k>> \notin lost)
    BY DEF OnlyFailedLeak
  <2>1. k \in 1..MaxPackets /\ Born(d, k)
    BY BoundsAssumption DEF IInv, TypeInv, Born
  <2>2. loop = "gone" /\ at[d] \notin InCallback /\ datalist = <<>>
    BY DEF IInv, LoopInv
  <2>3. /\ ~ThreadHolds(d, k) /\ ~QueueHolds(d, k)
        /\ ~ThreadDecides(d, k) /\ ~LoopDecides(d, k)
    BY <2>2 DEF ThreadHolds, QueueHolds, Queued, ThreadDecides, LoopDecides, InCallback
  <2>4. <<d, k>> \notin lost => ExactOf(d, k)
    BY <2>1 DEF IInv, ExactInv, Sound
  <2>5. <<d, k>> \in freed => <<d, k>> \notin lost
    BY DEF IInv, LostInv, Live
  <2> QED  BY <2>1, <2>3, <2>4, <2>5 DEF ExactOf
<1>3. IInv => SentInOrder
  BY DEF IInv, OrderInv, Before, SentInOrder
<1> QED  BY <1>1, <1>2, <1>3, Always, PTL DEF PacketsShared

\* Once the client is deleted no device thread is in its callback, and none
\* enters it (StopRecord, onPublishStop).
THEOREM NoneCallsBack == Spec => []NoCallbackAfterDelete
<1>1. IInv => NoCallbackAfterDelete
  BY DEF IInv, LoopInv, NoCallbackAfterDelete
<1> QED  BY <1>1, Always, PTL
=============================================================================
