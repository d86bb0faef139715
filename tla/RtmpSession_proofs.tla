------------------------- MODULE RtmpSession_proofs -------------------------
(***************************************************************************)
(* Proofs about RtmpSession for every number of handshake segments, set of *)
(* stream ids and number of messages.                                      *)
(***************************************************************************)
EXTENDS RtmpSession, SequenceTheorems, TLAPS

FaultNames == {"handshake_overflow", "garbage_device", "timer_closed_twice",
               "timer_freed_in_use", "callback_after_free",
               "send_on_freed_socket", "null_status", "socket_closed_twice"}

\* FaultsExplained, fault by fault.
FaultsOK ==
    /\ faults \subseteq FaultNames
    /\ "handshake_overflow" \in faults => "early_bytes" \in disorder
    /\ "garbage_device" \in faults => "device_uninit" \in disorder
    /\ "timer_closed_twice" \in faults => "status_repeated" \in disorder
    /\ "timer_freed_in_use" \in faults =>
         "eof_overtakes" \in disorder \/ "havestop_uninit" \in disorder
    /\ "callback_after_free" \in faults =>
         "status_repeated" \in disorder \/ "havestop_uninit" \in disorder
    /\ "send_on_freed_socket" \in faults => "stop_after_close" \in disorder
    /\ "null_status" \in faults => "status_without_code" \in disorder
    /\ "socket_closed_twice" \notin faults

\* libuv's lists hold exactly the handles that are closing, and the socket
\* before the timer when both are.
ListInv ==
    /\ phase = "poll" => running = <<>>
    /\ \/ closing = <<>> /\ running = <<>> /\ tcp # "closing" /\ timer # "closing"
       \/ /\ tcp = "closing" /\ timer # "closing"
          /\ \/ closing = <<"tcp">> /\ running = <<>>
             \/ closing = <<>> /\ running = <<"tcp">>
       \/ /\ tcp # "closing" /\ timer = "closing"
          /\ \/ closing = <<"timer">> /\ running = <<>>
             \/ closing = <<>> /\ running = <<"timer">>
       \/ /\ tcp = "closing" /\ timer = "closing"
          /\ \/ closing = <<"tcp", "timer">> /\ running = <<>>
             \/ closing = <<>> /\ running = <<"tcp", "timer">>

\* How the stages of the object, the socket and the timer go together.
LifeInv ==
    /\ dir = "pull" <=> timer = "none"
    /\ rtmp_socket_ = "null" <=> tcp = "freed"
    /\ rtmp_socket_ = "uninit" <=> tcp = "none"
    /\ tcp \in {"none", "connecting"} => status_ = "START"
    /\ client = "freed" => tcp = "freed" /\ timer \in {"none", "closed"}
    /\ tcp = "freed" => havestop /\ timer \in {"none", "closing", "closed"}
    /\ timer \in {"closing", "closed"} => havestop
    /\ timer = "closing" => tcp \in {"open", "closing", "freed"}
    /\ timer = "closed" => tcp \in {"closing", "freed"}
    /\ tcp = "freed" /\ timer = "closed" => client = "freed"
    /\ timer = "closing" /\ tcp = "open" => "Unpublish.Success" \in seen
    /\ timer = "closing" /\ tcp = "closing" => "eof_overtakes" \in disorder
    /\ timer \in {"idle", "active"} /\ havestop => "havestop_uninit" \in disorder

\* What the devices may be doing.
DeviceInv ==
    /\ dir = "pull" => video_device_ = "null" /\ audio_device_ = "null"
    /\ audio_device_ = "garbage" => "device_uninit" \in disorder
    /\ video_device_ # "garbage"
    /\ orphan => "status_repeated" \in disorder
    /\ (video_device_ = "recording" \/ audio_device_ = "recording") =>
         /\ "Publish.Start" \in seen
         /\ \/ timer = "active" /\ "Unpublish.Success" \notin seen
            \/ "status_repeated" \in disorder
    /\ client = "freed" => video_device_ # "recording"
    /\ client = "freed" => audio_device_ # "recording" /\ ~orphan
    /\ timer = "active" => "Publish.Start" \in seen
    /\ timer \in {"idle", "active"} => "Unpublish.Success" \notin seen

\* What pushPullStatus_ says about the answers received.
GrantInv ==
    /\ sent \cap {"setChunkSize", "publish", "getStreamLength", "play",
                  "setBufferLength"} # {} => pushPullStatus_ = "PUSH_OR_PULL"
    /\ \A n \in Numbers : requestsMap_[n] = "connect" =>
                            n = 1 /\ "connect" \in sent
    /\ \A n \in Numbers : requestsMap_[n] = "createStream" =>
                            n = CreateNumber /\ "createStream" \in sent
    /\ "createStream" \in sent => requestsMap_[CreateNumber] = "createStream"
    /\ pushPullStatus_ = "CONNECT_APP" => "createStream" \notin sent /\ granted = 0
    /\ pushPullStatus_ = "CREATE_STREAM" => 1 \in answered /\ granted = 0
    /\ pushPullStatus_ = "PUSH_OR_PULL" =>
         /\ {1, CreateNumber} \subseteq answered
         /\ streamid = granted /\ streamid # 0
    /\ "connect" \in sent => status_ = "SEND_C2"
    /\ pushPullStatus_ # "CONNECT_APP" => status_ = "SEND_C2"
    /\ sent \subseteq {"c0c1"} \/ status_ = "SEND_C2" \/ "early_stop" \in disorder

\* The inductive invariant.  After a fault the behaviour has stopped, and only
\* the types and the table of causes are claimed.
IInv ==
    /\ TypeOK
    /\ FaultsOK
    /\ GrantInv
    /\ faults = {} => ListInv /\ LifeInv /\ DeviceInv

-----------------------------------------------------------------------------
\* The lists libuv builds from at most two handles.
LEMMA TwoHandles == <<"tcp">> \o <<"timer">> = <<"tcp", "timer">>
<1> DEFINE a == <<"tcp">>
           b == <<"timer">>
           c == <<"tcp", "timer">>
<1>1. a \in Seq(Handles) /\ b \in Seq(Handles) /\ c \in Seq(Handles)
  BY DEF Handles
<1>2. /\ Len(a) = 1 /\ a[1] = "tcp" /\ Len(b) = 1 /\ b[1] = "timer"
      /\ Len(c) = 2 /\ c[1] = "tcp" /\ c[2] = "timer"
  OBVIOUS
<1> HIDE DEF a, b, c
<1>3. /\ a \o b \in Seq(Handles) /\ Len(a \o b) = 2
      /\ (a \o b)[1] = "tcp" /\ (a \o b)[2] = "timer"
  BY <1>1, <1>2
<1>4. \A i \in 1..Len(c) : (a \o b)[i] = c[i]
  BY <1>2, <1>3
<1>5. a \o b = c
  BY <1>1, <1>2, <1>3, <1>4, SeqEqual
<1> QED
  BY <1>5 DEF a, b, c

LEMMA ClosingLists ==
    /\ <<"tcp">> \o <<>> = <<"tcp">> /\ <<"timer">> \o <<>> = <<"timer">>
    /\ Head(<<"tcp">>) = "tcp" /\ Tail(<<"tcp">>) = <<>>
    /\ Head(<<"timer">>) = "timer" /\ Tail(<<"timer">>) = <<>>
    /\ Head(<<"tcp", "timer">>) = "tcp" /\ Tail(<<"tcp", "timer">>) = <<"timer">>
    /\ <<"tcp">> # <<>> /\ <<"timer">> # <<>> /\ <<"tcp", "timer">> # <<>>
  OBVIOUS

LEMMA ListTypes ==
    /\ <<>> \in Seq(Handles) /\ <<"tcp">> \in Seq(Handles)
    /\ <<"timer">> \in Seq(Handles) /\ <<"tcp", "timer">> \in Seq(Handles)
  BY DEF Handles

-----------------------------------------------------------------------------
(* Init *)

LEMMA InitIInv == Init => IInv
<1> SUFFICES ASSUME Init PROVE IInv
  OBVIOUS
<1>1. TypeOK
  <2>1. requestsMap_ \in [Numbers -> Names]
    BY DEF Init, Names
  <2>2. closing \in Seq(Handles) /\ running \in Seq(Handles)
    BY DEF Init, Handles
  <2>3. msgs \in 0..MaxMsgs
    BY MaxMsgsAssumption DEF Init
  <2>4. audio_device_ \in {"null", "garbage", "recording", "stopped"}
    BY DEF Init
  <2> QED
    BY <2>1, <2>2, <2>3, <2>4 DEF Init, TypeOK
<1>2. FaultsOK
  BY DEF Init, FaultsOK
<1>3. GrantInv
  BY DEF Init, GrantInv, Numbers, CreateNumber
<1>4. ListInv /\ LifeInv /\ DeviceInv
  BY DEF Init, ListInv, LifeInv, DeviceInv
<1> QED
  BY <1>1, <1>2, <1>3, <1>4 DEF IInv

-----------------------------------------------------------------------------
(* One lemma per action: it preserves the inductive invariant. *)

LEMMA EndPollIInv == ASSUME IInv, EndPoll PROVE IInv'
<1>0. faults = {} /\ TypeOK /\ FaultsOK /\ GrantInv /\ ListInv /\ LifeInv /\ DeviceInv
  BY DEF IInv, EndPoll
<1>1. TypeOK'
  BY <1>0 DEF EndPoll, vars, object, devices, loop, history, TypeOK, Numbers, Names,
     Handles, Statuses, Messages
<1>2. FaultsOK'
  BY <1>0 DEF EndPoll, vars, object, devices, loop, history, FaultsOK
<1>3. GrantInv'
  BY <1>0 DEF EndPoll, vars, object, devices, loop, history, GrantInv, Numbers,
     CreateNumber
<1>4. faults' = {} => ListInv'
  BY <1>0 DEF EndPoll, vars, object, devices, loop, history, ListInv
<1>5. faults' = {} => LifeInv'
  BY <1>0 DEF EndPoll, vars, object, devices, loop, history, LifeInv
<1>6. faults' = {} => DeviceInv'
  BY <1>0 DEF EndPoll, vars, object, devices, loop, history, DeviceInv
<1> QED
  BY <1>1, <1>2, <1>3, <1>4, <1>5, <1>6 DEF IInv

LEMMA EndClosingIInv == ASSUME IInv, EndClosing PROVE IInv'
<1>0. faults = {} /\ TypeOK /\ FaultsOK /\ GrantInv /\ ListInv /\ LifeInv /\ DeviceInv
  BY DEF IInv, EndClosing
<1>1. TypeOK'
  BY <1>0 DEF EndClosing, vars, object, devices, loop, history, TypeOK, Numbers,
     Names, Handles, Statuses, Messages
<1>2. FaultsOK'
  BY <1>0 DEF EndClosing, vars, object, devices, loop, history, FaultsOK
<1>3. GrantInv'
  BY <1>0 DEF EndClosing, vars, object, devices, loop, history, GrantInv, Numbers,
     CreateNumber
<1>4. faults' = {} => ListInv'
  BY <1>0 DEF EndClosing, vars, object, devices, loop, history, ListInv
<1>5. faults' = {} => LifeInv'
  BY <1>0 DEF EndClosing, vars, object, devices, loop, history, LifeInv
<1>6. faults' = {} => DeviceInv'
  BY <1>0 DEF EndClosing, vars, object, devices, loop, history, DeviceInv
<1> QED
  BY <1>1, <1>2, <1>3, <1>4, <1>5, <1>6 DEF IInv

LEMMA StartIInv == ASSUME IInv, Start PROVE IInv'
<1>0. faults = {} /\ TypeOK /\ FaultsOK /\ GrantInv /\ ListInv /\ LifeInv /\ DeviceInv
  BY DEF IInv, Start
<1>1. TypeOK'
  BY <1>0 DEF Start, vars, object, devices, loop, history, TypeOK, Numbers, Names,
     Handles, Statuses, Messages
<1>2. FaultsOK'
  BY <1>0 DEF Start, vars, object, devices, loop, history, FaultsOK
<1>3. GrantInv'
  BY <1>0 DEF Start, vars, object, devices, loop, history, GrantInv, Numbers,
     CreateNumber
<1>4. faults' = {} => ListInv'
  BY <1>0 DEF Start, vars, object, devices, loop, history, ListInv
<1>5. faults' = {} => LifeInv'
  BY <1>0 DEF Start, vars, object, devices, loop, history, LifeInv
<1>6. faults' = {} => DeviceInv'
  BY <1>0 DEF Start, vars, object, devices, loop, history, DeviceInv
<1> QED
  BY <1>1, <1>2, <1>3, <1>4, <1>5, <1>6 DEF IInv

LEMMA OnConnectOkIInv == ASSUME IInv, OnConnectOk PROVE IInv'
<1>0. faults = {} /\ TypeOK /\ FaultsOK /\ GrantInv /\ ListInv /\ LifeInv /\ DeviceInv
  BY DEF IInv, OnConnectOk
<1>1. TypeOK'
  BY <1>0 DEF OnConnectOk, vars, object, devices, loop, history, TypeOK, Numbers,
     Names, Handles, Statuses, Messages
<1>2. FaultsOK'
  BY <1>0 DEF OnConnectOk, vars, object, devices, loop, history, FaultsOK
<1>3. GrantInv'
  BY <1>0 DEF OnConnectOk, GrantInv, LifeInv, CreateNumber
<1>4. faults' = {} => ListInv'
  BY <1>0 DEF OnConnectOk, vars, object, devices, loop, history, ListInv
<1>5. faults' = {} => LifeInv'
  BY <1>0 DEF OnConnectOk, vars, object, devices, loop, history, LifeInv
<1>6. faults' = {} => DeviceInv'
  BY <1>0 DEF OnConnectOk, vars, object, devices, loop, history, DeviceInv
<1> QED
  BY <1>1, <1>2, <1>3, <1>4, <1>5, <1>6 DEF IInv

LEMMA OnConnectFailIInv == ASSUME IInv, OnConnectFail PROVE IInv'
<1>0. faults = {} /\ TypeOK /\ FaultsOK /\ GrantInv /\ ListInv /\ LifeInv /\ DeviceInv
  BY DEF IInv, OnConnectFail
<1>1. TypeOK'
  BY <1>0 DEF OnConnectFail, vars, object, devices, loop, history, TypeOK, Numbers,
     Names, Handles, Statuses, Messages
<1>2. FaultsOK'
  BY <1>0 DEF OnConnectFail, vars, object, devices, loop, history, FaultsOK
<1>3. GrantInv'
  BY <1>0 DEF OnConnectFail, vars, object, devices, loop, history, GrantInv, Numbers,
     CreateNumber
<1>4. faults' = {} => ListInv'
  BY <1>0 DEF OnConnectFail, vars, object, devices, loop, history, ListInv
<1>5. faults' = {} => LifeInv'
  BY <1>0 DEF OnConnectFail, vars, object, devices, loop, history, LifeInv
<1>6. faults' = {} => DeviceInv'
  BY <1>0 DEF OnConnectFail, vars, object, devices, loop, history, DeviceInv
<1> QED
  BY <1>1, <1>2, <1>3, <1>4, <1>5, <1>6 DEF IInv

LEMMA OnRecvHandshakeIInv ==
  ASSUME IInv, NEW k \in 1..(HsUnits + 1), OnRecvHandshake(k)
  PROVE  IInv'
<1>0. faults = {} /\ TypeOK /\ FaultsOK /\ GrantInv /\ ListInv /\ LifeInv /\ DeviceInv
  BY DEF IInv, OnRecvHandshake, ConnectCommands
<1>1. TypeOK'
  <2>1. hsLen' \in Nat
    BY <1>0, HsUnitsAssumption DEF OnRecvHandshake, TypeOK
  <2>2. requestsMap_' \in [Numbers -> Names]
    BY <1>0 DEF OnRecvHandshake, TypeOK, Numbers, Names
  <2>3. /\ status_' \in {"START", "SEND_C0C1", "SEND_C2"}
        /\ pushPullStatus_' \in {"CONNECT_APP", "CREATE_STREAM", "PUSH_OR_PULL"}
    BY <1>0 DEF OnRecvHandshake, TypeOK
  <2> QED
    BY <1>0, <2>1, <2>2, <2>3 DEF OnRecvHandshake, vars, object, devices, loop,
       history, TypeOK
<1>2. FaultsOK'
  <2>1. \/ faults' = faults /\ disorder \subseteq disorder'
        \/ faults' = {"handshake_overflow"} /\ "early_bytes" \in disorder'
    BY <1>0 DEF OnRecvHandshake
  <2> QED
    BY <1>0, <2>1 DEF FaultsOK, FaultNames
<1>3. GrantInv'
  <2>1. /\ status_ = "SEND_C0C1" /\ "connect" \notin sent
        /\ pushPullStatus_ = "CONNECT_APP" /\ pushPullStatus_' = "CONNECT_APP"
    BY <1>0 DEF OnRecvHandshake, GrantInv, LifeInv
  <2>2. \/ requestsMap_' = requestsMap_ /\ sent' = sent /\ status_' = status_
        \/ /\ requestsMap_' = [requestsMap_ EXCEPT ![1] = "connect"]
           /\ sent' = sent \cup {"c2"} \cup ConnectCommands
           /\ status_' = "SEND_C2"
    BY <1>0 DEF OnRecvHandshake
  <2>3. UNCHANGED <<dir, answered, granted, streamid>> /\ disorder \subseteq disorder'
    BY DEF OnRecvHandshake
  <2> QED
    BY <1>0, <2>1, <2>2, <2>3 DEF GrantInv, TypeOK, Numbers, Names, CreateNumber,
       ConnectCommands
<1>4. faults' = {} => ListInv'
  BY <1>0 DEF OnRecvHandshake, ConnectCommands, vars, object, devices, loop, history,
     ListInv
<1>5. faults' = {} => LifeInv'
  BY <1>0 DEF OnRecvHandshake, ConnectCommands, vars, object, devices, loop, history,
     LifeInv
<1>6. faults' = {} => DeviceInv'
  BY <1>0 DEF OnRecvHandshake, ConnectCommands, vars, object, devices, loop, history,
     DeviceInv
<1> QED
  BY <1>1, <1>2, <1>3, <1>4, <1>5, <1>6 DEF IInv

LEMMA OnEofIInv == ASSUME IInv, OnEof PROVE IInv'
<1>0. faults = {} /\ TypeOK /\ FaultsOK /\ GrantInv /\ ListInv /\ LifeInv /\ DeviceInv
  BY DEF IInv, OnEof, TcpClose, Closing
<1>1. TypeOK'
  <2>1. closing' \in Seq(Handles)
    BY <1>0 DEF OnEof, TcpClose, Closing, TypeOK, Handles
  <2> QED
    BY <1>0, <2>1 DEF OnEof, TcpClose, vars, object, devices, loop, history, TypeOK
<1>2. FaultsOK'
  BY <1>0 DEF OnEof, TcpClose, Closing, vars, object, devices, loop, history, FaultsOK
<1>3. GrantInv'
  BY <1>0 DEF OnEof, TcpClose, Closing, vars, object, devices, loop, history,
     GrantInv, Numbers, CreateNumber
<1>4. faults' = {} => ListInv'
  <2>0. running = <<>> /\ tcp = "open" /\ running' = running /\ timer' = timer
    BY <1>0 DEF OnEof, ListInv
  <2>1. \/ closing = <<>> /\ timer # "closing"
        \/ closing = <<"timer">> /\ timer = "closing"
    BY <1>0, <2>0, ClosingLists DEF ListInv
  <2> QED
    BY <1>0, <2>0, <2>1, ClosingLists, TwoHandles DEF OnEof, TcpClose, Closing, ListInv
<1>5. faults' = {} => LifeInv'
  BY <1>0 DEF OnEof, TcpClose, Closing, vars, object, devices, loop, history, LifeInv
<1>6. faults' = {} => DeviceInv'
  BY <1>0 DEF OnEof, TcpClose, Closing, vars, object, devices, loop, history, DeviceInv
<1> QED
  BY <1>1, <1>2, <1>3, <1>4, <1>5, <1>6 DEF IInv

LEMMA OnTcpClosedIInv == ASSUME IInv, OnTcpClosed PROVE IInv'
<1>0. faults = {} /\ TypeOK /\ FaultsOK /\ GrantInv /\ ListInv /\ LifeInv /\ DeviceInv
  BY DEF IInv, OnTcpClosed, PublishStop, DeleteThis, Closing
<1>a. /\ tcp = "closing" /\ closing = <<>>
      /\ \/ running = <<"tcp">> /\ timer # "closing"
         \/ running = <<"tcp", "timer">> /\ timer = "closing"
  BY <1>0, ClosingLists DEF OnTcpClosed, ListInv
<1>1. TypeOK'
  <2>1. closing' \in Seq(Handles) /\ running' \in Seq(Handles)
    BY <1>0, <1>a, ClosingLists, ListTypes DEF OnTcpClosed, PublishStop, Closing
  <2>2. /\ client' \in {"alive", "freed"} /\ timer' \in {"none", "idle", "active", "closing", "closed"}
        /\ video_device_' \in {"null", "garbage", "recording", "stopped"}
        /\ audio_device_' \in {"null", "garbage", "recording", "stopped"}
    BY <1>0 DEF OnTcpClosed, PublishStop, DeleteThis, TypeOK
  <2> QED
    BY <1>0, <2>1, <2>2 DEF OnTcpClosed, vars, object, devices, loop, history, TypeOK
<1>2. FaultsOK'
  <2>1. CASE havestop
    BY <1>0, <1>a, <2>1 DEF OnTcpClosed, DeleteThis, FaultsOK, FaultNames, LifeInv,
       DeviceInv, TypeOK
  <2>2. CASE ~havestop
    BY <1>0, <1>a, <2>2 DEF OnTcpClosed, PublishStop, FaultsOK, FaultNames, LifeInv,
       DeviceInv, TypeOK
  <2> QED
    BY <2>1, <2>2
<1>3. GrantInv'
  BY <1>0 DEF OnTcpClosed, PublishStop, DeleteThis, Closing, vars, object, devices,
     loop, history, GrantInv, Numbers, CreateNumber
<1>4. faults' = {} => ListInv'
  <2>1. CASE havestop
    BY <1>0, <1>a, <2>1, ClosingLists DEF OnTcpClosed, DeleteThis, ListInv, LifeInv,
       TypeOK
  <2>2. CASE ~havestop
    BY <1>0, <1>a, <2>2, ClosingLists DEF OnTcpClosed, PublishStop, Closing, ListInv,
       LifeInv, TypeOK
  <2> QED
    BY <2>1, <2>2
<1>5. faults' = {} => LifeInv'
  <2>1. CASE havestop
    BY <1>0, <1>a, <2>1 DEF OnTcpClosed, DeleteThis, LifeInv, TypeOK
  <2>2. CASE ~havestop
    BY <1>0, <1>a, <2>2 DEF OnTcpClosed, PublishStop, LifeInv, TypeOK
  <2> QED
    BY <2>1, <2>2
<1>6. faults' = {} => DeviceInv'
  <2>1. CASE havestop
    BY <1>0, <1>a, <2>1 DEF OnTcpClosed, DeleteThis, LifeInv, DeviceInv, TypeOK
  <2>2. CASE ~havestop
    BY <1>0, <1>a, <2>2 DEF OnTcpClosed, PublishStop, LifeInv, DeviceInv, TypeOK
  <2> QED
    BY <2>1, <2>2
<1> QED
  BY <1>1, <1>2, <1>3, <1>4, <1>5, <1>6 DEF IInv

LEMMA OnTimerClosedIInv == ASSUME IInv, OnTimerClosed PROVE IInv'
<1>0. faults = {} /\ TypeOK /\ FaultsOK /\ GrantInv /\ ListInv /\ LifeInv /\ DeviceInv
  BY DEF IInv, OnTimerClosed, TcpClose, DeleteThis, Closing
<1>a. /\ tcp # "closing" /\ timer = "closing"
      /\ closing = <<>> /\ running = <<"timer">>
  BY <1>0, ClosingLists DEF OnTimerClosed, ListInv
<1>1. TypeOK'
  <2>1. closing' \in Seq(Handles) /\ running' \in Seq(Handles)
    BY <1>0, <1>a, ClosingLists, ListTypes DEF OnTimerClosed, TcpClose, Closing
  <2>2. /\ client' \in {"alive", "freed"} /\ timer' = "closed"
        /\ tcp' \in {"none", "connecting", "failed", "open", "closing", "freed"}
        /\ video_device_' \in {"null", "garbage", "recording", "stopped"}
    BY <1>0 DEF OnTimerClosed, TcpClose, DeleteThis, TypeOK
  <2> QED
    BY <1>0, <2>1, <2>2 DEF OnTimerClosed, vars, object, devices, loop, history, TypeOK
<1>2. FaultsOK'
  <2>1. CASE rtmp_socket_ = "set"
    BY <1>0, <1>a, <2>1 DEF OnTimerClosed, TcpClose, FaultsOK
  <2>2. CASE rtmp_socket_ # "set"
    BY <1>0, <1>a, <2>2 DEF OnTimerClosed, DeleteThis, FaultsOK, FaultNames,
       DeviceInv, TypeOK
  <2> QED
    BY <2>1, <2>2
<1>3. GrantInv'
  BY <1>0 DEF OnTimerClosed, TcpClose, DeleteThis, Closing, vars, object, devices,
     loop, history, GrantInv, Numbers, CreateNumber
<1>4. faults' = {} => ListInv'
  <2>1. CASE rtmp_socket_ = "set"
    BY <1>0, <1>a, <2>1, ClosingLists DEF OnTimerClosed, TcpClose, Closing, ListInv
  <2>2. CASE rtmp_socket_ # "set"
    BY <1>0, <1>a, <2>2, ClosingLists DEF OnTimerClosed, ListInv
  <2> QED
    BY <2>1, <2>2
<1>5. faults' = {} => LifeInv'
  <2>1. CASE rtmp_socket_ = "set"
    BY <1>0, <1>a, <2>1 DEF OnTimerClosed, TcpClose, LifeInv, TypeOK
  <2>2. CASE rtmp_socket_ # "set"
    BY <1>0, <1>a, <2>2 DEF OnTimerClosed, DeleteThis, LifeInv, TypeOK
  <2> QED
    BY <2>1, <2>2
<1>6. faults' = {} => DeviceInv'
  <2>1. CASE rtmp_socket_ = "set"
    BY <1>0, <1>a, <2>1 DEF OnTimerClosed, TcpClose, LifeInv, DeviceInv, TypeOK
  <2>2. CASE rtmp_socket_ # "set"
    BY <1>0, <1>a, <2>2 DEF OnTimerClosed, DeleteThis, LifeInv, DeviceInv, TypeOK
  <2> QED
    BY <2>1, <2>2
<1> QED
  BY <1>1, <1>2, <1>3, <1>4, <1>5, <1>6 DEF IInv

LEMMA StopIInv == ASSUME IInv, Stop PROVE IInv'
<1>0. faults = {} /\ TypeOK /\ FaultsOK /\ GrantInv /\ ListInv /\ LifeInv /\ DeviceInv
  BY DEF IInv, Stop
<1>1. TypeOK'
  BY <1>0 DEF Stop, vars, object, devices, loop, history, TypeOK, Numbers, Names,
     Handles, Statuses, Messages
<1>2. FaultsOK'
  BY <1>0 DEF Stop, FaultsOK, FaultNames
<1>3. GrantInv'
  BY <1>0 DEF Stop, vars, object, devices, loop, history, GrantInv, Numbers,
     CreateNumber
<1>4. faults' = {} => ListInv'
  BY <1>0 DEF Stop, vars, object, devices, loop, history, ListInv
<1>5. faults' = {} => LifeInv'
  BY <1>0 DEF Stop, vars, object, devices, loop, history, LifeInv
<1>6. faults' = {} => DeviceInv'
  BY <1>0 DEF Stop, vars, object, devices, loop, history, DeviceInv
<1> QED
  BY <1>1, <1>2, <1>3, <1>4, <1>5, <1>6 DEF IInv

-----------------------------------------------------------------------------
(* A message from the server. *)

LEMMA OnResultIInv ==
    ASSUME IInv, NEW m \in Messages, OnRecvMessage(m), OnResult(m) PROVE IInv'
<1>0. faults = {} /\ TypeOK /\ FaultsOK /\ GrantInv /\ ListInv /\ LifeInv /\ DeviceInv
  BY DEF IInv, OnRecvMessage
<1>m. m.number \in Numbers /\ m.ok \in BOOLEAN /\ m.id \in StreamIds
  BY DEF OnResult, Messages
<1>a. \/ /\ pushPullStatus_ = "CONNECT_APP" /\ Decode(m) = "connect"
         /\ pushPullStatus_' = "CREATE_STREAM"
         /\ requestsMap_' = RecordCreateStream
         /\ sent' = sent \cup CreateStreamCommands /\ streamid' = streamid
      \/ /\ pushPullStatus_ = "CREATE_STREAM" /\ Decode(m) = "createStream"
         /\ pushPullStatus_' = "PUSH_OR_PULL"
         /\ streamid' = m.id /\ sent' = sent \cup StreamCommands
         /\ requestsMap_' = requestsMap_
      \/ UNCHANGED <<pushPullStatus_, requestsMap_, sent, streamid>>
  BY DEF OnResult
<1>b. /\ answered' = answered \/ answered' = answered \cup {m.number}
      /\ granted' \in {granted, m.id} /\ answered \subseteq answered'
      /\ granted # 0 => granted' = granted
  BY DEF OnResult, Answer
<1>1. TypeOK'
  <2>1. requestsMap_' \in [Numbers -> Names]
    BY <1>0, <1>a DEF TypeOK, RecordCreateStream, Numbers, Names
  <2>2. /\ pushPullStatus_' \in {"CONNECT_APP", "CREATE_STREAM", "PUSH_OR_PULL"}
        /\ streamid' \in StreamIds \cup {0} /\ granted' \in StreamIds \cup {0}
        /\ answered' \subseteq Numbers
    BY <1>0, <1>m, <1>a, <1>b DEF TypeOK
  <2>3. msgs' \in 0..MaxMsgs
    BY <1>0, MaxMsgsAssumption DEF OnRecvMessage, TypeOK
  <2> QED
    BY <1>0, <2>1, <2>2, <2>3 DEF OnRecvMessage, OnResult, devices, TypeOK
<1>2. FaultsOK'
  BY <1>0 DEF OnResult, FaultsOK
<1>3. GrantInv'
  <2>0. /\ UNCHANGED <<dir, status_, disorder>> /\ status_ = "SEND_C2"
        /\ CreateNumber' = CreateNumber /\ CreateNumber \in {2, 4}
    BY DEF OnRecvMessage, OnResult, CreateNumber
  <2>1. CASE /\ pushPullStatus_ = "CONNECT_APP" /\ Decode(m) = "connect"
             /\ pushPullStatus_' = "CREATE_STREAM"
             /\ requestsMap_' = RecordCreateStream
             /\ sent' = sent \cup CreateStreamCommands /\ streamid' = streamid
    <3>1. m.ok /\ m.number = 1 /\ "connect" \in sent
      BY <1>0, <1>m, <2>1 DEF Decode, GrantInv
    <3>2. 1 \in answered' /\ granted' = 0
      BY <1>0, <2>0, <2>1, <3>1 DEF OnResult, Answer, GrantInv
    <3>3. \A n \in Numbers : /\ requestsMap_'[n] = "connect" => n = 1
                             /\ requestsMap_'[n] = "createStream" => n = CreateNumber
      BY <1>0, <2>1 DEF RecordCreateStream, GrantInv, TypeOK, Numbers, Names,
         CreateNumber
    <3>4. requestsMap_'[CreateNumber] = "createStream" /\ "createStream" \in sent'
      BY <1>0, <2>1 DEF RecordCreateStream, CreateStreamCommands, TypeOK, Numbers,
         CreateNumber
    <3>5. "connect" \in sent'
      BY <2>1, <3>1
    <3>6. sent' \cap {"setChunkSize", "publish", "getStreamLength", "play",
                       "setBufferLength"} = {}
      BY <1>0, <2>1 DEF GrantInv, CreateStreamCommands
    <3> QED
      BY <2>0, <2>1, <3>2, <3>3, <3>4, <3>5, <3>6 DEF GrantInv
  <2>2. CASE /\ pushPullStatus_ = "CREATE_STREAM" /\ Decode(m) = "createStream"
             /\ pushPullStatus_' = "PUSH_OR_PULL"
             /\ streamid' = m.id /\ sent' = sent \cup StreamCommands
             /\ requestsMap_' = requestsMap_
    <3>1. m.ok /\ m.number = CreateNumber /\ "createStream" \in sent
      BY <1>0, <1>m, <2>2 DEF Decode, GrantInv
    <3>2. granted' = m.id /\ CreateNumber \in answered' /\ 1 \in answered'
      BY <1>0, <2>0, <2>2, <3>1 DEF OnResult, Answer, GrantInv
    <3>3. m.id # 0
      BY <1>m, StreamIdsAssumption
    <3>4. \A c \in {"connect", "createStream"} : c \in sent' <=> c \in sent
      BY <2>2 DEF StreamCommands
    <3> QED
      BY <1>0, <2>0, <2>2, <3>1, <3>2, <3>3, <3>4 DEF GrantInv
  <2>3. CASE UNCHANGED <<pushPullStatus_, requestsMap_, sent, streamid>>
    <3>1. pushPullStatus_ = "CONNECT_APP" => granted' = 0
      BY <1>0, <2>0 DEF OnResult, Answer, GrantInv
    <3>2. pushPullStatus_ = "CREATE_STREAM" => granted' = 0
      BY <1>0, <1>m, <2>0, <2>3 DEF OnResult, Answer, GrantInv, Decode
    <3> QED
      BY <1>0, <1>b, <2>0, <2>3, <3>1, <3>2 DEF GrantInv
  <2> QED
    BY <1>a, <2>1, <2>2, <2>3
<1>4. ListInv'
  BY <1>0 DEF OnRecvMessage, OnResult, ListInv
<1>5. LifeInv'
  BY <1>0 DEF OnRecvMessage, OnResult, LifeInv
<1>6. DeviceInv'
  BY <1>0 DEF OnRecvMessage, OnResult, devices, DeviceInv
<1> QED
  BY <1>1, <1>2, <1>3, <1>4, <1>5, <1>6 DEF IInv

LEMMA OnStatusIInv ==
    ASSUME IInv, NEW m \in Messages, OnRecvMessage(m), OnStatus(m) PROVE IInv'
<1>0. faults = {} /\ TypeOK /\ FaultsOK /\ GrantInv /\ ListInv /\ LifeInv /\ DeviceInv
  BY DEF IInv, OnRecvMessage
<1>m. m.code \in Statuses
  BY DEF OnStatus, Messages
<1>q. /\ tcp = "open" /\ status_ = "SEND_C2" /\ phase = "poll"
      /\ UNCHANGED <<dir, audio, client, status_, rtmp_socket_, hsLen, tcp, running,
                     phase, pushPullStatus_, requestsMap_, streamid, answered, granted>>
      /\ disorder \subseteq disorder'
      /\ seen \subseteq seen' /\ seen' \subseteq seen \cup {m.code}
      /\ \/ sent' = sent
         \/ sent' = sent \cup {"metadata"}
  BY DEF OnRecvMessage, OnStatus, OnPublishStart
<1>a. msgs' \in 0..MaxMsgs
  BY <1>0, MaxMsgsAssumption DEF OnRecvMessage, TypeOK
<1>b. GrantInv'
  BY <1>0, <1>q DEF GrantInv, CreateNumber
<1>1. CASE pushPullStatus_ = "PUSH_OR_PULL" /\ m.code = "Publish.Start" /\ dir = "push"
  <2>0. /\ OnPublishStart
        /\ seen' = seen \cup {"Publish.Start"}
        /\ (seen \cap {"Publish.Start", "Unpublish.Success"} # {}) =>
             "status_repeated" \in disorder'
    BY <1>1 DEF OnStatus
  <2>1. TypeOK'
    BY <1>0, <1>m, <1>q, <1>a, <2>0 DEF OnPublishStart, TypeOK
  <2>2. FaultsOK'
    BY <1>0, <1>q, <2>0 DEF OnPublishStart, FaultsOK
  <2>3. ListInv'
    BY <1>0, <1>q, <2>0 DEF OnPublishStart, ListInv
  <2>4. LifeInv'
    BY <1>0, <1>q, <2>0 DEF OnPublishStart, LifeInv, TypeOK
  <2>5. DeviceInv'
    <3>1. orphan' => "status_repeated" \in disorder'
      BY <1>0, <1>q, <2>0 DEF OnPublishStart, DeviceInv
    <3>2. timer' = "active" \/ "status_repeated" \in disorder'
      BY <1>0, <1>q, <2>0, <1>1 DEF OnPublishStart, DeviceInv, LifeInv, TypeOK
    <3>3. "Unpublish.Success" \in seen' => "status_repeated" \in disorder'
      BY <2>0
    <3>4. timer' \in {"idle", "active"} => timer \in {"idle", "active"}
      BY <2>0 DEF OnPublishStart
    <3>5. client = "alive"
      BY <1>0, <1>q DEF LifeInv, TypeOK
    <3> QED
      BY <1>0, <1>1, <1>q, <2>0, <3>1, <3>2, <3>3, <3>4, <3>5 DEF OnPublishStart,
         DeviceInv, TypeOK
  <2> QED
    BY <1>b, <2>1, <2>2, <2>3, <2>4, <2>5 DEF IInv
<1>2. CASE pushPullStatus_ = "PUSH_OR_PULL" /\ m.code = "Unpublish.Success"
  <2>0. /\ PublishStop /\ havestop' = TRUE
        /\ orphan' = orphan /\ sent' = sent
        /\ seen' = seen \cup {"Unpublish.Success"}
        /\ dir = "push" /\ "Unpublish.Success" \in seen => "status_repeated" \in disorder'
    BY <1>2 DEF OnStatus
  <2>a. client = "alive"
    BY <1>0, <1>q DEF LifeInv, TypeOK
  <2>1. TypeOK'
    <3>1. closing' \in Seq(Handles)
      BY <1>0, <1>q, <2>0, ClosingLists, ListTypes, TwoHandles DEF PublishStop,
         Closing, ListInv
    <3>2. /\ timer' \in {"none", "idle", "active", "closing", "closed"}
          /\ video_device_' \in {"null", "garbage", "recording", "stopped"}
          /\ audio_device_' \in {"null", "garbage", "recording", "stopped"}
      BY <1>0, <2>0 DEF PublishStop, TypeOK
    <3> QED
      BY <1>0, <1>m, <1>q, <1>a, <2>0, <3>1, <3>2 DEF TypeOK
  <2>2. CASE dir = "pull"
    <3>1. UNCHANGED <<video_device_, audio_device_, timer, closing, faults>>
      BY <2>0, <2>2 DEF PublishStop
    <3>2. FaultsOK'
      BY <1>0, <1>q, <3>1 DEF FaultsOK
    <3>3. ListInv'
      BY <1>0, <1>q, <3>1 DEF ListInv
    <3>4. LifeInv'
      BY <1>0, <1>q, <2>0, <2>2, <3>1 DEF LifeInv
    <3>5. DeviceInv'
      BY <1>0, <1>q, <2>0, <2>2, <3>1 DEF DeviceInv, LifeInv
    <3> QED
      BY <1>b, <2>1, <3>2, <3>3, <3>4, <3>5 DEF IInv
  <2>3. CASE dir = "push"
    <3>0. dir # "pull"
      BY <2>3
    <3>1. FaultsOK'
      <4>1. timer \in {"closing", "closed"} => "Unpublish.Success" \in seen
        BY <1>0, <1>q DEF LifeInv
      <4> QED
        BY <1>0, <1>q, <2>0, <2>3, <3>0, <4>1 DEF PublishStop, FaultsOK, FaultNames,
           DeviceInv
    <3>2. ASSUME faults' = {} PROVE ListInv' /\ LifeInv' /\ DeviceInv'
      <4>1. timer \in {"idle", "active"} /\ timer' = "closing" /\ closing' = Closing("timer")
        BY <1>0, <2>0, <2>3, <3>0, <3>2 DEF PublishStop, LifeInv, TypeOK
      <4>2. closing' = <<"timer">> /\ running = <<>>
        BY <1>0, <1>q, <4>1, ClosingLists DEF ListInv, Closing
      <4>3. ListInv'
        BY <1>q, <4>1, <4>2 DEF ListInv
      <4>4. LifeInv'
        BY <1>0, <1>q, <2>a, <2>0, <2>3, <4>1 DEF LifeInv, TypeOK
      <4>5. video_device_' # "recording" /\ audio_device_' # "recording"
        BY <2>0, <3>0 DEF PublishStop
      <4>6. audio_device_' = "garbage" => audio_device_ = "garbage"
        BY <2>0, <3>0 DEF PublishStop
      <4>7. video_device_' # "garbage"
        BY <1>0, <2>0, <3>0 DEF PublishStop, DeviceInv
      <4>8. DeviceInv'
        BY <1>0, <1>q, <2>a, <2>0, <3>0, <4>1, <4>5, <4>6, <4>7 DEF DeviceInv
      <4> QED
        BY <4>3, <4>4, <4>8
    <3> QED
      BY <1>b, <2>1, <3>1, <3>2 DEF IInv
  <2> QED
    BY <1>0, <2>2, <2>3 DEF TypeOK
<1>3. CASE pushPullStatus_ = "PUSH_OR_PULL" /\ m.code = "none"
  <2>0. /\ UNCHANGED <<havestop, video_device_, audio_device_, orphan, timer, closing>>
        /\ faults' = faults \cup {"null_status"}
        /\ "status_without_code" \in disorder'
    BY <1>3 DEF OnStatus, devices
  <2>1. TypeOK'
    BY <1>0, <1>m, <1>q, <1>a, <2>0 DEF TypeOK
  <2>2. FaultsOK'
    BY <1>0, <1>q, <2>0 DEF FaultsOK, FaultNames
  <2> QED
    BY <1>b, <2>0, <2>1, <2>2 DEF IInv
<1>4. CASE /\ ~(pushPullStatus_ = "PUSH_OR_PULL" /\ m.code = "Publish.Start" /\ dir = "push")
           /\ ~(pushPullStatus_ = "PUSH_OR_PULL" /\ m.code = "Unpublish.Success")
           /\ ~(pushPullStatus_ = "PUSH_OR_PULL" /\ m.code = "none")
  <2>0. /\ UNCHANGED <<havestop, video_device_, audio_device_, orphan, timer, closing, faults>>
        /\ "Unpublish.Success" \in seen' => "Unpublish.Success" \in seen
    BY <1>4, <1>0 DEF OnStatus, devices, TypeOK
  <2>1. TypeOK'
    BY <1>0, <1>m, <1>q, <1>a, <2>0 DEF TypeOK
  <2>2. FaultsOK'
    BY <1>0, <1>q, <2>0 DEF FaultsOK
  <2>3. ListInv'
    BY <1>0, <1>q, <2>0 DEF ListInv
  <2>4. LifeInv'
    BY <1>0, <1>q, <2>0 DEF LifeInv
  <2>5. DeviceInv'
    BY <1>0, <1>q, <2>0 DEF DeviceInv
  <2> QED
    BY <1>b, <2>1, <2>2, <2>3, <2>4, <2>5 DEF IInv
<1> QED
  BY <1>1, <1>2, <1>3, <1>4

LEMMA OnOtherIInv ==
    ASSUME IInv, NEW m \in Messages, OnRecvMessage(m), OnOther(m) PROVE IInv'
<1>1. msgs' \in 0..MaxMsgs
  BY MaxMsgsAssumption DEF OnRecvMessage, IInv, TypeOK
<1>2. TypeOK'
  BY <1>1 DEF OnRecvMessage, OnOther, devices, history, IInv, TypeOK
<1>3. FaultsOK' /\ GrantInv'
  BY DEF OnRecvMessage, OnOther, devices, history, IInv, FaultsOK, GrantInv,
     CreateNumber
<1>4. ListInv' /\ LifeInv' /\ DeviceInv'
  BY DEF OnRecvMessage, OnOther, devices, history, IInv, ListInv, LifeInv, DeviceInv
<1> QED
  BY <1>2, <1>3, <1>4 DEF IInv

LEMMA StutterIInv == ASSUME IInv, UNCHANGED vars PROVE IInv'
<1>1. TypeOK'
  BY DEF vars, object, devices, loop, history, IInv, TypeOK
<1>2. FaultsOK' /\ GrantInv'
  BY DEF vars, object, devices, loop, history, IInv, FaultsOK, GrantInv, CreateNumber
<1>3. faults' = {} => ListInv' /\ LifeInv' /\ DeviceInv'
  BY DEF vars, object, devices, loop, history, IInv, ListInv, LifeInv, DeviceInv
<1> QED
  BY <1>1, <1>2, <1>3 DEF IInv

-----------------------------------------------------------------------------
(* The theorems. *)

\* The inductive invariant holds of every reachable state: each of the
\* callbacks of rtmpclient.cc and each step of the loop preserves it.
THEOREM Invariance == Spec => []IInv
<1>1. IInv /\ [Next]_vars => IInv'
  <2> SUFFICES ASSUME IInv, [Next]_vars PROVE IInv'
    OBVIOUS
  <2>1. CASE EndPoll
    BY <2>1, EndPollIInv
  <2>2. CASE EndClosing
    BY <2>2, EndClosingIInv
  <2>3. CASE Start
    BY <2>3, StartIInv
  <2>4. CASE OnConnectOk
    BY <2>4, OnConnectOkIInv
  <2>5. CASE OnConnectFail
    BY <2>5, OnConnectFailIInv
  <2>6. ASSUME NEW k \in 1..(HsUnits + 1), OnRecvHandshake(k) PROVE IInv'
    BY <2>6, OnRecvHandshakeIInv
  <2>7. ASSUME NEW m \in Messages, OnRecvMessage(m) PROVE IInv'
    <3>1. OnResult(m) \/ OnStatus(m) \/ OnOther(m)
      BY <2>7 DEF OnRecvMessage
    <3> QED
      BY <2>7, <3>1, OnResultIInv, OnStatusIInv, OnOtherIInv
  <2>8. CASE OnEof
    BY <2>8, OnEofIInv
  <2>9. CASE OnTcpClosed
    BY <2>9, OnTcpClosedIInv
  <2>10. CASE OnTimerClosed
    BY <2>10, OnTimerClosedIInv
  <2>11. CASE Stop
    BY <2>11, StopIInv
  <2>12. CASE Idle \/ UNCHANGED vars
    BY <2>12, StutterIInv DEF Idle
  <2> QED
    BY <2>1, <2>2, <2>3, <2>4, <2>5, <2>6, <2>7, <2>8, <2>9, <2>10, <2>11,
       <2>12 DEF Next
<1> QED
  BY <1>1, InitIInv, PTL DEF Spec

\* Type correctness of the session, libuv's lists of closing handles included.
THEOREM TypeCorrect == Spec => []TypeOK
<1>1. IInv => TypeOK
  BY DEF IInv
<1> QED
  BY <1>1, Invariance, PTL

\* Every undefined behaviour of the teardown has one of the causes the table
\* Causes names, and TcpSocket::close is never entered twice.
THEOREM FaultsAreExplained == Spec => []FaultsExplained
<1>1. IInv => FaultsExplained
  <2> SUFFICES ASSUME IInv, NEW f \in faults PROVE Causes[f] \cap disorder # {}
    BY DEF FaultsExplained
  <2>1. f \in FaultNames /\ FaultsOK
    BY DEF IInv, FaultsOK
  <2> QED
    BY <2>1 DEF FaultsOK, FaultNames, Causes
<1> QED
  BY <1>1, Invariance, PTL

\* After delete this, neither a handle nor a device can call the client back.
THEOREM FreedIsFinal == Spec => []NothingOutlivesClient
<1>1. IInv => NothingOutlivesClient
  <2> SUFFICES ASSUME IInv, client = "freed", faults = {}
               PROVE  /\ tcp = "freed" /\ timer \in {"none", "closed"}
                      /\ closing = <<>> /\ running = <<>>
                      /\ video_device_ # "recording"
                      /\ audio_device_ # "recording" /\ ~orphan
    BY DEF NothingOutlivesClient
  <2>1. tcp = "freed" /\ timer \in {"none", "closed"}
    BY DEF IInv, LifeInv
  <2>2. closing = <<>> /\ running = <<>>
    BY <2>1 DEF IInv, ListInv
  <2> QED
    BY <2>1, <2>2 DEF IInv, DeviceInv
<1> QED
  BY <1>1, Invariance, PTL

\* publish() and play() go out only for a stream the server granted, under
\* the id it granted.
THEOREM OnlyGrantedStreams == Spec => []StreamGranted
<1>1. IInv => StreamGranted
  BY DEF IInv, GrantInv, StreamGranted, StreamCommands
<1> QED
  BY <1>1, Invariance, PTL

\* connectApp() and everything after it wait for the end of the handshake.
THEOREM ChunksAfterHandshake == Spec => []HandshakeFirst
<1>1. IInv => HandshakeFirst
  BY DEF IInv, GrantInv, HandshakeFirst
<1> QED
  BY <1>1, Invariance, PTL

\* With an ordinary server the capture devices run exactly while the stream is
\* published, with the timer that drains their queue.
THEOREM DevicesFollowTheStream == Spec => []RecordingMeansPublishing
<1>1. IInv => RecordingMeansPublishing
  <2> SUFFICES ASSUME IInv, disorder = {},
                      video_device_ = "recording" \/ audio_device_ = "recording"
               PROVE  /\ "Publish.Start" \in seen /\ "Unpublish.Success" \notin seen
                      /\ timer = "active" /\ ~havestop
    BY DEF RecordingMeansPublishing
  <2>1. faults = {}
    BY DEF IInv, FaultsOK, FaultNames
  <2>2. LifeInv /\ DeviceInv
    BY <2>1 DEF IInv
  <2>3. /\ "Publish.Start" \in seen /\ "Unpublish.Success" \notin seen
        /\ timer = "active"
    BY <2>2 DEF DeviceInv
  <2> QED
    BY <2>2, <2>3 DEF LifeInv
<1> QED
  BY <1>1, Invariance, PTL

\* The three together: what the client asks of the server, and what its devices
\* do, follows the order of the protocol.
THEOREM ProtocolIsOrdered == Spec => []ProtocolOrder
<1> QED
  BY OnlyGrantedStreams, ChunksAfterHandshake, DevicesFollowTheStream, PTL
  DEF ProtocolOrder
=============================================================================
