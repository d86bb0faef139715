---------------------------- MODULE RtmpSession ----------------------------
(***************************************************************************)
(* One RtmpClient (RtmpPublishClient when dir = "push", RtmpPlayClient     *)
(* when dir = "pull") on the libuv loop thread: start, handshake, connect, *)
(* createStream, publish or play, the onStatus dispatch, and the teardown  *)
(* in which the TCP handle, the publish timer and the client object itself *)
(* are closed and deleted by callbacks.                                    *)
(*                                                                         *)
(* The server is arbitrary: it may answer any transaction number at any    *)
(* time, refuse it, repeat a status or close whenever it likes.  The       *)
(* history variable disorder names what it (or the user of the class, or   *)
(* the allocator, for the fields the constructor leaves uninitialized) did *)
(* out of the ordinary; faults names the undefined behaviour that follows. *)
(* A behaviour stops at its first fault.                                   *)
(***************************************************************************)
EXTENDS Integers, Sequences

CONSTANTS
    HsUnits,     \* the 3073 bytes of S0 S1 S2, counted in segments
    StreamIds,   \* the stream ids a server may grant
    MaxMsgs      \* bound: messages received after the handshake

ASSUME HsUnitsAssumption == HsUnits \in Nat \ {0}
ASSUME StreamIdsAssumption == StreamIds # {} /\ 0 \notin StreamIds
ASSUME MaxMsgsAssumption == MaxMsgs \in Nat

VARIABLES
    dir, audio,          \* fields fixed by the constructor
    client,              \* the object: "alive" or "freed"
    status_,             \* RtmpClientHandshakeStatus
    pushPullStatus_,     \* RtmpClientPushPullStatus
    streamid,            \* 0 stands for the uninitialized field
    havestop,            \* not initialized by the constructor
    rtmp_socket_,        \* the pointer: "uninit", "set" or "null"
    requestsMap_,        \* [transaction number -> command name, or "none"]
    hsLen,               \* segments of S0 S1 S2 in data_cache_
    video_device_, audio_device_,   \* "null", "garbage", "recording", "stopped"
    orphan,              \* a replaced device object is still recording
    timer,               \* uv_timer_t: "none", "idle", "active", "closing", "closed"
    tcp,                 \* uv_tcp_t: "none", "connecting", "failed", "open", "closing", "freed"
    closing, running,    \* libuv's list of closing handles, and the part being run
    phase,               \* where the loop is: "poll" or "close"
    msgs,                \* messages received so far
    sent, answered, granted, seen, disorder, faults   \* history

object  == <<dir, audio, client, status_, pushPullStatus_, streamid, havestop,
             rtmp_socket_, requestsMap_, hsLen>>
devices == <<video_device_, audio_device_, orphan>>
loop    == <<timer, tcp, closing, running, phase>>
history == <<sent, answered, granted, seen, disorder, faults>>
vars    == <<object, devices, loop, msgs, history>>

-----------------------------------------------------------------------------
Numbers == 1..5

Names == {"none", "connect", "createStream", "releaseStream", "FCPublish"}

\* The transaction number createStream() gives its RtmpCreateStreamPacket.
CreateNumber == IF dir = "push" THEN 4 ELSE 2

\* What an onStatus call says; "none" for one whose information object, or the
\* code in it, is missing or of another type.
Statuses == {"Publish.Start", "Unpublish.Success", "Play.Start", "other", "none"}

\* What a server can send: an answer to a transaction, an onStatus call, and
\* everything else (other calls, control, data and media messages), which the
\* session does not react to.
Messages ==
    [type : {"result"}, number : Numbers, ok : BOOLEAN, id : StreamIds]
      \cup [type : {"onStatus"}, code : Statuses]
      \cup [type : {"other"}]

Handles == {"tcp", "timer"}

-----------------------------------------------------------------------------
(* libuv, as the client uses it *)

\* uv_close puts the handle at the head of loop->closing_handles.
Closing(h) == <<h>> \o closing

\* The poll phase is over: the closing handles are detached and run in turn.
EndPoll ==
    /\ phase = "poll" /\ closing # <<>> /\ faults = {}
    /\ phase' = "close" /\ running' = closing /\ closing' = <<>>
    /\ UNCHANGED <<object, devices, timer, tcp, msgs, history>>

\* uv__run_closing_handles is done; handles closed meanwhile wait for the
\* next iteration.
EndClosing ==
    /\ phase = "close" /\ running = <<>> /\ faults = {}
    /\ phase' = "poll"
    /\ UNCHANGED <<object, devices, timer, tcp, closing, running, msgs, history>>

-----------------------------------------------------------------------------
(* Handlers shared by several callbacks *)

\* TcpSocket::close.  A second close deletes a socket libuv still holds.
TcpClose ==
    /\ tcp' = "closing"
    /\ closing' = IF tcp = "closing" THEN closing ELSE Closing("tcp")
    /\ faults' = faults \cup
                   (IF tcp = "closing" THEN {"socket_closed_twice"} ELSE {})

\* Mutant: the timer stopped but not closed.
PublishStopWithoutClose ==
    /\ video_device_' = IF video_device_ = "recording" THEN "stopped"
                                                       ELSE video_device_
    /\ audio_device_' = IF audio_device_ = "recording" THEN "stopped"
                                                       ELSE audio_device_
    /\ timer' = IF timer = "active" THEN "idle" ELSE timer
    /\ UNCHANGED <<closing, faults>>

\* RtmpPublishClient::onPublishStop, and the empty RtmpClient::onPublishStop
\* that RtmpPlayClient inherits.
PublishStop ==
    IF dir = "pull"
    THEN UNCHANGED <<video_device_, audio_device_, timer, closing, faults>>
    ELSE /\ video_device_' = IF video_device_ = "recording" THEN "stopped"
                                                            ELSE video_device_
         /\ audio_device_' = IF audio_device_ = "recording" THEN "stopped"
                                                            ELSE audio_device_
         /\ timer' = "closing"
         /\ closing' = IF timer \in {"closing", "closed"} THEN closing
                                                          ELSE Closing("timer")
         /\ faults' = faults
              \cup (IF audio_device_ = "garbage" THEN {"garbage_device"} ELSE {})
              \cup (IF timer \in {"closing", "closed"} THEN {"timer_closed_twice"}
                                                       ELSE {})

\* delete this, with the timer handle in state t: ~RtmpPublishClient deletes
\* the timer and the video device (whose destructor stops and joins its
\* thread), never the audio device.
DeleteThis(t) ==
    /\ client' = "freed"
    /\ video_device_' = "null"
    /\ faults' = faults
         \cup (IF dir = "push" /\ t # "closed" THEN {"timer_freed_in_use"} ELSE {})
         \cup (IF audio_device_ = "recording" \/ orphan
                 THEN {"callback_after_free"} ELSE {})

-----------------------------------------------------------------------------
(* Start and handshake *)

\* The constructors.  havestop is left uninitialized, and audio_device_ too
\* when audio is false.
Init ==
    /\ dir \in {"push", "pull"} /\ audio \in BOOLEAN
    /\ client = "alive"
    /\ status_ = "START" /\ pushPullStatus_ = "CONNECT_APP"
    /\ streamid = 0 /\ havestop \in BOOLEAN
    /\ rtmp_socket_ = "uninit"
    /\ requestsMap_ = [n \in Numbers |-> "none"]
    /\ hsLen = 0
    /\ video_device_ = "null"
    /\ audio_device_ \in IF dir = "push" /\ ~audio THEN {"null", "garbage"}
                                                   ELSE {"null"}
    /\ orphan = FALSE
    /\ timer = IF dir = "push" THEN "idle" ELSE "none"
    /\ tcp = "none"
    /\ closing = <<>> /\ running = <<>> /\ phase = "poll"
    /\ msgs = 0
    /\ sent = {} /\ answered = {} /\ granted = 0 /\ seen = {}
    /\ disorder = (IF havestop THEN {"havestop_uninit"} ELSE {}) \cup
                  (IF audio_device_ = "garbage" THEN {"device_uninit"} ELSE {})
    /\ faults = {}

\* RtmpClient::start, with TcpSocket::connectServer.
Start ==
    /\ tcp = "none" /\ phase = "poll" /\ faults = {}
    /\ tcp' = "connecting" /\ rtmp_socket_' = "set"
    /\ UNCHANGED <<dir, audio, client, status_, pushPullStatus_, streamid,
                   havestop, requestsMap_, hsLen, devices, timer, closing,
                   running, phase, msgs, history>>

\* TcpSocket::onConnect and RtmpClient::onConnect: doHandshake sends C0 C1.
OnConnectOk ==
    /\ tcp = "connecting" /\ phase = "poll" /\ faults = {}
    /\ tcp' = "open" /\ status_' = "SEND_C0C1"
    /\ sent' = sent \cup {"c0c1"}
    /\ UNCHANGED <<dir, audio, client, pushPullStatus_, streamid, havestop,
                   rtmp_socket_, requestsMap_, hsLen, devices, timer, closing,
                   running, phase, msgs, answered, granted, seen, disorder, faults>>

\* The failure branch of RtmpClient::onConnect is empty.
OnConnectFail ==
    /\ tcp = "connecting" /\ phase = "poll" /\ faults = {}
    /\ tcp' = "failed"
    /\ UNCHANGED <<object, devices, timer, closing, running, phase, msgs, history>>

\* connectApp() sends connect, transaction 1, and the window size.
ConnectCommands == {"connect", "windowAckSize"}

\* Mutant: pop_data one segment too many.
PopsTooMuch(k) ==
    /\ tcp = "open" /\ status_ = "SEND_C0C1" /\ phase = "poll" /\ faults = {}
    /\ hsLen + k = HsUnits
    /\ hsLen' = hsLen + k - HsUnits - 1
    /\ status_' = "SEND_C2"
    /\ requestsMap_' = [requestsMap_ EXCEPT ![1] = "connect"]
    /\ sent' = sent \cup {"c2"} \cup ConnectCommands
    /\ UNCHANGED <<dir, audio, client, pushPullStatus_, streamid, havestop,
                   rtmp_socket_, devices, loop, msgs, answered, granted, seen,
                   disorder, faults>>

\* onRecvData while status_ < DONE: the second half of doHandshake, with k
\* more segments.  process_s0s1s2 copies everything cached into a buffer of
\* 3073 bytes; its verdict is ignored.
OnRecvHandshake(k) ==
    LET complete == hsLen + k >= HsUnits
        early    == hsLen + k > HsUnits
    IN  /\ tcp = "open" /\ status_ = "SEND_C0C1" /\ phase = "poll" /\ faults = {}
        /\ hsLen' = IF complete THEN hsLen + k - HsUnits ELSE hsLen + k
        /\ status_' = IF complete THEN "SEND_C2" ELSE status_
        /\ pushPullStatus_' = IF complete THEN "CONNECT_APP" ELSE pushPullStatus_
        /\ requestsMap_' = IF complete THEN [requestsMap_ EXCEPT ![1] = "connect"]
                                       ELSE requestsMap_
        /\ sent' = IF complete THEN sent \cup {"c2"} \cup ConnectCommands ELSE sent
        /\ disorder' = IF early THEN disorder \cup {"early_bytes"} ELSE disorder
        /\ faults' = IF early THEN faults \cup {"handshake_overflow"} ELSE faults
        /\ UNCHANGED <<dir, audio, client, streamid, havestop, rtmp_socket_,
                       devices, loop, msgs, answered, granted, seen>>

-----------------------------------------------------------------------------
(* Messages: one turn of the loop in processData *)

\* Mutant: _error taken for _result.
DecodeIgnoresError(m) == requestsMap_[m.number]

\* decode_msg on an answer: the name the number was recorded under decides
\* the class of packet; a refusal or an unknown number delivers none.
Decode(m) ==
    IF ~m.ok THEN "none" ELSE requestsMap_[m.number]

\* createStream()
CreateStreamCommands ==
    IF dir = "push" THEN {"releaseStream", "FCPublish", "createStream"}
                    ELSE {"createStream", "_checkbw"}

RecordCreateStream ==
    IF dir = "push"
    THEN [requestsMap_ EXCEPT ![2] = "releaseStream", ![3] = "FCPublish",
                              ![4] = "createStream"]
    ELSE [requestsMap_ EXCEPT ![2] = "createStream"]

\* publish() and play()
StreamCommands ==
    IF dir = "push" THEN {"setChunkSize", "publish"}
                    ELSE {"getStreamLength", "play", "setBufferLength"}

\* An answer came: history records it when the request it names is out.
Answer(m) ==
    /\ answered' = IF /\ m.ok
                      /\ \/ m.number = 1 /\ "connect" \in sent
                         \/ m.number = CreateNumber /\ "createStream" \in sent
                   THEN answered \cup {m.number} ELSE answered
    /\ granted' = IF /\ m.ok /\ m.number = CreateNumber
                     /\ "createStream" \in sent /\ granted = 0
                  THEN m.id ELSE granted

\* An answer in each of the three states of pushPullStatus_.
OnResult(m) ==
    /\ m.type = "result"
    /\ CASE pushPullStatus_ = "CONNECT_APP" /\ Decode(m) = "connect" ->
              /\ pushPullStatus_' = "CREATE_STREAM"
              /\ requestsMap_' = RecordCreateStream
              /\ sent' = sent \cup CreateStreamCommands
              /\ UNCHANGED streamid
         [] pushPullStatus_ = "CREATE_STREAM" /\ Decode(m) = "createStream" ->
              /\ pushPullStatus_' = "PUSH_OR_PULL"
              /\ streamid' = m.id
              /\ sent' = sent \cup StreamCommands
              /\ UNCHANGED requestsMap_
         [] OTHER ->
              UNCHANGED <<pushPullStatus_, requestsMap_, sent, streamid>>
    /\ Answer(m)
    /\ UNCHANGED <<havestop, devices, timer, closing, seen, disorder, faults>>

\* RtmpPublishClient::onPublishStart and sendMetaData: devices are created
\* and record, the timer starts unless it is closing.
OnPublishStart ==
    /\ orphan' = (orphan \/ video_device_ = "recording"
                         \/ (audio /\ audio_device_ = "recording"))
    /\ video_device_' = "recording"
    /\ audio_device_' = IF audio THEN "recording" ELSE audio_device_
    /\ timer' = IF timer = "idle" THEN "active" ELSE timer
    /\ sent' = sent \cup {"metadata"}
    /\ UNCHANGED <<havestop, closing, faults>>

\* The onStatus branch of processData, which looks for the code without asking
\* whether there is one.
OnStatus(m) ==
    /\ m.type = "onStatus"
    /\ IF pushPullStatus_ # "PUSH_OR_PULL"
       THEN UNCHANGED <<havestop, devices, timer, closing, sent, faults>>
       ELSE CASE m.code = "Publish.Start" /\ dir = "push" ->
                   OnPublishStart
              [] m.code = "Unpublish.Success" ->
                   /\ havestop' = TRUE
                   /\ PublishStop
                   /\ UNCHANGED <<orphan, sent>>
              [] m.code = "none" ->
                   /\ faults' = faults \cup {"null_status"}
                   /\ UNCHANGED <<havestop, devices, timer, closing, sent>>
              [] OTHER ->
                   UNCHANGED <<havestop, devices, timer, closing, sent, faults>>
    /\ seen' = IF pushPullStatus_ = "PUSH_OR_PULL" THEN seen \cup {m.code} ELSE seen
    /\ disorder' = disorder
         \cup (IF /\ pushPullStatus_ = "PUSH_OR_PULL" /\ dir = "push"
                 /\ \/ /\ m.code = "Publish.Start"
                       /\ seen \cap {"Publish.Start", "Unpublish.Success"} # {}
                    \/ /\ m.code = "Unpublish.Success"
                       /\ m.code \in seen
               THEN {"status_repeated"} ELSE {})
         \cup (IF m.code = "none" THEN {"status_without_code"} ELSE {})
    /\ UNCHANGED <<pushPullStatus_, requestsMap_, streamid, answered, granted>>

\* A packet the session has no branch for.
OnOther(m) ==
    /\ m.type = "other"
    /\ UNCHANGED <<pushPullStatus_, requestsMap_, streamid, havestop, devices,
                   timer, closing, history>>

\* onRecvData after the handshake, for one complete message.
OnRecvMessage(m) ==
    /\ tcp = "open" /\ status_ = "SEND_C2" /\ phase = "poll" /\ faults = {}
    /\ msgs < MaxMsgs /\ msgs' = msgs + 1
    /\ OnResult(m) \/ OnStatus(m) \/ OnOther(m)
    /\ UNCHANGED <<dir, audio, client, status_, rtmp_socket_, hsLen, tcp,
                   running, phase>>

-----------------------------------------------------------------------------
(* Teardown *)

\* TcpSocket::onMessage with a negative size.  The loop may deliver the end of
\* the stream in the poll phase that already delivered other data.
OnEof ==
    /\ tcp = "open" /\ phase = "poll" /\ faults = {}
    /\ TcpClose
    /\ disorder' = IF timer = "closing" THEN disorder \cup {"eof_overtakes"}
                                        ELSE disorder
    /\ UNCHANGED <<object, devices, timer, running, phase, msgs, sent, answered,
                   granted, seen>>

\* Mutant: onClose stops publishing without looking at havestop.
TcpClosedAlwaysStops ==
    /\ phase = "close" /\ running # <<>> /\ Head(running) = "tcp" /\ faults = {}
    /\ running' = Tail(running)
    /\ tcp' = "freed" /\ rtmp_socket_' = "null"
    /\ havestop' = TRUE
    /\ PublishStop
    /\ UNCHANGED <<dir, audio, client, status_, pushPullStatus_, streamid,
                   requestsMap_, hsLen, orphan, phase, msgs, sent, answered,
                   granted, seen, disorder>>

\* The callback of uv_close on the socket: BaseSocket::onClosed calls
\* RtmpClient::onClose, then deletes the socket.
OnTcpClosed ==
    /\ phase = "close" /\ running # <<>> /\ Head(running) = "tcp" /\ faults = {}
    /\ running' = Tail(running)
    /\ tcp' = "freed" /\ rtmp_socket_' = "null"
    /\ havestop' = TRUE
    /\ IF havestop
       THEN /\ DeleteThis(timer)
            /\ UNCHANGED <<audio_device_, timer, closing>>
       ELSE /\ PublishStop
            /\ UNCHANGED client
    /\ UNCHANGED <<dir, audio, status_, pushPullStatus_, streamid, requestsMap_,
                   hsLen, orphan, phase, msgs, sent, answered, granted, seen,
                   disorder>>

\* Mutant: onStoped deletes the client without looking at rtmp_socket_.
TimerClosedDeletes ==
    /\ phase = "close" /\ running # <<>> /\ Head(running) = "timer" /\ faults = {}
    /\ running' = Tail(running)
    /\ timer' = "closed"
    /\ DeleteThis("closed")
    /\ UNCHANGED <<dir, audio, status_, pushPullStatus_, streamid, havestop,
                   rtmp_socket_, requestsMap_, hsLen, audio_device_, orphan, tcp,
                   closing, phase, msgs, sent, answered, granted, seen, disorder>>

\* The callback of uv_close on the timer: RtmpClient::onStoped.
OnTimerClosed ==
    /\ phase = "close" /\ running # <<>> /\ Head(running) = "timer" /\ faults = {}
    /\ running' = Tail(running)
    /\ timer' = "closed"
    /\ IF rtmp_socket_ = "set"
       THEN /\ TcpClose
            /\ UNCHANGED <<client, video_device_>>
       ELSE /\ DeleteThis("closed")
            /\ UNCHANGED <<tcp, closing>>
    /\ UNCHANGED <<dir, audio, status_, pushPullStatus_, streamid, havestop,
                   rtmp_socket_, requestsMap_, hsLen, audio_device_, orphan,
                   phase, msgs, sent, answered, granted, seen, disorder>>

\* RtmpClient::stop, called by the user of the class on the loop thread while
\* it believes in the client: a publisher sends releaseStream, transaction 2.
Stop ==
    /\ client = "alive" /\ tcp # "none" /\ phase = "poll" /\ faults = {}
    /\ dir = "push"
    /\ requestsMap_' = [requestsMap_ EXCEPT ![2] = "releaseStream"]
    /\ sent' = sent \cup {"releaseStream"}
    /\ disorder' = disorder
         \cup (IF tcp = "freed" THEN {"stop_after_close"} ELSE {})
         \cup (IF status_ # "SEND_C2" THEN {"early_stop"} ELSE {})
    /\ faults' = IF tcp = "freed" THEN faults \cup {"send_on_freed_socket"}
                                  ELSE faults
    /\ UNCHANGED <<dir, audio, client, status_, pushPullStatus_, streamid,
                   havestop, rtmp_socket_, hsLen, devices, loop, msgs, answered,
                   granted, seen>>

\* The loop keeps running without this client, or the process is undefined.
Idle ==
    /\ client = "freed" \/ faults # {} \/ tcp \in {"failed", "freed"}
    /\ UNCHANGED vars

Next ==
    \/ EndPoll \/ EndClosing
    \/ Start \/ OnConnectOk \/ OnConnectFail
    \/ \E k \in 1..(HsUnits + 1) : OnRecvHandshake(k)
    \/ \E m \in Messages : OnRecvMessage(m)
    \/ OnEof \/ OnTcpClosed \/ OnTimerClosed
    \/ Stop
    \/ Idle

\* The loop finishes the iteration it is in; nothing else is promised.
Fairness == WF_vars(EndPoll \/ EndClosing \/ OnTcpClosed \/ OnTimerClosed)

Spec == Init /\ [][Next]_vars /\ Fairness
-----------------------------------------------------------------------------
(* Properties *)

\* Every variable keeps its type; in particular at most both handles are in
\* libuv's closing lists.
TypeOK ==
    /\ dir \in {"push", "pull"} /\ audio \in BOOLEAN
    /\ client \in {"alive", "freed"}
    /\ status_ \in {"START", "SEND_C0C1", "SEND_C2"}
    /\ pushPullStatus_ \in {"CONNECT_APP", "CREATE_STREAM", "PUSH_OR_PULL"}
    /\ streamid \in StreamIds \cup {0} /\ havestop \in BOOLEAN
    /\ rtmp_socket_ \in {"uninit", "set", "null"}
    /\ requestsMap_ \in [Numbers -> Names]
    /\ hsLen \in Nat
    /\ video_device_ \in {"null", "garbage", "recording", "stopped"}
    /\ audio_device_ \in {"null", "garbage", "recording", "stopped"}
    /\ orphan \in BOOLEAN
    /\ timer \in {"none", "idle", "active", "closing", "closed"}
    /\ tcp \in {"none", "connecting", "failed", "open", "closing", "freed"}
    /\ closing \in Seq(Handles) /\ running \in Seq(Handles)
    /\ phase \in {"poll", "close"}
    /\ msgs \in 0..MaxMsgs
    /\ answered \subseteq Numbers /\ granted \in StreamIds \cup {0}
    /\ seen \subseteq Statuses

\* What each undefined behaviour needs to have gone before it.  The two that
\* matter most: the end of the stream in the same poll as Unpublish.Success
\* (libuv runs the socket's close callback first, and it deletes the client
\* under the timer), and a havestop that happens to be nonzero at birth.
Causes ==
    [ handshake_overflow  |-> {"early_bytes"},
      garbage_device      |-> {"device_uninit"},
      timer_closed_twice  |-> {"status_repeated"},
      timer_freed_in_use  |-> {"eof_overtakes", "havestop_uninit"},
      callback_after_free |-> {"status_repeated", "havestop_uninit"},
      send_on_freed_socket |-> {"stop_after_close"},
      null_status         |-> {"status_without_code"},
      socket_closed_twice |-> {} ]

\* The teardown of rtmpclient.cc is free of undefined behaviour except after
\* one of the events the table names, and TcpSocket::close never meets a
\* socket that is already closing.
FaultsExplained ==
    \A f \in faults : Causes[f] \cap disorder # {}

\* When the client has deleted itself, no callback that could reach it is
\* left: its handles are closed, no device records for it.
NothingOutlivesClient ==
    client = "freed" /\ faults = {} =>
        /\ tcp = "freed" /\ timer \in {"none", "closed"}
        /\ closing = <<>> /\ running = <<>>
        /\ video_device_ # "recording" /\ audio_device_ # "recording" /\ ~orphan

\* publish and play go out only after the server granted connect and
\* createStream, each after it was asked, and they name the stream granted:
\* premature, refused, unknown and repeated answers change nothing.
StreamGranted ==
    sent \cap StreamCommands # {} =>
        /\ {1, CreateNumber} \subseteq answered
        /\ streamid = granted /\ streamid # 0

\* No chunk is sent before C2, unless the user stops the client that early.
HandshakeFirst ==
    sent \subseteq {"c0c1"} \/ status_ = "SEND_C2" \/ "early_stop" \in disorder

\* Devices record only for a stream the server started and has not stopped,
\* so no frame is encoded for a session that is over.
RecordingMeansPublishing ==
    (video_device_ = "recording" \/ audio_device_ = "recording")
      /\ disorder = {} =>
        /\ "Publish.Start" \in seen /\ "Unpublish.Success" \notin seen
        /\ timer = "active" /\ ~havestop

\* The session keeps to the order of the protocol: handshake, connect,
\* createStream, publish or play with the stream granted, and media only
\* between Publish.Start and Unpublish.Success.
ProtocolOrder == HandshakeFirst /\ StreamGranted /\ RecordingMeansPublishing

\* A publisher whose connection ends, or which the server stops, deletes
\* itself: no close callback is lost on the way.
StopCompletes ==
    (dir = "push" /\ (tcp = "closing" \/ timer = "closing"))
        ~> (client = "freed" \/ faults # {})
=============================================================================
