---------------------------- MODULE WsClientLife ----------------------------
(***************************************************************************)
(* The life of one WebSocketClient (net/NetCore.cc) on the loop's thread:  *)
(* connect, the handshake, the ping timer, and the ways it ends: closeWs,  *)
(* which closes the timer and lets the timer's callback close the socket,  *)
(* TcpSocket::close, the end of the connection and a refused handshake,    *)
(* which close the socket alone.                                           *)
(*                                                                         *)
(* A behaviour ends with its first undefined behaviour, named in faults;   *)
(* disorder names what the peer or the user did before it besides a single *)
(* closeWs of a client that is connecting or connected.                    *)
(***************************************************************************)
EXTENDS Naturals, Sequences

CONSTANTS
  MaxFrames,   (* Frames the server sends.  Bounds the model.              *)
  MaxCloses    (* Calls of closeWs and close.  Bounds the model.           *)

BoundsAssumption == MaxFrames \in Nat /\ MaxCloses \in Nat

VARIABLES
  object,      (* "alive" or "deleted".                                    *)
  tcp,         (* uv_tcp_t: "none", "connecting", "failed", "open",        *)
               (* "aborting" (closing while it connects), "closing",       *)
               (* "deleted".                                               *)
  pingTimer_,  (* uv_timer_t: "idle", "active", "closing", "deleted".      *)
  bIsConnect,  (* Of wsProtocol_.                                          *)
  closing,     (* Handles closed in this iteration of the loop, last first.*)
  running,     (* The list libuv is running the close callbacks of.        *)
  wire,        (* Lines of the response and frames on their way.           *)
  answer,      (* What the server answered: "none", "accept", "refuse".    *)
  sent,        (* Frames the server has sent.                              *)
  closes,      (* Calls of closeWs and close.                              *)
  told,        (* History: what the callbacks told the user, in order.     *)
  delivered,   (* History: frames handed up.                               *)
  disorder, faults

handles == <<object, tcp, pingTimer_, closing, running>>
peer    == <<wire, answer, sent>>
vars == <<handles, bIsConnect, peer, closes, told, delivered, disorder, faults>>

Init ==
  /\ object = "alive" /\ tcp = "none" /\ pingTimer_ = "idle"
  /\ bIsConnect = FALSE
  /\ closing = << >> /\ running = << >>
  /\ wire = << >> /\ answer = "none" /\ sent = 0
  /\ closes = 0
  /\ told = << >> /\ delivered = << >>
  /\ disorder = {} /\ faults = {}

Polling == running = << >> /\ faults = {}

(* Tokens of the stream: the first line of the response, the rest of it    *)
(* with its blank line, and the frames, by number.                         *)
Head1 == 0
Tail1 == MaxFrames + 1
Frames(s) == SelectSeq(s, LAMBDA t : t \in 1 .. MaxFrames)

-----------------------------------------------------------------------------
(* connect: connectServer, and the path and host are kept.                 *)
Connect ==
  /\ Polling /\ object = "alive" /\ tcp = "none"
  /\ tcp' = "connecting"
  /\ UNCHANGED <<object, pingTimer_, closing, running, bIsConnect, peer, closes, told,
                 delivered, disorder, faults>>

(* onConnect: the request is sent, or the user is told; nothing is closed. *)
OnConnect ==
  /\ Polling /\ tcp = "connecting"
  /\ \/ tcp' = "open" /\ UNCHANGED told
     \/ tcp' = "failed" /\ told' = Append(told, "refused")
  /\ UNCHANGED <<object, pingTimer_, closing, running, bIsConnect, peer, closes, delivered,
                 disorder, faults>>

(* The server answers, then sends frames.                                  *)
Answer ==
  /\ Polling /\ tcp = "open" /\ answer = "none"
  /\ answer' \in {"accept", "refuse"}
  /\ wire' = wire \o <<Head1, Tail1>>
  /\ UNCHANGED <<handles, bIsConnect, sent, closes, told, delivered, disorder, faults>>

SendFrame ==
  /\ Polling /\ tcp = "open" /\ answer = "accept" /\ sent < MaxFrames
  /\ sent' = sent + 1
  /\ wire' = Append(wire, sent + 1)
  /\ UNCHANGED <<handles, bIsConnect, answer, closes, told, delivered, disorder, faults>>

(* TcpSocket::close.  On a handle that is closing already it deletes the   *)
(* object, and with it the handle libuv still holds.                       *)
TcpClose ==
  IF tcp = "none" THEN
    /\ faults' = faults \cup {"uninitialized_handle"}
    /\ UNCHANGED <<object, tcp, closing, told>>
  ELSE IF tcp \in {"closing", "aborting"} THEN
    /\ object' = "deleted" /\ tcp' = "deleted"
    /\ told' = Append(told, "closed")
    /\ faults' = faults \cup {"socket_freed_in_use"}
    /\ UNCHANGED closing
  ELSE
    /\ tcp' = IF tcp = "connecting" THEN "aborting" ELSE "closing"
    /\ closing' = <<"tcp">> \o closing
    /\ UNCHANGED <<object, told, faults>>

(* doResponse of the segment (see WsHandshake).                            *)
Accepts(segment) ==
  /\ answer = "accept"
  /\ \E i, j \in DOMAIN segment : segment[i] = Head1 /\ segment[j] = Tail1

(* onMessage of the first n tokens before the client is connected.         *)
OnHandshake(n) ==
  LET segment == SubSeq(wire, 1, n)
  IN  /\ Polling /\ tcp = "open" /\ ~bIsConnect
      /\ n \in 1 .. Len(wire)
      /\ wire' = SubSeq(wire, n + 1, Len(wire))
      /\ IF Accepts(segment)
         THEN /\ bIsConnect' = TRUE
              /\ pingTimer_' = IF pingTimer_ = "idle" THEN "active" ELSE pingTimer_
              /\ told' = Append(told, "connected")
              /\ UNCHANGED <<object, tcp, closing, faults>>
         ELSE /\ tcp' = "closing" /\ closing' = <<"tcp">> \o closing
              /\ told' = Append(told, "refused")
              /\ UNCHANGED <<object, bIsConnect, pingTimer_, faults>>
      /\ disorder' = disorder
           \cup (IF pingTimer_ = "closing" THEN {"data_while_closing"} ELSE {})
           \cup (IF answer = "refuse" THEN {"refused"} ELSE {})
           \cup (IF answer = "accept" /\ n < 2 THEN {"response_cut"} ELSE {})
           \cup (IF Accepts(segment) /\ n > 2 THEN {"frame_with_response"} ELSE {})
      /\ UNCHANGED <<running, answer, sent, closes, delivered>>

(* onMessage of frames that are whole (see WsStream).                      *)
OnFrames(n) ==
  /\ Polling /\ tcp = "open" /\ bIsConnect
  /\ n \in 1 .. Len(wire)
  /\ wire' = SubSeq(wire, n + 1, Len(wire))
  /\ delivered' = delivered \o SubSeq(wire, 1, n)
  /\ UNCHANGED <<handles, bIsConnect, answer, sent, closes, told, disorder, faults>>

(* onMessage at the end of the stream.                                     *)
OnEof ==
  /\ Polling /\ tcp = "open" /\ wire = << >>
  /\ TcpClose
  /\ disorder' = disorder \cup {"closed_by_peer"}
  /\ UNCHANGED <<pingTimer_, running, bIsConnect, peer, closes, delivered>>

(* Mutant: closeWs closes the socket and forgets the timer.                *)
CloseWsLeavesTimer ==
  /\ Polling /\ object = "alive" /\ closes < MaxCloses
  /\ closes' = closes + 1
  /\ bIsConnect' = FALSE
  /\ TcpClose
  /\ disorder' = disorder \cup (IF closes > 0 THEN {"closed_twice"} ELSE {})
                          \cup (IF tcp = "none" THEN {"close_before_connect"} ELSE {})
  /\ UNCHANGED <<pingTimer_, running, peer, delivered>>

(* closeWs.  uv_close asserts that the handle is not closing.              *)
CloseWs ==
  /\ Polling /\ object = "alive" /\ closes < MaxCloses
  /\ closes' = closes + 1
  /\ bIsConnect' = FALSE
  /\ IF pingTimer_ \in {"closing", "deleted"}
     THEN faults' = faults \cup {"timer_closed_twice"} /\ UNCHANGED <<pingTimer_, closing>>
     ELSE /\ pingTimer_' = "closing" /\ closing' = <<"timer">> \o closing
          /\ UNCHANGED faults
  /\ disorder' = disorder \cup (IF closes > 0 THEN {"closed_twice"} ELSE {})
                          \cup (IF tcp = "none" THEN {"close_before_connect"} ELSE {})
                          \cup (IF tcp = "closing" THEN {"closed_while_closing"} ELSE {})
  /\ UNCHANGED <<object, tcp, running, peer, told, delivered>>

(* TcpSocket::close by the user.                                           *)
Close ==
  /\ Polling /\ object = "alive" /\ closes < MaxCloses
  /\ closes' = closes + 1
  /\ TcpClose
  /\ disorder' = disorder \cup {"socket_closed"}
                          \cup (IF closes > 0 THEN {"closed_twice"} ELSE {})
                          \cup (IF tcp = "none" THEN {"close_before_connect"} ELSE {})
                          \cup (IF tcp \in {"closing", "aborting"} THEN {"closed_while_closing"} ELSE {})
  /\ UNCHANGED <<pingTimer_, running, bIsConnect, peer, delivered>>

(* onTimer: sendPingRequest encodes a ping and drops it.                   *)
OnTimer ==
  /\ Polling /\ pingTimer_ = "active"
  /\ faults' = IF object = "deleted" THEN {"timer_after_delete"} ELSE {}
  /\ UNCHANGED <<handles, bIsConnect, peer, closes, told, delivered, disorder>>

-----------------------------------------------------------------------------
(* libuv: at the end of an iteration it runs the close callbacks of what   *)
(* the iteration closed; what they close waits for the next one.           *)
EndPoll ==
  /\ Polling /\ closing # << >>
  /\ running' = closing /\ closing' = << >>
  /\ UNCHANGED <<object, tcp, pingTimer_, bIsConnect, peer, closes, told, delivered,
                 disorder, faults>>

(* The callback closeWs gives the timer: close, and the handle is deleted. *)
TimerClosed ==
  /\ faults = {} /\ running # << >> /\ Head(running) = "timer"
  /\ running' = Tail(running)
  /\ pingTimer_' = "deleted"
  /\ IF object = "deleted"
     THEN faults' = faults \cup {"closed_after_delete"} /\ UNCHANGED <<object, tcp, closing, told>>
     ELSE TcpClose
  /\ UNCHANGED <<bIsConnect, peer, closes, delivered, disorder>>

(* libuv ends a connect that is under way with onConnect(UV_ECANCELED),    *)
(* then calls back: onClosed tells the user and deletes the object.        *)
SocketClosed ==
  /\ faults = {} /\ running # << >> /\ Head(running) = "tcp"
  /\ running' = Tail(running)
  /\ object' = "deleted" /\ tcp' = "deleted"
  /\ told' = told \o (IF tcp = "aborting" THEN <<"refused">> ELSE << >>) \o <<"closed">>
  /\ UNCHANGED <<pingTimer_, closing, bIsConnect, peer, closes, delivered, disorder, faults>>

Next ==
  \/ Connect \/ OnConnect \/ Answer \/ SendFrame
  \/ \E n \in 1 .. Len(wire) : OnHandshake(n) \/ OnFrames(n)
  \/ OnEof \/ CloseWs \/ Close \/ OnTimer
  \/ EndPoll \/ TimerClosed \/ SocketClosed

(* The loop goes on; nothing else need happen.                             *)
Fairness == WF_vars(EndPoll) /\ WF_vars(TimerClosed) /\ WF_vars(SocketClosed)

Spec == Init /\ [][Next]_vars /\ Fairness

-----------------------------------------------------------------------------
TypeOK ==
  /\ object \in {"alive", "deleted"}
  /\ tcp \in {"none", "connecting", "failed", "open", "aborting", "closing", "deleted"}
  /\ pingTimer_ \in {"idle", "active", "closing", "deleted"}
  /\ closing \in Seq({"tcp", "timer"}) /\ running \in Seq({"tcp", "timer"})
  /\ wire \in Seq(0 .. MaxFrames + 1)
  /\ told \in Seq({"connected", "refused", "closed"})
  /\ (object = "deleted" <=> tcp = "deleted")

(* One closeWs of a client that is connecting or connected, with nothing   *)
(* arriving until its callbacks have run, ends without a fault (closeWs).  *)
OrderlyCloseIsSafe ==
  disorder \subseteq {"frame_with_response"} => faults = {}

(* The timer is left to call a deleted client only by an end that did not  *)
(* go through closeWs; and closeWs meets a socket that is closing, or is   *)
(* overtaken by its callback, only if something closed the socket too: a   *)
(* segment that arrived meanwhile, the peer, a refusal, or a second call.  *)
FaultsHaveTheirCause ==
  /\ "timer_after_delete" \in faults =>
       disorder \cap {"closed_by_peer", "socket_closed"} # {} /\ pingTimer_ = "active"
  /\ faults \cap {"socket_freed_in_use", "closed_after_delete"} # {} =>
       disorder \cap {"data_while_closing", "closed_by_peer", "closed_twice",
                      "closed_while_closing"} # {}
  /\ "timer_closed_twice" \in faults => "closed_twice" \in disorder

(* The user is told once how the connection attempt went, and once that it *)
(* is closed, last of all, unless data arrived after closeWs (doResponse   *)
(* is asked again).                                                        *)
ToldOnce ==
  faults = {} /\ "data_while_closing" \notin disorder =>
    /\ \A i, j \in DOMAIN told : told[i] \in {"connected", "refused"} /\ i < j => told[j] = "closed"
    /\ \A i \in DOMAIN told : told[i] = "closed" <=> i = Len(told) /\ object = "deleted"

(* The user is told "connected" only if a response that accepts came whole *)
(* in one segment, and the frames handed up are those that followed it, in *)
(* order; all but those that came with the response.                       *)
FramesAfterResponse ==
  /\ delivered # << >> => told # << >> /\ told[1] = "connected" /\ answer = "accept"
  /\ \A i \in 2 .. Len(delivered) : delivered[i] = delivered[i - 1] + 1
  /\ bIsConnect /\ wire = << >> /\ disorder = {} => Len(delivered) = sent

(* What closeWs began is brought to its end: the user is told and the      *)
(* object and both handles are gone, or it ended with a fault.             *)
CloseCompletes ==
  pingTimer_ = "closing" ~> faults # {} \/ (object = "deleted" /\ pingTimer_ = "deleted")

-----------------------------------------------------------------------------
(* The inductive invariant of the safety properties, in parts.  The first  *)
(* four are of a behaviour without a fault, which goes on.                 *)

LifeTypes ==
  /\ tcp \in {"none", "connecting", "failed", "open", "aborting", "closing", "deleted"}
  /\ pingTimer_ \in {"idle", "active", "closing", "deleted"}
  /\ object = IF tcp = "deleted" THEN "deleted" ELSE "alive"
  /\ bIsConnect \in BOOLEAN
  /\ answer \in {"none", "accept", "refuse"}
  /\ wire \in Seq(Nat) /\ sent \in 0 .. MaxFrames
  /\ closes \in Nat
  /\ told \in Seq({"connected", "refused", "closed"})
  /\ delivered \in Seq(Nat)

(* libuv holds a socket that is closing, once, and no other.               *)
Lists == {<< >>, <<"tcp">>, <<"timer">>, <<"tcp", "timer">>, <<"timer", "tcp">>}
Holds(list, handle) == \E i \in DOMAIN list : list[i] = handle

HandlesInv ==
  /\ closing \in Lists /\ running \in Lists
  /\ \A h \in {"tcp", "timer"} : ~(Holds(closing, h) /\ Holds(running, h))
  /\ Holds(closing, "tcp") \/ Holds(running, "tcp") <=> tcp \in {"aborting", "closing"}
  /\ Holds(closing, "timer") \/ Holds(running, "timer") <=> pingTimer_ = "closing"

(* How the timer, the socket and the flag of the protocol go together, and *)
(* what must have happened for a timer to meet a socket that is closing.   *)
Overtaken == {"data_while_closing", "closed_by_peer", "closed_twice", "closed_while_closing"}

TimerInv ==
  /\ tcp = "aborting" => closes > 0
  /\ pingTimer_ \in {"closing", "deleted"} => closes > 0
  /\ pingTimer_ = "active" => bIsConnect /\ tcp \in {"open", "closing", "deleted"}
  /\ pingTimer_ = "idle" => ~bIsConnect
  /\ pingTimer_ = "deleted" => tcp \in {"aborting", "closing", "deleted"}
  /\ pingTimer_ = "closing" /\ tcp = "none" => "close_before_connect" \in disorder
  /\ pingTimer_ = "closing" /\ tcp \in {"aborting", "closing", "deleted"} =>
       disorder \cap Overtaken # {}
  /\ pingTimer_ = "active" /\ tcp \in {"closing", "deleted"} =>
       disorder \cap {"closed_by_peer", "socket_closed"} # {}

(* What the user has been told of a client that is where it is.            *)
ToldInv ==
  /\ tcp \in {"none", "connecting", "aborting"} => told = << >>
  /\ tcp = "open" /\ pingTimer_ = "idle" => told = << >>
  /\ "data_while_closing" \notin disorder =>
       told \in IF tcp = "deleted"
               THEN {<<"closed">>, <<"connected", "closed">>, <<"refused", "closed">>}
               ELSE {<< >>, <<"connected">>, <<"refused">>}

(* The stream of a server is its response and its frames; what is on its   *)
(* way is the end of it.                                                   *)
Token(k) == IF k = 1 THEN Head1 ELSE IF k = 2 THEN Tail1 ELSE k - 2

StreamInv ==
  /\ answer = "none" => wire = << >> /\ sent = 0
  /\ tcp \in {"none", "connecting"} => answer = "none"
  /\ tcp \in {"none", "connecting", "open"} /\ answer = "none" => told = << >>
  /\ Len(wire) <= sent + 2
  /\ \A i \in DOMAIN wire : wire[i] = Token(sent + 2 - Len(wire) + i)
  /\ bIsConnect \/ delivered # << >> => told # << >> /\ told[1] = "connected" /\ answer = "accept"
  /\ answer # "none" /\ tcp = "open" /\ told # << >> => Len(wire) <= sent
  /\ bIsConnect => Len(wire) <= sent
  /\ \A i \in 2 .. Len(delivered) : delivered[i] = delivered[i - 1] + 1
  /\ bIsConnect /\ delivered # << >> => delivered[Len(delivered)] = sent - Len(wire)
  /\ bIsConnect /\ disorder = {} => Len(delivered) + Len(wire) = sent

(* What a fault leaves, which is all that comes after it.                  *)
FaultInv ==
  /\ "timer_after_delete" \in faults =>
       disorder \cap {"closed_by_peer", "socket_closed"} # {} /\ pingTimer_ = "active"
  /\ faults \cap {"socket_freed_in_use", "closed_after_delete"} # {} =>
       disorder \cap Overtaken # {}
  /\ "timer_closed_twice" \in faults => "closed_twice" \in disorder
  /\ "uninitialized_handle" \in faults => "close_before_connect" \in disorder
  /\ faults \subseteq {"timer_after_delete", "socket_freed_in_use", "closed_after_delete",
                       "timer_closed_twice", "uninitialized_handle"}

LifeInv ==
  /\ LifeTypes /\ StreamInv /\ FaultInv
  /\ faults = {} => HandlesInv /\ TimerInv /\ ToldInv
=============================================================================
