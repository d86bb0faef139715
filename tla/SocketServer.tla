---------------------------- MODULE SocketServer ----------------------------
(***************************************************************************)
(* TcpSocketServer and its TcpSocketConns (net/NetCore.cc) on the loop's   *)
(* thread, their user, who answers and closes by key, and one other thread *)
(* that sends by key, which posts the send to the loop.  The table of the  *)
(* server is keyed by the peer's address, while libuv's handles and the    *)
(* objects have an identity of their own: what can go wrong is that the    *)
(* two part.                                                               *)
(*                                                                         *)
(* A behaviour ends with its first undefined behaviour, named in faults.   *)
(* disorder names what was out of the ordinary before it.                  *)
(***************************************************************************)
EXTENDS Naturals, Sequences, FiniteSets, SequencesExt

CONSTANTS
  Addrs,       (* Addresses of peers: what generalKey makes of one.        *)
  MaxConns,    (* Connections accepted.  Bounds the model.                 *)
  MaxCloses,   (* Calls of close by the user.  Bounds the model.           *)
  MaxSends     (* Sends by the other thread.  Bounds the model.            *)

AddrsAssumption == Addrs # {}
BoundsAssumption == MaxConns \in Nat /\ MaxCloses \in Nat /\ MaxSends \in Nat

Conns == 1 .. MaxConns
None  == 0

VARIABLES
  ws,          (* ws_: the server speaks WebSocket.                        *)
  clientMap,   (* The table: an address to a connection or None.           *)
  peer,        (* Per connection, the address of its peer.                 *)
  selfkey,     (* Per connection, the key it thinks it has.                *)
  object,      (* Per connection: "unused", "alive", "deleted".            *)
  tcp,         (* Its handle: "none", "open", "closing", "closed".         *)
  peerGone,    (* Per connection: the peer has reset it.                   *)
  wsConnected, (* bIsConnect of the connection's WebSocketProtocolServer.  *)
  closing,     (* Handles closed in this iteration of the loop, last first.*)
  running,     (* The list libuv is running the close callbacks of.        *)
  posted,      (* Sends posted to the loop.                                *)
  worker,      (* The other thread: its step, key and connection.          *)
  sends,       (* Sends it has begun.                                      *)
  closes,      (* Calls of close(key).                                     *)
  reported,    (* Per key, calls of the user's close callback.             *)
  crossed,     (* An answer went to another connection than it was for.    *)
  disorder, faults

conn == <<ws, peer, selfkey, peerGone, wsConnected>>
loop == <<closing, running>>
other == <<posted, worker, sends>>
vars == <<ws, clientMap, peer, selfkey, object, tcp, peerGone, wsConnected, closing,
          running, posted, worker, sends, closes, reported, crossed, disorder, faults>>

Disorders == {"same_key", "closed_again", "send_overtaken", "buffer_reused"}
Faults == {"handle_deleted", "null_conn", "conn_deleted", "buffer_gone"}

Idle == [pc |-> "idle", key |-> CHOOSE a \in Addrs : TRUE, conn |-> None]

Posts   == [conn : Conns, copied : BOOLEAN, valid : BOOLEAN]
Workers == [pc : {"idle", "found", "in_conn"}, key : Addrs, conn : Conns \cup {None}]

TypeOK ==
  /\ ws \in BOOLEAN
  /\ clientMap \in [Addrs -> Conns \cup {None}]
  /\ peer \in [Conns -> Addrs] /\ selfkey \in [Conns -> Addrs]
  /\ object \in [Conns -> {"unused", "alive", "deleted"}]
  /\ tcp \in [Conns -> {"none", "open", "closing", "closed"}]
  /\ peerGone \in [Conns -> BOOLEAN] /\ wsConnected \in [Conns -> BOOLEAN]
  /\ closing \in Seq(Conns) /\ running \in Seq(Conns)
  /\ \A i \in DOMAIN running : tcp[running[i]] = "closing"
  /\ posted \in Seq(Posts) /\ worker \in Workers
  /\ sends \in 0 .. MaxSends /\ closes \in 0 .. MaxCloses
  /\ reported \in [Addrs -> 0 .. MaxConns + MaxCloses]
  /\ crossed \in BOOLEAN
  /\ disorder \subseteq Disorders /\ faults \subseteq Faults

Init ==
  /\ ws \in BOOLEAN
  /\ clientMap = [a \in Addrs |-> None]
  /\ peer      = [c \in Conns |-> CHOOSE a \in Addrs : TRUE]
  /\ selfkey   = peer
  /\ object    = [c \in Conns |-> "unused"]
  /\ tcp       = [c \in Conns |-> "none"]
  /\ peerGone  = [c \in Conns |-> FALSE]
  /\ wsConnected = [c \in Conns |-> FALSE]
  /\ closing = << >> /\ running = << >>
  /\ posted = << >> /\ worker = Idle /\ sends = 0
  /\ closes = 0
  /\ reported = [a \in Addrs |-> 0]
  /\ crossed = FALSE
  /\ disorder = {} /\ faults = {}

Running == faults = {}

(* libuv handles readiness, or has nothing to do.                          *)
Polling == Running /\ running = << >>

-----------------------------------------------------------------------------
(* A peer that has reset its connection may reuse its port at once.        *)
Reset(c) ==
  /\ Running
  /\ tcp[c] = "open"
  /\ ~peerGone[c]
  /\ peerGone' = [peerGone EXCEPT ![c] = TRUE]
  /\ UNCHANGED <<ws, clientMap, peer, selfkey, object, tcp, wsConnected, loop, other,
                 closes, reported, crossed, disorder, faults>>

(* on_connection_cb, createNewClient and connectServer.  The key is made   *)
(* of the peer's address, or, when uv_tcp_getpeername fails because the    *)
(* peer is gone already, of what the local IPAddr happens to hold; insert  *)
(* leaves an entry with that key as it is.                                 *)
CreateNewClient(c, a, key) ==
  /\ Polling
  /\ object[c] = "unused"
  /\ \A d \in Conns : d < c => object[d] # "unused"
  /\ \A d \in Conns : tcp[d] = "open" /\ peer[d] = a => peerGone[d]
  /\ \E gone \in BOOLEAN :
       /\ key = a \/ gone
       /\ peerGone' = [peerGone EXCEPT ![c] = gone]
  /\ peer'    = [peer EXCEPT ![c] = a]
  /\ selfkey' = [selfkey EXCEPT ![c] = key]
  /\ object'  = [object EXCEPT ![c] = "alive"]
  /\ tcp'     = [tcp EXCEPT ![c] = "open"]
  /\ clientMap' = IF clientMap[key] = None THEN [clientMap EXCEPT ![key] = c] ELSE clientMap
  /\ disorder' = IF clientMap[key] = None THEN disorder ELSE disorder \cup {"same_key"}
  /\ UNCHANGED <<ws, wsConnected, loop, other, closes, reported, crossed, faults>>

(* Mutant: the entry stays in the table.                                   *)
OnClosedKeepsEntry(key, again) ==
  LET c == clientMap[key]
  IN  /\ object' = IF c = None THEN object ELSE [object EXCEPT ![c] = "deleted"]
      /\ faults' = IF c # None /\ tcp'[c] \in {"open", "closing"}
                   THEN faults \cup {"handle_deleted"} ELSE faults
      /\ reported' = [reported EXCEPT ![key] = @ + 1]
      /\ disorder' = disorder \cup (IF again THEN {"closed_again"} ELSE {})
      /\ UNCHANGED clientMap

(* TcpSocketServer::onClosed of a key: removeClient deletes whatever the   *)
(* table has under it, and the user is told.  again is whether close       *)
(* called it directly.                                                     *)
OnClosed(key, again) ==
  LET c == clientMap[key]
  IN  /\ clientMap' = [clientMap EXCEPT ![key] = None]
      /\ object' = IF c = None THEN object ELSE [object EXCEPT ![c] = "deleted"]
      /\ faults' = IF c # None /\ tcp'[c] \in {"open", "closing"}
                   THEN faults \cup {"handle_deleted"} ELSE faults
      /\ reported' = [reported EXCEPT ![key] = @ + 1]
      /\ disorder' =
           (IF c # None /\ (worker.conn = c \/ \E p \in ToSet(posted) : p.conn = c)
            THEN {"send_overtaken"} ELSE {})
           \cup (IF worker.pc = "found" /\ worker.key = key THEN {"send_overtaken"} ELSE {})
           \cup (IF again THEN {"closed_again"} ELSE {})
           \cup disorder

(* TcpSocketConn::close                                                    *)
CloseConn(c) ==
  /\ wsConnected' = [wsConnected EXCEPT ![c] = FALSE]
  /\ \/ /\ tcp[c] = "open"
        /\ tcp' = [tcp EXCEPT ![c] = "closing"]
        /\ closing' = <<c>> \o closing
        /\ UNCHANGED <<clientMap, object, faults, reported, disorder>>
     \/ /\ tcp[c] # "open"
        /\ UNCHANGED <<tcp, closing>>
        /\ OnClosed(selfkey[c], TRUE)

(* Mutant: the end of a WebSocket's connection is ignored.                 *)
OnMessageErrorIgnored(c) ==
  /\ Polling
  /\ tcp[c] = "open" /\ peerGone[c]
  /\ ~wsConnected[c]
  /\ CloseConn(c)
  /\ UNCHANGED <<ws, peer, selfkey, peerGone, running, other, closes, crossed>>

(* onMessage with an error or the end of the stream.                       *)
OnMessageError(c) ==
  /\ Polling
  /\ tcp[c] = "open" /\ peerGone[c]
  /\ CloseConn(c)
  /\ UNCHANGED <<ws, peer, selfkey, peerGone, running, other, closes, crossed>>

(* onMessage of a WebSocket's close frame: answered, and closed.           *)
OnMessageClose(c) ==
  /\ Polling
  /\ tcp[c] = "open" /\ wsConnected[c]
  /\ CloseConn(c)
  /\ UNCHANGED <<ws, peer, selfkey, peerGone, running, other, closes, crossed>>

(* onMessage of a WebSocket's handshake that is whole and right.           *)
OnMessageHandshake(c) ==
  /\ Polling
  /\ ws
  /\ tcp[c] = "open" /\ ~wsConnected[c]
  /\ wsConnected' = [wsConnected EXCEPT ![c] = TRUE]
  /\ UNCHANGED <<ws, clientMap, peer, selfkey, object, tcp, peerGone, loop, other,
                 closes, reported, crossed, disorder, faults>>

(* onMessage with data: the user's callback gets the key and answers with  *)
(* sendData(key, ...), which finds a connection in the table.              *)
OnMessageData(c) ==
  /\ Polling
  /\ tcp[c] = "open"
  /\ ws => wsConnected[c]
  /\ crossed' = (crossed \/ clientMap[selfkey[c]] # c)
  /\ UNCHANGED <<clientMap, conn, object, tcp, loop, other, closes, reported, disorder, faults>>

(* TcpSocketServer::close, called by the user on the loop's thread, from a *)
(* callback of any connection.                                             *)
CloseKey(key) ==
  /\ Running
  /\ closes < MaxCloses
  /\ clientMap[key] # None
  /\ closes' = closes + 1
  /\ CloseConn(clientMap[key])
  /\ UNCHANGED <<ws, peer, selfkey, peerGone, running, other, crossed>>

(* The end of the poll phase: the list of closed handles is detached.      *)
EndPoll ==
  /\ Polling
  /\ closing # << >>
  /\ running' = closing
  /\ closing' = << >>
  /\ UNCHANGED <<clientMap, conn, object, tcp, other, closes, reported, crossed, disorder, faults>>

(* The callback of uv_close: onConnClosed.                                 *)
OnConnClosed ==
  /\ Running
  /\ running # << >>
  /\ running' = Tail(running)
  /\ tcp' = [tcp EXCEPT ![Head(running)] = "closed"]
  /\ OnClosed(selfkey[Head(running)], FALSE)
  /\ UNCHANGED <<conn, closing, other, closes, crossed>>

-----------------------------------------------------------------------------
(* sendData(key, ...) on another thread: the lookup,                       *)
WorkerFind(key) ==
  /\ Running
  /\ worker.pc = "idle"
  /\ sends < MaxSends
  /\ clientMap[key] # None
  /\ sends' = sends + 1
  /\ worker' = [pc |-> "found", key |-> key, conn |-> None]
  /\ UNCHANGED <<clientMap, conn, object, tcp, loop, posted, closes, reported,
                 crossed, disorder, faults>>

(* the second lookup, which makes an empty entry when the first one's is   *)
(* gone,                                                                   *)
WorkerCall ==
  /\ Running
  /\ worker.pc = "found"
  /\ IF clientMap[worker.key] = None
     THEN faults' = faults \cup {"null_conn"} /\ worker' = Idle
     ELSE worker' = [worker EXCEPT !.pc = "in_conn", !.conn = clientMap[worker.key]]
          /\ UNCHANGED faults
  /\ UNCHANGED <<clientMap, conn, object, tcp, loop, posted, sends, closes, reported,
                 crossed, disorder>>

(* and TcpSocketConn::sendData: a WebSocket's frame is a copy, other data  *)
(* are posted as the caller's pointer.                                     *)
WorkerPost ==
  /\ Running
  /\ worker.pc = "in_conn"
  /\ worker' = Idle
  /\ IF object[worker.conn] = "deleted"
     THEN faults' = faults \cup {"conn_deleted"} /\ UNCHANGED posted
     ELSE posted' = Append(posted, [conn |-> worker.conn, valid |-> TRUE,
                                    copied |-> wsConnected[worker.conn]])
          /\ UNCHANGED faults
  /\ UNCHANGED <<clientMap, conn, object, tcp, loop, sends, closes, reported, crossed, disorder>>

(* The caller takes its buffer back: sendData has returned.                *)
WorkerReuse ==
  /\ Running
  /\ \E i \in DOMAIN posted :
       /\ posted[i].valid
       /\ posted' = [posted EXCEPT ![i].valid = FALSE]
       /\ disorder' = IF posted[i].copied THEN disorder ELSE disorder \cup {"buffer_reused"}
  /\ UNCHANGED <<clientMap, conn, object, tcp, loop, worker, sends, closes, reported,
                 crossed, faults>>

(* The posted callback, in the poll phase: writeData on the connection.    *)
RunPosted ==
  /\ Polling
  /\ posted # << >>
  /\ posted' = Tail(posted)
  /\ faults' = faults
       \cup (IF object[Head(posted).conn] = "deleted" THEN {"conn_deleted"} ELSE {})
       \cup (IF Head(posted).valid \/ Head(posted).copied THEN {} ELSE {"buffer_gone"})
  /\ UNCHANGED <<clientMap, conn, object, tcp, loop, worker, sends, closes, reported,
                 crossed, disorder>>

Next ==
  \/ \E c \in Conns :
       \/ Reset(c)
       \/ \E a, key \in Addrs : CreateNewClient(c, a, key)
       \/ OnMessageError(c) \/ OnMessageClose(c)
       \/ OnMessageHandshake(c) \/ OnMessageData(c)
  \/ \E key \in Addrs : CloseKey(key) \/ WorkerFind(key)
  \/ EndPoll \/ OnConnClosed
  \/ WorkerCall \/ WorkerPost \/ WorkerReuse \/ RunPosted

(* libuv reports what is ready and runs what it has closed.                *)
Fairness ==
  /\ \A c \in Conns : WF_vars(OnMessageError(c))
  /\ WF_vars(EndPoll) /\ WF_vars(OnConnClosed)

Spec == Init /\ [][Next]_vars /\ Fairness

-----------------------------------------------------------------------------
(* What has to go before each fault.                                       *)
Causes(f) ==
  CASE f = "handle_deleted" -> {"same_key", "closed_again"}
    [] f = "null_conn"      -> {"send_overtaken"}
    [] f = "conn_deleted"   -> {"send_overtaken"}
    [] f = "buffer_gone"    -> {"buffer_reused"}

(* A connection is used after its deletion, or deleted under libuv's hands,*)
(* only after two connections had one key, one was closed twice, or a send *)
(* of the other thread was overtaken by the close (createNewClient,        *)
(* removeClient, close, sendData).                                         *)
FaultsExplained == \A f \in faults : disorder \cap Causes(f) # {}

(* As long as no two connections had one key, the table is exactly the     *)
(* connections whose close has not been reported.                          *)
TableIsExact ==
  "same_key" \notin disorder /\ faults = {} =>
    \A c \in Conns :
      /\ object[c] = "alive" <=> (object[c] # "unused" /\ clientMap[selfkey[c]] = c)
      /\ tcp[c] = "closed" => object[c] = "deleted"

(* Then, too, the answer to what a connection sent goes to that connection.*)
AnswersReachSender == crossed => "same_key" \in disorder

(* The user hears of each close once: as often as connections with that    *)
(* key have been closed.                                                   *)
ClosedOf(key) == {c \in Conns : tcp[c] = "closed" /\ selfkey[c] = key}

CloseReportedOnce ==
  "closed_again" \notin disorder /\ faults = {} =>
    \A key \in Addrs : reported[key] = Cardinality(ClosedOf(key))

(* A connection whose peer is gone is deleted some time, by the loop's     *)
(* steps alone, unless its key was taken.                                  *)
GoneIsDeleted ==
  \A c \in Conns :
    (object[c] = "alive" /\ peerGone[c]) ~> (object[c] = "deleted" \/ disorder # {})

-----------------------------------------------------------------------------
(* What the safety properties rest on, inductive.                          *)

(* libuv has each handle that is closing in one of its lists, once.        *)
Once(list) == \A i, j \in DOMAIN list : list[i] = list[j] => i = j

HandlesInv ==
  /\ Once(closing) /\ Once(running)
  /\ \A i \in DOMAIN closing : tcp[closing[i]] = "closing"
  /\ \A i \in DOMAIN running : tcp[running[i]] = "closing"
  /\ \A i \in DOMAIN closing, j \in DOMAIN running : closing[i] # running[j]

(* What the table has is alive and knows its key; an object goes before    *)
(* its handle only by a fault; a connection that is not in the table lost  *)
(* its place to another with its key.                                      *)
TableInv ==
  /\ \A key \in Addrs : clientMap[key] # None =>
       object[clientMap[key]] = "alive" /\ selfkey[clientMap[key]] = key
  /\ \A c \in Conns :
       /\ object[c] = "unused" <=> tcp[c] = "none"
       /\ object[c] = "deleted" /\ faults = {} => tcp[c] = "closed"
       /\ "same_key" \notin disorder =>
            /\ object[c] = "alive" => clientMap[selfkey[c]] = c
            /\ tcp[c] = "closed" => object[c] = "deleted"

(* The other thread has found what is still there, unless it is overtaken. *)
WorkerInv ==
  /\ worker.conn # None <=> worker.pc = "in_conn"
  /\ "send_overtaken" \notin disorder =>
       /\ worker.pc = "found" => clientMap[worker.key] # None
       /\ worker.pc = "in_conn" => object[worker.conn] # "deleted"
       /\ \A i \in DOMAIN posted : object[posted[i].conn] # "deleted"
  /\ \A i \in DOMAIN posted :
       posted[i].valid \/ posted[i].copied \/ "buffer_reused" \in disorder

(* A report too many is one of close's.                                    *)
ReportInv ==
  \A key \in Addrs :
    /\ reported[key] >= Cardinality(ClosedOf(key))
    /\ reported[key] <= Cardinality(ClosedOf(key)) + closes
    /\ "closed_again" \notin disorder => reported[key] = Cardinality(ClosedOf(key))

ServerInv ==
  /\ TypeOK /\ HandlesInv /\ TableInv /\ WorkerInv /\ ReportInv
  /\ FaultsExplained /\ AnswersReachSender
=============================================================================
