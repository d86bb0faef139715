---------------------------- MODULE DtlsHandshake ----------------------------
(***************************************************************************)
(* DtlsClient and DtlsServer (net/ssl/Dtls.cc) over UDP, which loses,      *)
(* delays, reorders and repeats datagrams.  send_bio_data puts a whole     *)
(* flight of OpenSSL's into one datagram.  OpenSSL is external: it has a   *)
(* retransmission timer, which it only looks at when it is called, and     *)
(* drops what it has had.  Calling it is the client's arqTimer_; the       *)
(* server has none and repeats a flight only when something arrives.       *)
(*                                                                         *)
(* Time is counted in units of the first arqTimeout_ (100 ms) and passes   *)
(* while arqTimer_ runs.  A behaviour ends at its first undefined          *)
(* behaviour, named in faults.                                             *)
(***************************************************************************)
EXTENDS Integers, Sequences

CONSTANTS
  DtlsStart,     (* OpenSSL's first timeout, 1 s, and                      *)
  DtlsMost,      (* its longest, 60 s.                                     *)
  Retries,       (* What retryTime is compared with: 10.                   *)
  MaxLost,       (* Datagrams lost.  Bounds the model.                     *)
  MaxRepeated,   (* Datagrams repeated.  Bounds the model.                 *)
  MaxWrites      (* writeData of the server's owner.  Bounds the model.    *)

TimesAssumption == DtlsStart \in Nat \ {0} /\ DtlsMost \in Nat /\ DtlsStart <= DtlsMost
BoundsAssumption == {Retries, MaxLost, MaxRepeated, MaxWrites} \subseteq Nat

VARIABLES
  dtlsStatus_, dtlsConnect_,   (* Of the client.                           *)
  retryTime, arqTimeout_,
  arqTimer_,     (* Its state and, when "active", what is due.             *)
  ssl,           (* The client's OpenSSL: its stage, and what is left of   *)
                 (* its timer and of how much.                             *)
  server,        (* The server's OpenSSL: "wait1", "wait5", "done".        *)
  wbio_,         (* The flights the server's write BIO has kept.           *)
  net,           (* Per end: datagrams, sets of flights, on their way.     *)
  told,          (* What onStopNegotiation told the client's owner.        *)
  deleted,       (* He has deleted the client.                             *)
  lost, repeated, writes,
  faults

arq == <<retryTime, arqTimeout_, arqTimer_>>
client == <<dtlsStatus_, dtlsConnect_, ssl, told, deleted>>
counts == <<lost, repeated, writes>>
vars == <<arq, client, server, wbio_, net, counts, faults>>

Ends == {"client", "server"}

(* The flights of a handshake: 1, 5 are the client's, 4, 6 the server's.   *)
Flight == [wait4 |-> "f1", wait6 |-> "f5"]

Init ==
  /\ dtlsStatus_ = "Init" /\ dtlsConnect_ = FALSE
  /\ retryTime = 0 /\ arqTimeout_ = 1
  /\ arqTimer_ = [state |-> "stopped", due |-> 0]
  /\ ssl = [stage |-> "new", left |-> 0, of |-> 0]
  /\ server = "wait1" /\ wbio_ = {}
  /\ net = [e \in Ends |-> {}]
  /\ told = << >> /\ deleted = FALSE
  /\ lost = 0 /\ repeated = 0 /\ writes = 0
  /\ faults = {}

Alive == ~deleted /\ faults = {}

-----------------------------------------------------------------------------
(* The datagram m reaches e, or reaches it and is on its way again; what   *)
(* it makes e send, if anything, is on its way.                            *)
Receive(e, m, out) ==
  /\ m \in net[e]
  /\ \E again \in {0, 1} :
       /\ repeated + again <= MaxRepeated
       /\ repeated' = repeated + again
       /\ net' = [x \in Ends |-> IF x = e THEN net[e] \ (IF again = 1 THEN {} ELSE {m})
                                 ELSE net[x] \cup (IF out = {} THEN {} ELSE {out})]
  /\ UNCHANGED <<lost, writes>>

Send(e, out) ==
  /\ net' = [net EXCEPT ![e] = @ \cup {out}]
  /\ UNCHANGED counts

Lose(e, m) ==
  /\ m \in net[e] /\ lost < MaxLost
  /\ net' = [net EXCEPT ![e] = @ \ {m}]
  /\ lost' = lost + 1
  /\ UNCHANGED <<arq, client, server, wbio_, repeated, writes, faults>>

-----------------------------------------------------------------------------
(* uv_timer_start on a handle that is closing fails, unnoticed.            *)
Started(timer, timeout) ==
  IF timer.state \in {"closing", "closed"} THEN timer
  ELSE [state |-> "active", due |-> timeout]

(* stopNegotiation; libuv asserts that a handle is closed once.            *)
StopNegotiation ==
  IF arqTimer_.state \in {"closing", "closed"}
  THEN faults' = {"closed_twice"} /\ UNCHANGED arqTimer_
  ELSE arqTimer_' = [state |-> "closing", due |-> 0] /\ UNCHANGED faults

(* OpenSSL's timer once it has expired, and after a new flight.            *)
Doubled(s) ==
  LET longer == IF 2 * s.of > DtlsMost THEN DtlsMost ELSE 2 * s.of
  IN  [s EXCEPT !.left = longer, !.of = longer]

NewFlight(stage) == [stage |-> stage, left |-> DtlsStart, of |-> DtlsStart]

StartHandShake ==
  /\ Alive /\ dtlsStatus_ = "Init"
  /\ dtlsStatus_' = "ClientHello"
  /\ ssl' = NewFlight("wait4")
  /\ Send("server", {"f1"})
  /\ arqTimer_' = Started(arqTimer_, arqTimeout_)
  /\ UNCHANGED <<retryTime, arqTimeout_, dtlsConnect_, told, deleted, server, wbio_,
                 faults>>

(* DtlsClient::onMessage while SSL_do_handshake wants more: it has read    *)
(* flight 4, or dropped m and perhaps found its timer expired.             *)
HandshakeGoesOn(m) ==
  /\ Alive /\ ~dtlsConnect_
  /\ ~(ssl.stage = "wait6" /\ "f6" \in m)
  /\ IF ssl.stage = "wait4" /\ "f4" \in m
     THEN ssl' = NewFlight("wait6") /\ Receive("client", m, {"f5"})
     ELSE IF ssl.left = 0
          THEN ssl' = Doubled(ssl) /\ Receive("client", m, {Flight[ssl.stage]})
          ELSE UNCHANGED ssl /\ Receive("client", m, {})
  /\ dtlsStatus_' = IF dtlsStatus_ = "ClientHello" THEN "ClientCertificate" ELSE dtlsStatus_
  /\ arqTimer_' = Started(arqTimer_, arqTimeout_)
  /\ UNCHANGED <<retryTime, arqTimeout_, dtlsConnect_, told, deleted, server, wbio_,
                 faults>>

(* DtlsClient::onMessage with the flight that completes the handshake.     *)
HandshakeCompletes(m) ==
  /\ Alive /\ ~dtlsConnect_
  /\ ssl.stage = "wait6" /\ "f6" \in m
  /\ Receive("client", m, {})
  /\ ssl' = [ssl EXCEPT !.stage = "done"]
  /\ dtlsConnect_' = TRUE
  /\ dtlsStatus_' = "ClientDone"
  /\ StopNegotiation
  /\ UNCHANGED <<retryTime, arqTimeout_, told, deleted, server, wbio_>>

(* DtlsClient::onMessage once connected: OpenSSL drops late flights.       *)
ClientReads(m) ==
  /\ Alive /\ dtlsConnect_
  /\ Receive("client", m, {})
  /\ UNCHANGED <<arq, client, server, wbio_, faults>>

(* Mutant: a timer that had nothing to do is not started again.            *)
RestartWhenResent(timeout) ==
  IF ssl.left = 0 THEN Started([state |-> "stopped", due |-> 0], timeout)
  ELSE [state |-> "stopped", due |-> 0]

GivesUp == retryTime >= Retries
Restart(timeout) == Started([state |-> "stopped", due |-> 0], timeout)

(* startRetransmitTimer.  Between two flights OpenSSL's timer always runs, *)
(* so DTLSv1_get_timeout does not fail.                                    *)
OnTimer ==
  /\ Alive
  /\ arqTimer_.state = "active" /\ arqTimer_.due = 0
  /\ \/ /\ GivesUp
        /\ StopNegotiation
        /\ retryTime' = 0
        /\ UNCHANGED <<arqTimeout_, ssl, net, counts>>
     \/ /\ ~GivesUp /\ ssl.left = 0
        /\ ssl' = Doubled(ssl)
        /\ Send("server", {Flight[ssl.stage]})
        /\ arqTimer_' = Restart(arqTimeout_)
        /\ retryTime' = retryTime + 1
        /\ UNCHANGED <<arqTimeout_, faults>>
     \/ /\ ~GivesUp /\ ssl.left > 0
        /\ arqTimeout_' = ssl.left
        /\ arqTimer_' = Restart(ssl.left)
        /\ retryTime' = retryTime + 1
        /\ UNCHANGED <<ssl, net, counts, faults>>
  /\ UNCHANGED <<dtlsStatus_, dtlsConnect_, told, deleted, server, wbio_>>

(* The close callback of arqTimer_, which calls onStopNegotiation.         *)
OnStopNegotiation ==
  /\ Alive /\ arqTimer_.state = "closing"
  /\ arqTimer_' = [arqTimer_ EXCEPT !.state = "closed"]
  /\ told' = Append(told, IF dtlsStatus_ = "ClientDone" THEN "done" ELSE "timeout")
  /\ UNCHANGED <<retryTime, arqTimeout_, dtlsStatus_, dtlsConnect_, ssl, deleted, server, wbio_,
                 net, counts, faults>>

(* ~DtlsClient deletes the timer as it is; the loop still knows one that   *)
(* is not closed.                                                          *)
Delete ==
  /\ Alive
  /\ deleted' = TRUE
  /\ faults' = IF arqTimer_.state = "closed" THEN {} ELSE {"timer_in_loop"}
  /\ UNCHANGED <<arq, dtlsStatus_, dtlsConnect_, ssl, told, server, wbio_, net, counts>>

Tick ==
  /\ Alive
  /\ arqTimer_.state = "active" /\ arqTimer_.due > 0
  /\ arqTimer_' = [arqTimer_ EXCEPT !.due = @ - 1]
  /\ ssl' = [ssl EXCEPT !.left = IF @ = 0 THEN 0 ELSE @ - 1]
  /\ UNCHANGED <<retryTime, arqTimeout_, dtlsStatus_, dtlsConnect_, told, deleted, server, wbio_,
                 net, counts, faults>>

-----------------------------------------------------------------------------

(* DtlsServer::onMessage in the handshake.  A repeated flight 1 is dropped,*)
(* but may find OpenSSL's timer expired.                                   *)
ServerHandshake(m) ==
  \/ "f5" \in m /\ server' = "done" /\ Receive("server", m, {"f6"})
  \/ "f1" \in m /\ server = "wait1" /\ server' = "wait5" /\ Receive("server", m, {"f4"})
  \/ /\ "f1" \in m /\ server = "wait5" /\ UNCHANGED server
     /\ Receive("server", m, {"f4"}) \/ Receive("server", m, {})

OnServerMessage(m) ==
  /\ faults = {} /\ server # "done"
  /\ ServerHandshake(m)
  /\ UNCHANGED <<arq, client, wbio_, faults>>

(* DtlsServer::onMessage once connected: a repeated flight 5 makes OpenSSL *)
(* write flight 6 again, and SSL_read then wants to read: nothing is sent. *)
ServerReads(m) ==
  /\ faults = {} /\ server = "done"
  /\ Receive("server", m, {})
  /\ wbio_' = wbio_ \cup (IF "f5" \in m THEN {"f6"} ELSE {})
  /\ UNCHANGED <<arq, client, server, faults>>

(* DtlsBase::writeData of the server sends all the write BIO has.          *)
ServerWrites ==
  /\ faults = {} /\ server = "done" /\ writes < MaxWrites
  /\ net' = [net EXCEPT !["client"] = @ \cup {wbio_ \cup {"app"}}]
  /\ wbio_' = {}
  /\ writes' = writes + 1
  /\ UNCHANGED <<arq, client, server, lost, repeated, faults>>

Next ==
  \/ StartHandShake
  \/ \E m \in net["client"] : HandshakeGoesOn(m) \/ HandshakeCompletes(m) \/ ClientReads(m)
  \/ OnTimer \/ OnStopNegotiation \/ Delete \/ Tick
  \/ \E m \in net["server"] : OnServerMessage(m) \/ ServerReads(m)
  \/ ServerWrites
  \/ \E e \in Ends : \E m \in net[e] : Lose(e, m)

(* Time passes and the loop runs timers and close callbacks.  The network  *)
(* owes nothing.                                                           *)
Fairness == WF_vars(Tick) /\ WF_vars(OnTimer) /\ WF_vars(OnStopNegotiation)

Spec == Init /\ [][Next]_vars /\ Fairness

-----------------------------------------------------------------------------
SrtpKey(e) == IF e = "client" THEN [send |-> "client", recv |-> "server"]
              ELSE [send |-> "server", recv |-> "client"]

Running == dtlsStatus_ \in {"ClientHello", "ClientCertificate"}

(* What the fields hold; retryTime never passes its limit.                 *)
TypeOK ==
  /\ dtlsStatus_ \in {"Init", "ClientHello", "ClientCertificate", "ClientDone"}
  /\ dtlsConnect_ = (dtlsStatus_ = "ClientDone")
  /\ retryTime \in 0 .. Retries /\ arqTimeout_ \in 1 .. DtlsMost
  /\ arqTimer_.state \in {"stopped", "active", "closing", "closed"}
  /\ arqTimer_.due \in 0 .. DtlsMost /\ ssl.left \in 0 .. ssl.of
  /\ server \in {"wait1", "wait5", "done"} /\ wbio_ \subseteq {"f6"}
  /\ Len(told) <= 1

(* A client that is told that it is done has a server that is connected,   *)
(* and each end sends with the key the other receives with (onMessage of   *)
(* both, onStopNegotiation, getSrtpKey), whatever was lost, late or twice. *)
EndsAgree ==
  told = <<"done">> =>
    /\ server = "done"
    /\ SrtpKey("client").send = SrtpKey("server").recv
    /\ SrtpKey("client").recv = SrtpKey("server").send

(* A handshake under way is never left without its timer, which is all     *)
(* that repeats a lost flight (startRetransmitTimer, onMessage), until the *)
(* client has given up.                                                    *)
NeverStalls == Running /\ faults = {} => arqTimer_.state # "stopped"

(* The client gives up only for a reason: a datagram was lost, is still on *)
(* its way, or came too late (startRetransmitTimer, onMessage of both).    *)
TimeoutHasCause ==
  told = <<"timeout">> =>
    lost > 0 \/ net["client"] # {} \/ net["server"] # {} \/ faults # {}

(* The timer is closed twice only by an answer that comes when the client  *)
(* has given up, and left in the loop only by an owner who does not wait   *)
(* for onStopNegotiation.                                                  *)
FaultsExplained ==
  /\ "closed_twice" \in faults => dtlsConnect_ /\ told # <<"done">>
  /\ "timer_in_loop" \in faults => told = << >>

(* A handshake that has begun ends: the client's owner is told, unless he  *)
(* deletes it or a late answer is its end.                                 *)
ClientIsTold == Running ~> told # << >> \/ deleted \/ faults # {}

-----------------------------------------------------------------------------
(* The inductive invariant of all of these, in parts.                      *)

DtlsTypes ==
  /\ dtlsStatus_ \in {"Init", "ClientHello", "ClientCertificate", "ClientDone"}
  /\ dtlsConnect_ \in BOOLEAN /\ deleted \in BOOLEAN
  /\ retryTime \in 0 .. Retries /\ arqTimeout_ \in 1 .. DtlsMost
  /\ arqTimer_ \in [state : {"stopped", "active", "closing", "closed"}, due : 0 .. DtlsMost]
  /\ ssl \in [stage : {"new", "wait4", "wait6", "done"}, left : 0 .. DtlsMost, of : 0 .. DtlsMost]
  /\ ssl.left <= ssl.of
  /\ server \in {"wait1", "wait5", "done"} /\ wbio_ \in SUBSET {"f6"}
  /\ net \in [Ends -> SUBSET SUBSET {"f1", "f4", "f5", "f6", "app"}]
  /\ lost \in Nat
  /\ faults \in {{}, {"closed_twice"}, {"timer_in_loop"}}

(* The code's status, OpenSSL's stage and the timer go together.           *)
StatusInv ==
  /\ dtlsConnect_ <=> dtlsStatus_ = "ClientDone"
  /\ ssl.stage = "done" <=> dtlsStatus_ = "ClientDone"
  /\ ssl.stage = "new" <=> dtlsStatus_ = "Init"
  /\ arqTimer_.state = "stopped" <=> dtlsStatus_ = "Init"
  /\ ssl.stage = "done" => arqTimer_.state \in {"closing", "closed"}

(* The owner is told by the timer's close callback, and of what there is.  *)
ToldInv ==
  /\ told \in {<< >>, <<"done">>, <<"timeout">>}
  /\ told # << >> <=> arqTimer_.state = "closed"
  /\ told = <<"done">> => ssl.stage = "done"
  /\ told = <<"timeout">> /\ faults = {} => ssl.stage # "done"
  /\ "closed_twice" \in faults => ssl.stage = "done" /\ told # <<"done">>
  /\ "timer_in_loop" \in faults => told = << >>

(* Who may have sent what is on its way.                                   *)
FlightsInv ==
  /\ net["server"] \subseteq {{"f1"}, {"f5"}}
  /\ net["client"] \subseteq {{"f4"}, {"f6"}, {"app"}, {"f6", "app"}}
  /\ ssl.stage = "new" => net["server"] = {} /\ server = "wait1"
  /\ {"f5"} \in net["server"] => ssl.stage \in {"wait6", "done"}
  /\ net["client"] # {} => server # "wait1"
  /\ \A m \in net["client"] : m # {"f4"} => server = "done"
  /\ wbio_ # {} => server = "done"
  /\ ssl.stage \in {"wait6", "done"} => server # "wait1"
  /\ server = "done" => ssl.stage \in {"wait6", "done"}
  /\ ssl.stage = "done" => server = "done"

(* While nothing is lost, the flight that takes the handshake on is on its *)
(* way to the end that waits for it.                                       *)
GoesOnInv ==
  lost = 0 =>
    /\ ssl.stage = "wait4" => \/ server = "wait1" /\ {"f1"} \in net["server"]
                              \/ server = "wait5" /\ {"f4"} \in net["client"]
    /\ ssl.stage = "wait6" => \/ server = "wait5" /\ {"f5"} \in net["server"]
                              \/ server = "done" /\ {"f6"} \in net["client"]

DtlsInv == DtlsTypes /\ StatusInv /\ ToldInv /\ FlightsInv /\ GoesOnInv
=============================================================================
