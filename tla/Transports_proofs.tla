------------------------- MODULE Transports_proofs -------------------------
(***************************************************************************)
(* Proofs about the systems of MCTransports, for any values of its         *)
(* constants: the handshake of DTLS, the life of a WebSocketClient, the    *)
(* handshake of RTMP and the upgrade to WebSocket; then, with the proofs   *)
(* about TLS and about the chunk sender, the types of all of them.         *)
(***************************************************************************)
EXTENDS Tls_proofs, ChunkSender_proofs

-----------------------------------------------------------------------------
(* DtlsHandshake *)

\* The bounds as numbers.
LEMMA DtlsBounds ==
    /\ DtlsStart \in Nat /\ DtlsMost \in Nat /\ 1 <= DtlsStart /\ DtlsStart <= DtlsMost
    /\ Retries \in Nat
BY SecurityAssumption DEF Dtls!TimesAssumption, Dtls!BoundsAssumption

Letters == {"f1", "f4", "f5", "f6", "app"}

\* What the two ends have before them once the client has received m.
LEMMA ClientReceives ==
    ASSUME Dtls!DtlsTypes, NEW m, NEW out \in SUBSET Letters, Dtls!Receive("client", m, out)
    PROVE  /\ m \in net["client"] /\ lost' = lost
           /\ net' \in [Dtls!Ends -> SUBSET SUBSET Letters]
           /\ net'["client"] \subseteq net["client"]
           /\ net["client"] \ {m} \subseteq net'["client"]
           /\ net'["server"] = net["server"] \cup (IF out = {} THEN {} ELSE {out})
<1>1. PICK again \in {0, 1} :
         net' = [x \in Dtls!Ends |->
                   IF x = "client" THEN net["client"] \ (IF again = 1 THEN {} ELSE {m})
                   ELSE net[x] \cup (IF out = {} THEN {} ELSE {out})]
  BY DEF Dtls!Receive
<1>2. m \in net["client"] /\ lost' = lost
  BY DEF Dtls!Receive
<1>3. net["client"] \in SUBSET SUBSET Letters /\ net["server"] \in SUBSET SUBSET Letters
  BY DEF Dtls!DtlsTypes, Dtls!Ends, Letters
<1>4. /\ net'["client"] = net["client"] \ (IF again = 1 THEN {} ELSE {m})
      /\ net'["server"] = net["server"] \cup (IF out = {} THEN {} ELSE {out})
  BY <1>1 DEF Dtls!Ends
<1>5. \A x \in Dtls!Ends : net'[x] \in SUBSET SUBSET Letters
  BY <1>3, <1>4 DEF Dtls!Ends
<1>6. net' \in [Dtls!Ends -> SUBSET SUBSET Letters]
  BY <1>1, <1>5
<1> QED  BY <1>2, <1>4, <1>6

\* The same when the server has.
LEMMA ServerReceives ==
    ASSUME Dtls!DtlsTypes, NEW m, NEW out \in SUBSET Letters, Dtls!Receive("server", m, out)
    PROVE  /\ m \in net["server"] /\ lost' = lost
           /\ net' \in [Dtls!Ends -> SUBSET SUBSET Letters]
           /\ net'["server"] \subseteq net["server"]
           /\ net["server"] \ {m} \subseteq net'["server"]
           /\ net'["client"] = net["client"] \cup (IF out = {} THEN {} ELSE {out})
<1>1. PICK again \in {0, 1} :
         net' = [x \in Dtls!Ends |->
                   IF x = "server" THEN net["server"] \ (IF again = 1 THEN {} ELSE {m})
                   ELSE net[x] \cup (IF out = {} THEN {} ELSE {out})]
  BY DEF Dtls!Receive
<1>2. m \in net["server"] /\ lost' = lost
  BY DEF Dtls!Receive
<1>3. net["client"] \in SUBSET SUBSET Letters /\ net["server"] \in SUBSET SUBSET Letters
  BY DEF Dtls!DtlsTypes, Dtls!Ends, Letters
<1>4. /\ net'["server"] = net["server"] \ (IF again = 1 THEN {} ELSE {m})
      /\ net'["client"] = net["client"] \cup (IF out = {} THEN {} ELSE {out})
  BY <1>1 DEF Dtls!Ends
<1>5. \A x \in Dtls!Ends : net'[x] \in SUBSET SUBSET Letters
  BY <1>3, <1>4 DEF Dtls!Ends
<1>6. net' \in [Dtls!Ends -> SUBSET SUBSET Letters]
  BY <1>1, <1>5
<1> QED  BY <1>2, <1>4, <1>6

\* The same when it answers nothing.
LEMMA ClientDrops ==
    ASSUME Dtls!DtlsTypes, NEW m, Dtls!Receive("client", m, {})
    PROVE  /\ m \in net["client"] /\ lost' = lost
           /\ net' \in [Dtls!Ends -> SUBSET SUBSET Letters]
           /\ net'["client"] \subseteq net["client"] /\ net'["server"] = net["server"]
<1>1. PICK again \in {0, 1} :
         net' = [x \in Dtls!Ends |->
                   IF x = "client" THEN net["client"] \ (IF again = 1 THEN {} ELSE {m})
                   ELSE net[x]]
  BY DEF Dtls!Receive
<1>2. m \in net["client"] /\ lost' = lost
  BY DEF Dtls!Receive
<1>3. net["client"] \in SUBSET SUBSET Letters /\ net["server"] \in SUBSET SUBSET Letters
  BY DEF Dtls!DtlsTypes, Dtls!Ends, Letters
<1>4. /\ net'["client"] = net["client"] \ (IF again = 1 THEN {} ELSE {m})
      /\ net'["server"] = net["server"]
  BY <1>1 DEF Dtls!Ends
<1>5. \A x \in Dtls!Ends : net'[x] \in SUBSET SUBSET Letters
  BY <1>3, <1>4 DEF Dtls!Ends
<1>6. net' \in [Dtls!Ends -> SUBSET SUBSET Letters]
  BY <1>1, <1>5
<1> QED  BY <1>2, <1>4, <1>6

\* The same when it answers nothing.
LEMMA ServerDrops ==
    ASSUME Dtls!DtlsTypes, NEW m, Dtls!Receive("server", m, {})
    PROVE  /\ m \in net["server"] /\ lost' = lost
           /\ net' \in [Dtls!Ends -> SUBSET SUBSET Letters]
           /\ net'["server"] \subseteq net["server"] /\ net'["client"] = net["client"]
<1>1. PICK again \in {0, 1} :
         net' = [x \in Dtls!Ends |->
                   IF x = "server" THEN net["server"] \ (IF again = 1 THEN {} ELSE {m})
                   ELSE net[x]]
  BY DEF Dtls!Receive
<1>2. m \in net["server"] /\ lost' = lost
  BY DEF Dtls!Receive
<1>3. net["client"] \in SUBSET SUBSET Letters /\ net["server"] \in SUBSET SUBSET Letters
  BY DEF Dtls!DtlsTypes, Dtls!Ends, Letters
<1>4. /\ net'["server"] = net["server"] \ (IF again = 1 THEN {} ELSE {m})
      /\ net'["client"] = net["client"]
  BY <1>1 DEF Dtls!Ends
<1>5. \A x \in Dtls!Ends : net'[x] \in SUBSET SUBSET Letters
  BY <1>3, <1>4 DEF Dtls!Ends
<1>6. net' \in [Dtls!Ends -> SUBSET SUBSET Letters]
  BY <1>1, <1>5
<1> QED  BY <1>2, <1>4, <1>6

\* A new flight, and a flight whose timer expired, keep OpenSSL's type.
LEMMA TimersAreNumbers ==
    ASSUME Dtls!DtlsTypes
    PROVE  /\ \A stage \in {"wait4", "wait6"} :
                /\ Dtls!NewFlight(stage) \in [stage : {"new", "wait4", "wait6", "done"},
                                              left : 0..DtlsMost, of : 0..DtlsMost]
                /\ Dtls!NewFlight(stage).stage = stage
                /\ Dtls!NewFlight(stage).left <= Dtls!NewFlight(stage).of
           /\ Dtls!Doubled(dSsl) \in [stage : {"new", "wait4", "wait6", "done"},
                                      left : 0..DtlsMost, of : 0..DtlsMost]
           /\ Dtls!Doubled(dSsl).stage = dSsl.stage
           /\ Dtls!Doubled(dSsl).left <= Dtls!Doubled(dSsl).of
<1>1. /\ dSsl \in [stage : {"new", "wait4", "wait6", "done"}, left : 0..DtlsMost, of : 0..DtlsMost]
      /\ DtlsStart \in 0..DtlsMost
  BY DtlsBounds DEF Dtls!DtlsTypes
<1> DEFINE longer == IF 2 * dSsl.of > DtlsMost THEN DtlsMost ELSE 2 * dSsl.of
<1>2. longer \in 0..DtlsMost
  BY <1>1, DtlsBounds
<1>3. Dtls!Doubled(dSsl) = [dSsl EXCEPT !.left = longer, !.of = longer]
  BY DEF Dtls!Doubled
<1> HIDE DEF longer
<1>4. Dtls!Doubled(dSsl) = [stage |-> dSsl.stage, left |-> longer, of |-> longer]
  BY <1>1, <1>3
<1> QED  BY <1>1, <1>2, <1>4, DtlsBounds DEF Dtls!NewFlight

\* What uv_timer_start leaves of a timer.
LEMMA StartedTimer ==
    ASSUME NEW t \in [state : {"stopped", "active", "closing", "closed"}, due : 0..DtlsMost],
           NEW d \in 0..DtlsMost
    PROVE  /\ Dtls!Started(t, d) \in
                [state : {"stopped", "active", "closing", "closed"}, due : 0..DtlsMost]
           /\ Dtls!Started(t, d).state # "stopped"
           /\ Dtls!Started(t, d).state = "closed" <=> t.state = "closed"
BY DEF Dtls!Started

\* Initially.
LEMMA DtlsInit == Dtls!Init => Dtls!DtlsInv
<1> SUFFICES ASSUME Dtls!Init PROVE Dtls!DtlsInv
  OBVIOUS
<1> USE DEF Dtls!Init
<1>1. Dtls!DtlsTypes
  <2>1. net \in [Dtls!Ends -> SUBSET SUBSET {"f1", "f4", "f5", "f6", "app"}]
    OBVIOUS
  <2>2. /\ arqTimer_ \in [state : {"stopped", "active", "closing", "closed"}, due : 0..DtlsMost]
        /\ dSsl \in [stage : {"new", "wait4", "wait6", "done"}, left : 0..DtlsMost, of : 0..DtlsMost]
        /\ dSsl.left <= dSsl.of
    BY DtlsBounds
  <2>3. retryTime \in 0..Retries /\ arqTimeout_ \in 1..DtlsMost /\ lost \in Nat
    BY DtlsBounds
  <2> QED  BY <2>1, <2>2, <2>3 DEF Dtls!DtlsTypes
<1>2. Dtls!StatusInv /\ Dtls!ToldInv
  BY DEF Dtls!StatusInv, Dtls!ToldInv
<1>3. Dtls!FlightsInv /\ Dtls!GoesOnInv
  BY DEF Dtls!FlightsInv, Dtls!GoesOnInv, Dtls!Ends
<1> QED  BY <1>1, <1>2, <1>3 DEF Dtls!DtlsInv

\* The handshake begins with flight 1 and the timer.
LEMMA StartHandShakeKeeps ==
    ASSUME Dtls!DtlsInv, Dtls!StartHandShake
    PROVE  Dtls!DtlsInv'
<1> USE DEF Dtls!DtlsInv
<1>1. /\ net' = [net EXCEPT !["server"] = @ \cup {{"f1"}}]
      /\ lost' = lost /\ repeated' = repeated /\ dWrites' = dWrites
  BY DEF Dtls!StartHandShake, Dtls!Send, Dtls!counts
<1>2. /\ net' \in [Dtls!Ends -> SUBSET SUBSET Letters]
      /\ net'["client"] = net["client"] /\ net'["server"] = net["server"] \cup {{"f1"}}
  BY <1>1 DEF Dtls!DtlsTypes, Dtls!Ends, Letters
<1>3. dSsl'.stage = "wait4" /\ Dtls!DtlsTypes'
  <2>1. /\ dSsl' = Dtls!NewFlight("wait4") /\ arqTimer_' = Dtls!Started(arqTimer_, arqTimeout_)
        /\ arqTimer_ \in [state : {"stopped", "active", "closing", "closed"}, due : 0..DtlsMost]
        /\ arqTimeout_ \in 0..DtlsMost
    BY DtlsBounds DEF Dtls!StartHandShake, Dtls!DtlsTypes
  <2>2. /\ dSsl' \in [stage : {"new", "wait4", "wait6", "done"}, left : 0..DtlsMost, of : 0..DtlsMost]
        /\ dSsl'.stage = "wait4" /\ dSsl'.left <= dSsl'.of
    BY <2>1, TimersAreNumbers
  <2>3. arqTimer_' \in [state : {"stopped", "active", "closing", "closed"}, due : 0..DtlsMost]
    BY <2>1, StartedTimer
  <2> QED  BY <1>1, <1>2, <2>2, <2>3 DEF Dtls!DtlsTypes, Dtls!StartHandShake, Letters
<1>4. arqTimer_'.state # "stopped" /\ (arqTimer_'.state = "closed" <=> arqTimer_.state = "closed")
  BY StartedTimer, DtlsBounds DEF Dtls!StartHandShake, Dtls!DtlsTypes
<1>5. Dtls!StatusInv'
  BY <1>3, <1>4 DEF Dtls!StartHandShake, Dtls!StatusInv
<1>6. Dtls!ToldInv'
  BY <1>3, <1>4 DEF Dtls!StartHandShake, Dtls!StatusInv, Dtls!ToldInv, Dtls!Alive
<1>7. Dtls!FlightsInv'
  BY <1>2, <1>3 DEF Dtls!StartHandShake, Dtls!StatusInv, Dtls!FlightsInv
<1>8. Dtls!GoesOnInv'
  BY <1>1, <1>2, <1>3 DEF Dtls!StartHandShake, Dtls!StatusInv, Dtls!FlightsInv, Dtls!GoesOnInv
<1> QED  BY <1>3, <1>5, <1>6, <1>7, <1>8

\* The client goes on with the handshake: what it sends follows its stage.
LEMMA HandshakeGoesOnKeeps ==
    ASSUME Dtls!DtlsInv, NEW m, Dtls!HandshakeGoesOn(m)
    PROVE  Dtls!DtlsInv'
<1> USE DEF Dtls!DtlsInv
<1>1. /\ Dtls!Alive /\ ~dtlsConnect_ /\ ~(dSsl.stage = "wait6" /\ "f6" \in m)
      /\ arqTimer_' = Dtls!Started(arqTimer_, arqTimeout_)
      /\ dtlsStatus_' = IF dtlsStatus_ = "ClientHello" THEN "ClientCertificate" ELSE dtlsStatus_
      /\ UNCHANGED <<retryTime, arqTimeout_, dtlsConnect_, dTold, deleted, dServer, wbio_, dFaults>>
  BY DEF Dtls!HandshakeGoesOn
<1>2. /\ arqTimer_' \in [state : {"stopped", "active", "closing", "closed"}, due : 0..DtlsMost]
      /\ arqTimer_'.state # "stopped" /\ (arqTimer_'.state = "closed" <=> arqTimer_.state = "closed")
  BY <1>1, StartedTimer, DtlsBounds DEF Dtls!DtlsTypes
<1>3. m \in net["client"] /\ dSsl.stage \in {"wait4", "wait6"} /\ dServer # "wait1"
  <2>1. m \in net["client"]
    BY DEF Dtls!HandshakeGoesOn, Dtls!Receive
  <2> QED  BY <1>1, <2>1 DEF Dtls!StatusInv, Dtls!FlightsInv, Dtls!DtlsTypes
\* What the client sends, if anything, and the stage it is in then.
<1>4. \E out \in {{}, {"f1"}, {"f5"}} :
        /\ Dtls!Receive("client", m, out)
        /\ dSsl' = dSsl \/ dSsl' = Dtls!Doubled(dSsl) \/ dSsl' = Dtls!NewFlight("wait6")
        /\ dSsl'.stage \in {"wait4", "wait6"}
        /\ dSsl.stage = "wait6" => dSsl'.stage = "wait6"
        /\ out = {"f5"} => dSsl'.stage = "wait6"
        /\ dSsl.stage = "wait4" /\ dSsl'.stage = "wait6" => out = {"f5"} /\ "f4" \in m
        /\ dSsl'.stage = "wait4" => "f4" \notin m
  <2>1. CASE dSsl.stage = "wait4" /\ "f4" \in m
    BY <2>1, TimersAreNumbers DEF Dtls!HandshakeGoesOn
  <2>2. CASE ~(dSsl.stage = "wait4" /\ "f4" \in m) /\ dSsl.left = 0
    BY <1>3, <2>2, TimersAreNumbers DEF Dtls!HandshakeGoesOn, Dtls!Flight
  <2>3. CASE ~(dSsl.stage = "wait4" /\ "f4" \in m) /\ dSsl.left # 0
    BY <1>3, <2>3 DEF Dtls!HandshakeGoesOn
  <2> QED  BY <2>1, <2>2, <2>3
<1>5. PICK out \in {{}, {"f1"}, {"f5"}} :
        /\ Dtls!Receive("client", m, out)
        /\ dSsl' = dSsl \/ dSsl' = Dtls!Doubled(dSsl) \/ dSsl' = Dtls!NewFlight("wait6")
        /\ dSsl'.stage \in {"wait4", "wait6"}
        /\ dSsl.stage = "wait6" => dSsl'.stage = "wait6"
        /\ out = {"f5"} => dSsl'.stage = "wait6"
        /\ dSsl.stage = "wait4" /\ dSsl'.stage = "wait6" => out = {"f5"} /\ "f4" \in m
        /\ dSsl'.stage = "wait4" => "f4" \notin m
  BY <1>4
<1>6. /\ net' \in [Dtls!Ends -> SUBSET SUBSET Letters] /\ lost' = lost
      /\ net'["client"] \subseteq net["client"]
      /\ net["client"] \ {m} \subseteq net'["client"]
      /\ net'["server"] = net["server"] \cup (IF out = {} THEN {} ELSE {out})
  BY <1>5, ClientReceives DEF Letters
<1>7. /\ dSsl' \in [stage : {"new", "wait4", "wait6", "done"}, left : 0..DtlsMost, of : 0..DtlsMost]
      /\ dSsl'.left <= dSsl'.of
  BY <1>5, TimersAreNumbers DEF Dtls!DtlsTypes
<1>8. Dtls!DtlsTypes'
  BY <1>1, <1>2, <1>6, <1>7 DEF Dtls!DtlsTypes, Letters
<1>9. Dtls!StatusInv'
  BY <1>1, <1>2, <1>3, <1>5 DEF Dtls!StatusInv, Dtls!DtlsTypes
<1>10. Dtls!ToldInv'
  BY <1>1, <1>2, <1>3, <1>5 DEF Dtls!ToldInv, Dtls!Alive
<1>11. Dtls!FlightsInv'
  BY <1>1, <1>3, <1>5, <1>6 DEF Dtls!FlightsInv
<1>12. Dtls!GoesOnInv'
  <2> SUFFICES ASSUME lost' = 0 PROVE Dtls!GoesOnInv'
    BY DEF Dtls!GoesOnInv
  <2>1. CASE dSsl'.stage = "wait4"
    BY <1>1, <1>3, <1>5, <1>6, <2>1 DEF Dtls!GoesOnInv
  <2>2. CASE dSsl.stage = "wait6"
    BY <1>1, <1>3, <1>5, <1>6, <2>2 DEF Dtls!GoesOnInv
  <2>3. CASE dSsl.stage = "wait4" /\ dSsl'.stage = "wait6"
    BY <1>1, <1>3, <1>5, <1>6, <2>3 DEF Dtls!GoesOnInv, Dtls!FlightsInv
  <2> QED  BY <1>3, <1>5, <2>1, <2>2, <2>3
<1> QED  BY <1>8, <1>9, <1>10, <1>11, <1>12

\* stopNegotiation closes the timer, or finds that it is closed.
LEMMA StopsTimer ==
    ASSUME Dtls!DtlsTypes, dFaults = {}, Dtls!StopNegotiation
    PROVE  \/ /\ arqTimer_.state \in {"closing", "closed"}
              /\ dFaults' = {"closed_twice"} /\ arqTimer_' = arqTimer_
           \/ /\ arqTimer_.state \notin {"closing", "closed"}
              /\ dFaults' = {} /\ arqTimer_' = [state |-> "closing", due |-> 0]
BY DEF Dtls!StopNegotiation

\* The client is done, and so is the server that sent flight 6.
LEMMA HandshakeCompletesKeeps ==
    ASSUME Dtls!DtlsInv, NEW m, Dtls!HandshakeCompletes(m)
    PROVE  Dtls!DtlsInv'
<1> USE DEF Dtls!DtlsInv
<1>1. /\ Dtls!Alive /\ ~dtlsConnect_ /\ dSsl.stage = "wait6" /\ "f6" \in m
      /\ dtlsConnect_' /\ dtlsStatus_' = "ClientDone" /\ Dtls!StopNegotiation
      /\ dSsl' = [dSsl EXCEPT !.stage = "done"] /\ Dtls!Receive("client", m, {})
      /\ UNCHANGED <<retryTime, arqTimeout_, dTold, deleted, dServer, wbio_>>
  BY DEF Dtls!HandshakeCompletes
<1>2. /\ dSsl' \in [stage : {"new", "wait4", "wait6", "done"}, left : 0..DtlsMost, of : 0..DtlsMost]
      /\ dSsl'.stage = "done" /\ dSsl'.left <= dSsl'.of
  BY <1>1 DEF Dtls!DtlsTypes
<1>3. /\ net' \in [Dtls!Ends -> SUBSET SUBSET Letters] /\ lost' = lost
      /\ net'["client"] \subseteq net["client"] /\ m \in net["client"]
      /\ net'["server"] = net["server"]
  BY <1>1, ClientDrops
<1>4. /\ dFaults = {}
      /\ \/ /\ arqTimer_.state \in {"closing", "closed"}
            /\ dFaults' = {"closed_twice"} /\ arqTimer_' = arqTimer_
         \/ /\ arqTimer_.state \notin {"closing", "closed"}
            /\ dFaults' = {} /\ arqTimer_' = [state |-> "closing", due |-> 0]
  BY <1>1, StopsTimer DEF Dtls!Alive
<1>5. Dtls!DtlsTypes'
  <2>1. arqTimer_' \in [state : {"stopped", "active", "closing", "closed"}, due : 0..DtlsMost]
    BY <1>4, DtlsBounds DEF Dtls!DtlsTypes
  <2> QED  BY <1>1, <1>2, <1>3, <1>4, <2>1 DEF Dtls!DtlsTypes, Letters
<1>6. Dtls!StatusInv'
  BY <1>1, <1>2, <1>4 DEF Dtls!StatusInv
<1>7. Dtls!ToldInv'
  <2>1. dTold' = dTold /\ dTold # <<"done">>
    BY <1>1 DEF Dtls!ToldInv
  <2>2. CASE dFaults' = {"closed_twice"} /\ arqTimer_' = arqTimer_
    BY <1>1, <1>2, <2>1, <2>2 DEF Dtls!ToldInv
  <2>3. CASE dFaults' = {} /\ arqTimer_.state # "closed" /\ arqTimer_'.state = "closing"
    BY <1>1, <1>2, <2>1, <2>3 DEF Dtls!ToldInv
  <2> QED  BY <1>4, <2>2, <2>3
<1>8. Dtls!FlightsInv'
  <2>1. dServer = "done"
    BY <1>1, <1>3 DEF Dtls!FlightsInv
  <2> QED  BY <1>1, <1>2, <1>3, <2>1 DEF Dtls!FlightsInv
<1>9. Dtls!GoesOnInv'
  BY <1>2 DEF Dtls!GoesOnInv
<1> QED  BY <1>5, <1>6, <1>7, <1>8, <1>9

\* A connected client drops what is late.
LEMMA ClientReadsKeeps ==
    ASSUME Dtls!DtlsInv, NEW m, Dtls!ClientReads(m)
    PROVE  Dtls!DtlsInv'
<1> USE DEF Dtls!DtlsInv
<1>1. /\ dtlsConnect_ /\ Dtls!Receive("client", m, {})
      /\ UNCHANGED <<retryTime, arqTimeout_, arqTimer_, dtlsStatus_, dtlsConnect_, dSsl, dTold,
                     deleted, dServer, wbio_, dFaults>>
  BY DEF Dtls!ClientReads, Dtls!arq, Dtls!client
<1>2. /\ net' \in [Dtls!Ends -> SUBSET SUBSET Letters] /\ lost' = lost
      /\ net'["client"] \subseteq net["client"] /\ net'["server"] = net["server"]
  BY <1>1, ClientDrops
<1>3. Dtls!DtlsTypes'
  BY <1>1, <1>2 DEF Dtls!DtlsTypes, Letters
<1>4. Dtls!StatusInv' /\ Dtls!ToldInv'
  BY <1>1 DEF Dtls!StatusInv, Dtls!ToldInv
<1>5. Dtls!FlightsInv'
  BY <1>1, <1>2 DEF Dtls!FlightsInv
<1>6. Dtls!GoesOnInv'
  BY <1>1 DEF Dtls!StatusInv, Dtls!GoesOnInv
<1> QED  BY <1>3, <1>4, <1>5, <1>6

\* The timer: the client gives up, sends its flight again, or waits longer.
LEMMA OnTimerKeeps ==
    ASSUME Dtls!DtlsInv, Dtls!OnTimer
    PROVE  Dtls!DtlsInv'
<1> USE DEF Dtls!DtlsInv
<1>1. /\ dFaults = {} /\ arqTimer_.state = "active"
      /\ UNCHANGED <<dtlsStatus_, dtlsConnect_, dTold, deleted, dServer, wbio_>>
  BY DEF Dtls!OnTimer, Dtls!Alive
<1>2. /\ dTold = <<>> /\ dSsl.stage # "new"
  BY <1>1 DEF Dtls!ToldInv, Dtls!StatusInv
<1>3. CASE Dtls!GivesUp /\ Dtls!StopNegotiation /\ retryTime' = 0
           /\ UNCHANGED <<arqTimeout_, dSsl, net, lost, repeated, dWrites>>
  <2>1. dFaults' = {} /\ arqTimer_' = [state |-> "closing", due |-> 0]
    BY <1>1, <1>3, StopsTimer
  <2>2. Dtls!DtlsTypes'
    BY <1>1, <1>3, <2>1, DtlsBounds DEF Dtls!DtlsTypes
  <2>3. Dtls!StatusInv' /\ Dtls!ToldInv'
    BY <1>1, <1>2, <1>3, <2>1 DEF Dtls!StatusInv, Dtls!ToldInv
  <2>4. Dtls!FlightsInv' /\ Dtls!GoesOnInv'
    BY <1>1, <1>3 DEF Dtls!FlightsInv, Dtls!GoesOnInv
  <2> QED  BY <2>2, <2>3, <2>4
<1>4. CASE ~Dtls!GivesUp /\ dSsl.left = 0 /\ dSsl' = Dtls!Doubled(dSsl)
           /\ Dtls!Send("server", {Dtls!Flight[dSsl.stage]})
           /\ arqTimer_' = Dtls!Restart(arqTimeout_) /\ retryTime' = retryTime + 1
           /\ UNCHANGED <<arqTimeout_, dFaults>>
  <2>1. arqTimer_' = [state |-> "active", due |-> arqTimeout_]
    BY <1>4 DEF Dtls!Restart, Dtls!Started
  <2>2. /\ dSsl' \in [stage : {"new", "wait4", "wait6", "done"}, left : 0..DtlsMost, of : 0..DtlsMost]
        /\ dSsl'.stage = dSsl.stage /\ dSsl'.left <= dSsl'.of
    BY <1>4, TimersAreNumbers
  <2>3. dSsl.stage \in {"wait4", "wait6"}
    BY <1>1, <1>2, <1>4 DEF Dtls!StatusInv, Dtls!DtlsTypes
  <2>4. /\ net' = [net EXCEPT !["server"] = @ \cup {{Dtls!Flight[dSsl.stage]}}] /\ lost' = lost
        /\ Dtls!Flight[dSsl.stage] = IF dSsl.stage = "wait4" THEN "f1" ELSE "f5"
    BY <1>4, <2>3 DEF Dtls!Send, Dtls!counts, Dtls!Flight
  <2> DEFINE flight == Dtls!Flight[dSsl.stage]
  <2> HIDE DEF flight
  <2>5. /\ net' \in [Dtls!Ends -> SUBSET SUBSET Letters]
        /\ net'["client"] = net["client"] /\ net'["server"] = net["server"] \cup {{flight}}
        /\ flight = IF dSsl.stage = "wait4" THEN "f1" ELSE "f5"
    BY <2>4 DEF Dtls!DtlsTypes, Dtls!Ends, Letters, flight
  <2>6. retryTime' \in 0..Retries
    BY <1>4, DtlsBounds DEF Dtls!GivesUp, Dtls!DtlsTypes
  <2>7. Dtls!DtlsTypes'
    <3>1. arqTimer_' \in [state : {"stopped", "active", "closing", "closed"}, due : 0..DtlsMost]
      BY <2>1, DtlsBounds DEF Dtls!DtlsTypes
    <3> QED  BY <1>1, <1>4, <2>2, <2>4, <2>5, <2>6, <3>1 DEF Dtls!DtlsTypes, Letters
  <2>8. Dtls!StatusInv' /\ Dtls!ToldInv'
    BY <1>1, <1>2, <1>4, <2>1, <2>2, <2>3 DEF Dtls!StatusInv, Dtls!ToldInv
  <2>9. Dtls!FlightsInv'
    BY <1>1, <2>2, <2>3, <2>5 DEF Dtls!FlightsInv
  <2>10. Dtls!GoesOnInv'
    BY <1>1, <2>2, <2>3, <2>4, <2>5 DEF Dtls!GoesOnInv
  <2> QED  BY <2>7, <2>8, <2>9, <2>10
<1>5. CASE ~Dtls!GivesUp /\ dSsl.left > 0 /\ arqTimeout_' = dSsl.left
           /\ arqTimer_' = Dtls!Restart(dSsl.left) /\ retryTime' = retryTime + 1
           /\ UNCHANGED <<dSsl, net, lost, repeated, dWrites, dFaults>>
  <2>1. arqTimer_' = [state |-> "active", due |-> dSsl.left]
    BY <1>5 DEF Dtls!Restart, Dtls!Started
  <2>2. retryTime' \in 0..Retries
    BY <1>5, DtlsBounds DEF Dtls!GivesUp, Dtls!DtlsTypes
  <2>3. Dtls!DtlsTypes'
    BY <1>1, <1>5, <2>1, <2>2, DtlsBounds DEF Dtls!DtlsTypes
  <2>4. Dtls!StatusInv' /\ Dtls!ToldInv'
    BY <1>1, <1>2, <1>5, <2>1 DEF Dtls!StatusInv, Dtls!ToldInv
  <2>5. Dtls!FlightsInv' /\ Dtls!GoesOnInv'
    BY <1>1, <1>5 DEF Dtls!FlightsInv, Dtls!GoesOnInv
  <2> QED  BY <2>3, <2>4, <2>5
<1> QED  BY <1>3, <1>4, <1>5 DEF Dtls!OnTimer, Dtls!counts

\* The close callback tells the owner.
LEMMA OnStopNegotiationKeeps ==
    ASSUME Dtls!DtlsInv, Dtls!OnStopNegotiation
    PROVE  Dtls!DtlsInv'
<1> USE DEF Dtls!DtlsInv
<1>1. /\ dFaults = {} /\ arqTimer_.state = "closing"
      /\ arqTimer_' = [arqTimer_ EXCEPT !.state = "closed"]
      /\ dTold' = Append(dTold, IF dtlsStatus_ = "ClientDone" THEN "done" ELSE "timeout")
      /\ UNCHANGED <<retryTime, arqTimeout_, dtlsStatus_, dtlsConnect_, dSsl, deleted, dServer,
                     wbio_, net, lost, repeated, dWrites, dFaults>>
  BY DEF Dtls!OnStopNegotiation, Dtls!Alive, Dtls!counts
<1>2. dTold = <<>>
  BY <1>1 DEF Dtls!ToldInv
<1>3. dTold' = IF dtlsStatus_ = "ClientDone" THEN <<"done">> ELSE <<"timeout">>
  BY <1>1, <1>2
<1>4. arqTimer_' \in [state : {"stopped", "active", "closing", "closed"}, due : 0..DtlsMost]
      /\ arqTimer_'.state = "closed"
  BY <1>1 DEF Dtls!DtlsTypes
<1>5. Dtls!DtlsTypes'
  BY <1>1, <1>4 DEF Dtls!DtlsTypes
<1>6. Dtls!StatusInv'
  BY <1>1, <1>4 DEF Dtls!StatusInv
<1>7. Dtls!ToldInv'
  BY <1>1, <1>3, <1>4 DEF Dtls!ToldInv, Dtls!StatusInv
<1>8. Dtls!FlightsInv' /\ Dtls!GoesOnInv'
  BY <1>1 DEF Dtls!FlightsInv, Dtls!GoesOnInv
<1> QED  BY <1>5, <1>6, <1>7, <1>8

\* The owner deletes the client, or time passes.
LEMMA DeleteAndTickKeep ==
    ASSUME Dtls!DtlsInv, Dtls!Delete \/ Dtls!Tick
    PROVE  Dtls!DtlsInv'
<1> USE DEF Dtls!DtlsInv
<1>1. CASE Dtls!Delete
  <2>1. /\ dFaults = {} /\ deleted'
        /\ dFaults' = IF arqTimer_.state = "closed" THEN {} ELSE {"timer_in_loop"}
        /\ UNCHANGED <<retryTime, arqTimeout_, arqTimer_, dtlsStatus_, dtlsConnect_, dSsl, dTold,
                       dServer, wbio_, net, lost, repeated, dWrites>>
    BY <1>1 DEF Dtls!Delete, Dtls!Alive, Dtls!arq, Dtls!counts
  <2>2. Dtls!DtlsTypes'
    BY <2>1 DEF Dtls!DtlsTypes
  <2>3. Dtls!StatusInv' /\ Dtls!ToldInv'
    BY <2>1 DEF Dtls!StatusInv, Dtls!ToldInv
  <2>4. Dtls!FlightsInv' /\ Dtls!GoesOnInv'
    BY <2>1 DEF Dtls!FlightsInv, Dtls!GoesOnInv
  <2> QED  BY <2>2, <2>3, <2>4
<1>2. CASE Dtls!Tick
  <2>1. /\ arqTimer_.state = "active" /\ arqTimer_.due > 0
        /\ arqTimer_' = [arqTimer_ EXCEPT !.due = @ - 1]
        /\ dSsl' = [dSsl EXCEPT !.left = IF @ = 0 THEN 0 ELSE @ - 1]
        /\ UNCHANGED <<retryTime, arqTimeout_, dtlsStatus_, dtlsConnect_, dTold, deleted, dServer,
                       wbio_, net, lost, repeated, dWrites, dFaults>>
    BY <1>2 DEF Dtls!Tick, Dtls!counts
  <2>2. /\ arqTimer_' \in [state : {"stopped", "active", "closing", "closed"}, due : 0..DtlsMost]
        /\ arqTimer_'.state = "active"
    BY <2>1, DtlsBounds DEF Dtls!DtlsTypes
  <2>3. /\ dSsl' \in [stage : {"new", "wait4", "wait6", "done"}, left : 0..DtlsMost, of : 0..DtlsMost]
        /\ dSsl'.stage = dSsl.stage /\ dSsl'.left <= dSsl'.of
    BY <2>1, DtlsBounds DEF Dtls!DtlsTypes
  <2>4. Dtls!DtlsTypes'
    BY <2>1, <2>2, <2>3 DEF Dtls!DtlsTypes
  <2>5. Dtls!StatusInv' /\ Dtls!ToldInv'
    BY <2>1, <2>2, <2>3 DEF Dtls!StatusInv, Dtls!ToldInv
  <2>6. Dtls!FlightsInv' /\ Dtls!GoesOnInv'
    BY <2>1, <2>3 DEF Dtls!FlightsInv, Dtls!GoesOnInv
  <2> QED  BY <2>4, <2>5, <2>6
<1> QED  BY <1>1, <1>2

\* The server in the handshake.
LEMMA OnServerMessageKeeps ==
    ASSUME Dtls!DtlsInv, NEW m, Dtls!OnServerMessage(m)
    PROVE  Dtls!DtlsInv'
<1> USE DEF Dtls!DtlsInv
<1>1. /\ dServer # "done" /\ Dtls!ServerHandshake(m)
      /\ UNCHANGED <<retryTime, arqTimeout_, arqTimer_, dtlsStatus_, dtlsConnect_, dSsl, dTold,
                     deleted, wbio_, dFaults>>
  BY DEF Dtls!OnServerMessage, Dtls!arq, Dtls!client
\* What the server answers, and what it was asked.
<1>2. PICK out \in {{}, {"f4"}, {"f6"}} :
        /\ Dtls!Receive("server", m, out)
        /\ \/ "f5" \in m /\ dServer' = "done" /\ out = {"f6"}
           \/ "f1" \in m /\ dServer = "wait1" /\ dServer' = "wait5" /\ out = {"f4"}
           \/ "f1" \in m /\ dServer = "wait5" /\ dServer' = "wait5" /\ out \in {{}, {"f4"}}
  BY <1>1 DEF Dtls!ServerHandshake
<1>3. /\ net' \in [Dtls!Ends -> SUBSET SUBSET Letters] /\ lost' = lost
      /\ m \in net["server"] /\ net'["server"] \subseteq net["server"]
      /\ net["server"] \ {m} \subseteq net'["server"]
      /\ net'["client"] = net["client"] \cup (IF out = {} THEN {} ELSE {out})
  BY <1>2, ServerReceives DEF Letters
<1>4. m \in {{"f1"}, {"f5"}} /\ dSsl.stage # "new"
  BY <1>3 DEF Dtls!FlightsInv
<1>5. Dtls!DtlsTypes'
  BY <1>1, <1>2, <1>3 DEF Dtls!DtlsTypes, Letters
<1>6. Dtls!StatusInv' /\ Dtls!ToldInv'
  BY <1>1 DEF Dtls!StatusInv, Dtls!ToldInv
<1>7. CASE m = {"f5"} /\ dServer' = "done" /\ out = {"f6"}
  <2>1. dSsl.stage = "wait6"
    BY <1>1, <1>3, <1>7 DEF Dtls!FlightsInv
  <2>2. Dtls!FlightsInv'
    BY <1>1, <1>3, <1>7, <2>1 DEF Dtls!FlightsInv
  <2>3. Dtls!GoesOnInv'
    BY <1>1, <1>3, <1>7, <2>1 DEF Dtls!GoesOnInv
  <2> QED  BY <1>5, <1>6, <2>2, <2>3
<1>8. CASE m = {"f1"} /\ dServer' = "wait5" /\ out \in {{}, {"f4"}} /\ (dServer = "wait5" \/ out = {"f4"})
  <2>1. Dtls!FlightsInv'
    BY <1>1, <1>3, <1>4, <1>8 DEF Dtls!FlightsInv
  <2>2. {"f5"} \in net["server"] => {"f5"} \in net'["server"]
    BY <1>3, <1>8
  <2>3. Dtls!GoesOnInv'
    BY <1>1, <1>2, <1>3, <1>8, <2>2 DEF Dtls!GoesOnInv, Dtls!FlightsInv
  <2> QED  BY <1>5, <1>6, <2>1, <2>3
<1> QED  BY <1>2, <1>4, <1>7, <1>8

\* The connected server, and its owner.
LEMMA ServerReadsAndWritesKeep ==
    ASSUME Dtls!DtlsInv, (\E m : Dtls!ServerReads(m)) \/ Dtls!ServerWrites
    PROVE  Dtls!DtlsInv'
<1> USE DEF Dtls!DtlsInv
<1>1. dServer = "done"
  BY DEF Dtls!ServerReads, Dtls!ServerWrites
<1>2. ASSUME NEW m, Dtls!ServerReads(m) PROVE Dtls!DtlsInv'
  <2>1. /\ Dtls!Receive("server", m, {})
        /\ wbio_' = wbio_ \cup (IF "f5" \in m THEN {"f6"} ELSE {})
        /\ UNCHANGED <<retryTime, arqTimeout_, arqTimer_, dtlsStatus_, dtlsConnect_, dSsl, dTold,
                       deleted, dServer, dFaults>>
    BY <1>2 DEF Dtls!ServerReads, Dtls!arq, Dtls!client
  <2>3. /\ net' \in [Dtls!Ends -> SUBSET SUBSET Letters] /\ lost' = lost
        /\ net'["server"] \subseteq net["server"] /\ net'["client"] = net["client"]
    BY <2>1, ServerDrops
  <2>4. wbio_' \in SUBSET {"f6"}
    BY <2>1 DEF Dtls!DtlsTypes
  <2>5. Dtls!DtlsTypes'
    BY <2>1, <2>3, <2>4 DEF Dtls!DtlsTypes, Letters
  <2>6. Dtls!StatusInv' /\ Dtls!ToldInv'
    BY <2>1 DEF Dtls!StatusInv, Dtls!ToldInv
  <2>7. Dtls!FlightsInv'
    BY <1>1, <2>1, <2>3 DEF Dtls!FlightsInv
  <2>8. Dtls!GoesOnInv'
    BY <1>1, <2>1, <2>3 DEF Dtls!GoesOnInv, Dtls!FlightsInv
  <2> QED  BY <2>5, <2>6, <2>7, <2>8
<1>3. CASE Dtls!ServerWrites
  <2>1. /\ net' = [net EXCEPT !["client"] = @ \cup {wbio_ \cup {"app"}}]
        /\ wbio_' = {}
        /\ UNCHANGED <<retryTime, arqTimeout_, arqTimer_, dtlsStatus_, dtlsConnect_, dSsl, dTold,
                       deleted, dServer, lost, repeated, dFaults>>
    BY <1>3 DEF Dtls!ServerWrites, Dtls!arq, Dtls!client
  <2>2. wbio_ = {} \/ wbio_ = {"f6"}
    <3>1. wbio_ \subseteq {"f6"}
      BY DEF Dtls!DtlsTypes
    <3> QED  BY <3>1
  <2>3. wbio_ \cup {"app"} \in {{"app"}, {"f6", "app"}}
    BY <2>2
  <2> DEFINE data == wbio_ \cup {"app"}
  <2> HIDE DEF data
  <2>4. /\ net' \in [Dtls!Ends -> SUBSET SUBSET Letters]
        /\ net'["client"] = net["client"] \cup {data} /\ net'["server"] = net["server"]
        /\ data \in {{"app"}, {"f6", "app"}}
    BY <2>1, <2>3 DEF Dtls!DtlsTypes, Dtls!Ends, Letters, data
  <2>5. Dtls!DtlsTypes'
    BY <2>1, <2>4 DEF Dtls!DtlsTypes, Letters
  <2>6. Dtls!StatusInv' /\ Dtls!ToldInv'
    BY <2>1 DEF Dtls!StatusInv, Dtls!ToldInv
  <2>7. Dtls!FlightsInv'
    BY <1>1, <2>1, <2>4 DEF Dtls!FlightsInv
  <2>8. Dtls!GoesOnInv'
    BY <1>1, <2>1, <2>4 DEF Dtls!GoesOnInv
  <2> QED  BY <2>5, <2>6, <2>7, <2>8
<1> QED  BY <1>2, <1>3

\* A datagram is lost.
LEMMA LoseKeeps ==
    ASSUME Dtls!DtlsInv, NEW e \in Dtls!Ends, NEW m, Dtls!Lose(e, m)
    PROVE  Dtls!DtlsInv'
<1> USE DEF Dtls!DtlsInv
<1>1. /\ net' = [net EXCEPT ![e] = @ \ {m}] /\ lost' = lost + 1
      /\ UNCHANGED <<retryTime, arqTimeout_, arqTimer_, dtlsStatus_, dtlsConnect_, dSsl, dTold,
                     deleted, dServer, wbio_, dFaults>>
  BY DEF Dtls!Lose, Dtls!arq, Dtls!client
<1>2. /\ net' \in [Dtls!Ends -> SUBSET SUBSET Letters]
      /\ net'["client"] \subseteq net["client"] /\ net'["server"] \subseteq net["server"]
  BY <1>1 DEF Dtls!DtlsTypes, Dtls!Ends, Letters
<1>3. lost' \in Nat /\ lost' # 0
  BY <1>1 DEF Dtls!DtlsTypes
<1>4. Dtls!DtlsTypes'
  BY <1>1, <1>2, <1>3 DEF Dtls!DtlsTypes, Letters
<1>5. Dtls!StatusInv' /\ Dtls!ToldInv'
  BY <1>1 DEF Dtls!StatusInv, Dtls!ToldInv
<1>6. Dtls!FlightsInv'
  BY <1>1, <1>2 DEF Dtls!FlightsInv
<1>7. Dtls!GoesOnInv'
  BY <1>3 DEF Dtls!GoesOnInv
<1> QED  BY <1>4, <1>5, <1>6, <1>7

\* Every step of the handshake.
LEMMA DtlsStep == Dtls!DtlsInv /\ [Dtls!Next]_dtls => Dtls!DtlsInv'
<1> SUFFICES ASSUME Dtls!DtlsInv, [Dtls!Next]_dtls PROVE Dtls!DtlsInv'
  OBVIOUS
<1>1. CASE Dtls!Next
  BY <1>1, StartHandShakeKeeps, HandshakeGoesOnKeeps, HandshakeCompletesKeeps, ClientReadsKeeps,
     OnTimerKeeps, OnStopNegotiationKeeps, DeleteAndTickKeep, OnServerMessageKeeps,
     ServerReadsAndWritesKeep, LoseKeeps DEF Dtls!Next
<1>2. CASE UNCHANGED dtls
  BY <1>2 DEF dtls, Dtls!DtlsInv, Dtls!DtlsTypes, Dtls!StatusInv, Dtls!ToldInv, Dtls!FlightsInv,
     Dtls!GoesOnInv
<1> QED  BY <1>1, <1>2

\* What the invariant says of the ends.
LEMMA DtlsInvSays == Dtls!DtlsInv => DtlsAgrees
<1> SUFFICES ASSUME Dtls!DtlsInv PROVE DtlsAgrees
  OBVIOUS
<1> USE DEF Dtls!DtlsInv
<1>1. Dtls!EndsAgree
  BY DEF Dtls!EndsAgree, Dtls!ToldInv, Dtls!FlightsInv, Dtls!SrtpKey
<1>2. Dtls!NeverStalls
  BY DEF Dtls!NeverStalls, Dtls!Running, Dtls!StatusInv
<1>3. Dtls!TimeoutHasCause
  <2> SUFFICES ASSUME dTold = <<"timeout">>, lost = 0, dFaults = {}
               PROVE  net["client"] # {} \/ net["server"] # {}
    BY DEF Dtls!TimeoutHasCause, Dtls!DtlsTypes
  <2>1. arqTimer_.state # "stopped" /\ dSsl.stage # "done"
    BY DEF Dtls!ToldInv
  <2>2. dSsl.stage \in {"wait4", "wait6"}
    BY <2>1 DEF Dtls!StatusInv, Dtls!DtlsTypes
  <2> QED  BY <2>2 DEF Dtls!GoesOnInv
<1>4. Dtls!FaultsExplained
  BY DEF Dtls!FaultsExplained, Dtls!ToldInv, Dtls!StatusInv
<1> QED  BY <1>1, <1>2, <1>3, <1>4 DEF DtlsAgrees

\* In every behaviour of the handshake, whatever the network loses, delays,
\* reorders or repeats and however long OpenSSL's timeouts (DtlsClient and
\* DtlsServer, Dtls.cc): a client told that it is done has a server that is,
\* with matching keys; a client under way has its timer; it gives up only when
\* a datagram was lost or is late; and each fault has its cause.
THEOREM DtlsEndsAgree == MCSpec => []DtlsAgrees
<1>1. MCInit => Dtls!DtlsInv
  BY DtlsInit DEF MCInit
<1>2. Dtls!DtlsInv /\ [MCNext]_all => Dtls!DtlsInv'
  <2>1. [MCNext]_all => [Dtls!Next]_dtls
    BY DEF MCNext, Ended, all
  <2> QED  BY <2>1, DtlsStep
<1>3. MCSpec => MCInit /\ [][MCNext]_all
  BY DEF MCSpec
<1>4. Dtls!DtlsInv => DtlsAgrees
  BY DtlsInvSays
<1> QED  BY <1>1, <1>2, <1>3, <1>4, PTL

-----------------------------------------------------------------------------
(* WsClientLife *)

\* The bounds as numbers.
LEMMA LifeBounds == MaxFrames \in Nat /\ MaxCloses \in Nat
BY WebSocketAssumption DEF Life!BoundsAssumption

Handles == {"tcp", "timer"}

\* Two sequences of one length with the same elements are the same.
LEMMA SameSequence ==
    ASSUME NEW S, NEW s \in Seq(S), NEW t \in Seq(S), Len(s) = Len(t),
           \A i \in 1..Len(s) : s[i] = t[i]
    PROVE  s = t
OBVIOUS

\* One element before another.
LEMMA OneAndOne ==
    ASSUME NEW S, NEW h \in S, NEW g \in S
    PROVE  <<h>> \o <<g>> = <<h, g>> /\ Append(<<h>>, g) = <<h, g>>
<1>1. /\ <<h>> \o <<g>> \in Seq(S) /\ Len(<<h>> \o <<g>>) = 2
      /\ (<<h>> \o <<g>>)[1] = h /\ (<<h>> \o <<g>>)[2] = g
  OBVIOUS
<1>2. /\ Append(<<h>>, g) \in Seq(S) /\ Len(Append(<<h>>, g)) = 2
      /\ Append(<<h>>, g)[1] = h /\ Append(<<h>>, g)[2] = g
  OBVIOUS
<1>3. <<h, g>> \in Seq(S) /\ Len(<<h, g>>) = 2 /\ <<h, g>>[1] = h /\ <<h, g>>[2] = g
  OBVIOUS
<1>4. \A i \in 1..2 : i = 1 \/ i = 2
  OBVIOUS
<1>5. <<h>> \o <<g>> = <<h, g>>
  BY <1>1, <1>3, <1>4, SameSequence
<1>6. Append(<<h>>, g) = <<h, g>>
  BY <1>2, <1>3, <1>4, SameSequence
<1> QED  BY <1>5, <1>6

\* An empty sequence adds nothing.
LEMMA WithNothing ==
    ASSUME NEW S, NEW s \in Seq(S)
    PROVE  s \o <<>> = s /\ <<>> \o s = s
<1>1. /\ s \o <<>> \in Seq(S) /\ Len(s \o <<>>) = Len(s)
      /\ \A i \in 1..Len(s) : (s \o <<>>)[i] = s[i]
  OBVIOUS
<1>2. /\ <<>> \o s \in Seq(S) /\ Len(<<>> \o s) = Len(s)
      /\ \A i \in 1..Len(s) : (<<>> \o s)[i] = s[i]
  OBVIOUS
<1> QED  BY <1>1, <1>2, SameSequence

\* The lists of handles that may be closing, without their elements' places.
LEMMA ListFacts ==
    /\ \A h : ~Life!Holds(<<>>, h)
    /\ \A L \in Life!Lists, h \in Handles : ~Life!Holds(L, h) =>
         /\ <<h>> \o L \in Life!Lists /\ Life!Holds(<<h>> \o L, h)
         /\ \A g \in Handles \ {h} : Life!Holds(<<h>> \o L, g) <=> Life!Holds(L, g)
    /\ \A L \in Life!Lists : L # <<>> =>
         /\ Head(L) \in Handles /\ Tail(L) \in Life!Lists
         /\ Life!Holds(L, Head(L)) /\ ~Life!Holds(Tail(L), Head(L))
         /\ \A g \in Handles \ {Head(L)} : Life!Holds(Tail(L), g) <=> Life!Holds(L, g)
<1>1. \A h : ~Life!Holds(<<>>, h)
  BY DEF Life!Holds
<1>2. \A h, g \in Handles : Life!Holds(<<h>>, g) <=> g = h
  BY DEF Life!Holds, Handles
<1>3. /\ \A g \in Handles : Life!Holds(<<"tcp", "timer">>, g)
      /\ \A g \in Handles : Life!Holds(<<"timer", "tcp">>, g)
  <2>1. \A a, b : 1 \in DOMAIN <<a, b>> /\ 2 \in DOMAIN <<a, b>>
    OBVIOUS
  <2> QED  BY <2>1 DEF Life!Holds, Handles
<1>4. \A h \in Handles : <<h>> \o <<>> = <<h>>
  <2>1. \A h \in Handles : <<h>> \in Seq(Handles)
    OBVIOUS
  <2> QED  BY <2>1, WithNothing
<1>5. \A h, g \in Handles : <<h>> \o <<g>> = <<h, g>>
  BY OneAndOne
<1>6. ASSUME NEW L \in Life!Lists, NEW h \in Handles, ~Life!Holds(L, h)
      PROVE  /\ <<h>> \o L \in Life!Lists /\ Life!Holds(<<h>> \o L, h)
             /\ \A g \in Handles \ {h} : Life!Holds(<<h>> \o L, g) <=> Life!Holds(L, g)
  <2>1. CASE L = <<>>
    <3>1. <<h>> \o L = <<h>>
      BY <1>4, <2>1
    <3> QED  BY <1>1, <1>2, <2>1, <3>1 DEF Life!Lists, Handles
  <2>2. CASE L = <<"tcp">> /\ h = "timer"
    <3>1. <<h>> \o L = <<"timer", "tcp">>
      BY <1>5, <2>2 DEF Handles
    <3> QED  BY <1>2, <1>3, <2>2, <3>1 DEF Life!Lists, Handles
  <2>3. CASE L = <<"timer">> /\ h = "tcp"
    <3>1. <<h>> \o L = <<"tcp", "timer">>
      BY <1>5, <2>3 DEF Handles
    <3> QED  BY <1>2, <1>3, <2>3, <3>1 DEF Life!Lists, Handles
  <2> QED  BY <1>2, <1>3, <1>6, <2>1, <2>2, <2>3 DEF Life!Lists, Handles
<1>7. ASSUME NEW L \in Life!Lists, L # <<>>
      PROVE  /\ Head(L) \in Handles /\ Tail(L) \in Life!Lists
             /\ Life!Holds(L, Head(L)) /\ ~Life!Holds(Tail(L), Head(L))
             /\ \A g \in Handles \ {Head(L)} : Life!Holds(Tail(L), g) <=> Life!Holds(L, g)
  <2>1. CASE \E h \in Handles : L = <<h>>
    <3>1. PICK h \in Handles : L = <<h>>
      BY <2>1
    <3>2. Head(L) = h /\ Tail(L) = <<>>
      BY <3>1
    <3> QED  BY <1>1, <1>2, <3>1, <3>2 DEF Life!Lists
  <2>2. CASE L = <<"tcp", "timer">>
    <3>1. Head(L) = "tcp" /\ Tail(L) = <<"timer">>
      BY <2>2
    <3> QED  BY <1>2, <1>3, <2>2, <3>1 DEF Life!Lists, Handles
  <2>3. CASE L = <<"timer", "tcp">>
    <3>1. Head(L) = "timer" /\ Tail(L) = <<"tcp">>
      BY <2>3
    <3> QED  BY <1>2, <1>3, <2>3, <3>1 DEF Life!Lists, Handles
  <2> QED  BY <1>7, <2>1, <2>2, <2>3 DEF Life!Lists, Handles
<1> QED  BY <1>1, <1>6, <1>7

Tellings == {"connected", "refused", "closed"}

\* What has been told stays first.
LEMMA ToldGrows ==
    ASSUME NEW s \in Seq(Tellings), NEW x \in Tellings
    PROVE  /\ Append(s, x) \in Seq(Tellings) /\ Append(s, x) # <<>>
           /\ s # <<>> => Append(s, x)[1] = s[1]
           /\ s = <<>> => Append(s, x) = <<x>>
<1>1. /\ Append(s, x) \in Seq(Tellings) /\ Len(Append(s, x)) = Len(s) + 1
      /\ \A i \in 1..Len(s) : Append(s, x)[i] = s[i]
      /\ Append(s, x)[Len(s) + 1] = x
  OBVIOUS
<1>2. s # <<>> => 1 \in 1..Len(s)
  OBVIOUS
<1>3. CASE s = <<>>
  <2>1. <<x>> \in Seq(Tellings) /\ Len(<<x>>) = 1 /\ <<x>>[1] = x
    OBVIOUS
  <2>2. Len(Append(s, x)) = 1 /\ Append(s, x)[1] = x
    BY <1>1, <1>3
  <2>3. \A i \in 1..1 : i = 1
    OBVIOUS
  <2> QED  BY <1>1, <1>3, <2>1, <2>2, <2>3, SameSequence
<1> QED  BY <1>1, <1>2, <1>3

\* What is left of a sequence whose first n elements are taken.
LEMMA WireCut ==
    ASSUME NEW s \in Seq(Nat), NEW n \in 1..Len(s)
    PROVE  /\ SubSeq(s, n + 1, Len(s)) \in Seq(Nat)
           /\ Len(SubSeq(s, n + 1, Len(s))) = Len(s) - n
           /\ \A i \in 1..(Len(s) - n) : SubSeq(s, n + 1, Len(s))[i] = s[i + n]
           /\ SubSeq(s, 1, n) \in Seq(Nat) /\ Len(SubSeq(s, 1, n)) = n
           /\ \A i \in 1..n : SubSeq(s, 1, n)[i] = s[i]
OBVIOUS

\* What TcpSocket::close does of its three.
LEMMA TcpCloses ==
    ASSUME Life!TcpClose, faults = {}
    PROVE  \/ tcp = "none" /\ faults' = {"uninitialized_handle"}
              /\ UNCHANGED <<object, tcp, closing, told>>
           \/ tcp \in {"closing", "aborting"} /\ faults' = {"socket_freed_in_use"}
              /\ object' = "deleted" /\ tcp' = "deleted" /\ told' = Append(told, "closed")
              /\ closing' = closing
           \/ tcp \notin {"none", "closing", "aborting"}
              /\ tcp' = (IF tcp = "connecting" THEN "aborting" ELSE "closing")
              /\ closing' = <<"tcp">> \o closing /\ UNCHANGED <<object, told, faults>>
BY DEF Life!TcpClose

\* Where nothing is added to the stream or taken from it.
LEMMA StreamStays ==
    ASSUME Life!StreamInv, wire' = wire, sent' = sent, delivered' = delivered, answer' = answer,
           bIsConnect' => bIsConnect, disorder \subseteq disorder',
           told # <<>> => told' # <<>> /\ told'[1] = told[1],
           tcp' \in {"none", "connecting"} => told' = told /\ tcp \in {"none", "connecting"},
           tcp' = "open" => told' = told /\ tcp \in {"open", "connecting"}
    PROVE  Life!StreamInv'
<1>1. disorder' = {} => disorder = {}
  OBVIOUS
<1> QED  BY <1>1 DEF Life!StreamInv

\* Initially.
LEMMA LifeInit == Life!Init => Life!LifeInv
<1> SUFFICES ASSUME Life!Init PROVE Life!LifeInv
  OBVIOUS
<1> USE DEF Life!Init
<1>1. Life!LifeTypes
  <2>1. /\ wire \in Seq(Nat) /\ delivered \in Seq(Nat)
        /\ told \in Seq({"connected", "refused", "closed"})
    OBVIOUS
  <2>2. sent \in 0..MaxFrames /\ closes \in Nat
    BY LifeBounds
  <2>3. /\ tcp = "none" /\ object = "alive" /\ pingTimer_ = "idle"
        /\ bIsConnect = FALSE /\ answer = "none"
    OBVIOUS
  <2> HIDE DEF Life!Init
  <2> QED  BY <2>1, <2>2, <2>3 DEF Life!LifeTypes
<1>2. Life!StreamInv /\ Life!FaultInv
  BY DEF Life!StreamInv, Life!FaultInv
<1>3. Life!HandlesInv
  BY ListFacts DEF Life!HandlesInv, Life!Lists
<1>4. Life!TimerInv /\ Life!ToldInv
  BY DEF Life!TimerInv, Life!ToldInv
<1> QED  BY <1>1, <1>2, <1>3, <1>4 DEF Life!LifeInv

\* connect, and how it ends.
LEMMA ConnectKeeps ==
    ASSUME Life!LifeInv, Life!Connect \/ Life!OnConnect
    PROVE  Life!LifeInv'
<1> USE DEF Life!LifeInv
<1>1. /\ faults = {} /\ faults' = {} /\ Life!HandlesInv /\ Life!TimerInv /\ Life!ToldInv
      /\ UNCHANGED <<object, pingTimer_, closing, running, bIsConnect, wire, answer, sent, closes,
                     delivered, disorder>>
      /\ \/ tcp = "none" /\ tcp' = "connecting" /\ told' = told
         \/ tcp = "connecting" /\ tcp' = "open" /\ told' = told
         \/ tcp = "connecting" /\ tcp' = "failed" /\ told' = Append(told, "refused")
  BY DEF Life!Connect, Life!OnConnect, Life!Polling, Life!peer
<1>2. told = <<>> /\ (told' = told \/ told' = <<"refused">>) /\ told' \in Seq(Tellings)
  <2>1. told = <<>> /\ told \in Seq(Tellings) /\ "refused" \in Tellings
    BY <1>1 DEF Life!ToldInv, Life!LifeTypes, Tellings
  <2> QED  BY <1>1, <2>1, ToldGrows
<1>3. Life!LifeTypes'
  BY <1>1, <1>2 DEF Life!LifeTypes, Tellings
<1>4. Life!StreamInv'
  BY <1>1, <1>2, StreamStays
<1>5. Life!FaultInv'
  BY <1>1 DEF Life!FaultInv
<1>6. Life!HandlesInv'
  BY <1>1 DEF Life!HandlesInv
<1>7. Life!TimerInv'
  BY <1>1 DEF Life!TimerInv
<1>8. Life!ToldInv'
  BY <1>1, <1>2 DEF Life!ToldInv
<1> QED  BY <1>3, <1>4, <1>5, <1>6, <1>7, <1>8

\* The server answers and sends.
LEMMA ServerSendsKeeps ==
    ASSUME Life!LifeInv, Life!Answer \/ Life!SendFrame
    PROVE  Life!LifeInv'
<1> USE DEF Life!LifeInv
<1>1. /\ faults = {} /\ faults' = {} /\ Life!HandlesInv /\ Life!TimerInv /\ Life!ToldInv
      /\ tcp = "open"
      /\ UNCHANGED <<object, tcp, pingTimer_, closing, running, bIsConnect, closes, told,
                     delivered, disorder>>
  BY DEF Life!Answer, Life!SendFrame, Life!Polling, Life!handles
<1>2. Life!FaultInv' /\ Life!HandlesInv' /\ Life!TimerInv' /\ Life!ToldInv'
  BY <1>1 DEF Life!FaultInv, Life!HandlesInv, Life!TimerInv, Life!ToldInv
<1>3. CASE Life!Answer
  <2>1. /\ answer = "none" /\ answer' \in {"accept", "refuse"} /\ sent' = sent
        /\ wire = <<>> /\ sent = 0 /\ wire' = wire \o <<0, MaxFrames + 1>>
        /\ ~bIsConnect /\ delivered = <<>>
    BY <1>3 DEF Life!Answer, Life!StreamInv, Life!Head1, Life!Tail1
  <2>2. /\ wire' \in Seq(Nat) /\ Len(wire') = 2 /\ DOMAIN wire' = 1..2
        /\ wire'[1] = 0 /\ wire'[2] = MaxFrames + 1
    <3>1. <<0, MaxFrames + 1>> \in Seq(Nat)
      BY LifeBounds
    <3>2. wire' = <<0, MaxFrames + 1>>
      BY <2>1, <3>1, WithNothing
    <3> QED  BY <3>1, <3>2
  <2>3. Life!LifeTypes'
    BY <1>1, <2>1, <2>2, LifeBounds DEF Life!LifeTypes
  <2>4. \A i \in DOMAIN wire' : wire'[i] = Life!Token(sent' + 2 - Len(wire') + i)
    <3>1. \A i \in 1..2 : i = 1 \/ i = 2
      OBVIOUS
    <3>2. Life!Token(1) = 0 /\ Life!Token(2) = MaxFrames + 1
      BY DEF Life!Token, Life!Head1, Life!Tail1
    <3>3. \A i \in 1..2 : sent' + 2 - Len(wire') + i = i
      BY <2>1, <2>2
    <3> QED  BY <2>2, <3>1, <3>2, <3>3
  <2>5. Life!StreamInv'
    BY <1>1, <2>1, <2>2, <2>4 DEF Life!StreamInv
  <2> QED  BY <1>1, <1>2, <2>3, <2>5
<1>4. CASE Life!SendFrame
  <2>1. answer = "accept" /\ answer' = answer /\ sent < MaxFrames /\ sent' = sent + 1
        /\ wire' = Append(wire, sent + 1)
    BY <1>4 DEF Life!SendFrame
  <2>2. /\ wire' \in Seq(Nat) /\ Len(wire') = Len(wire) + 1 /\ sent \in Nat
        /\ Len(wire) \in Nat /\ DOMAIN wire = 1..Len(wire) /\ DOMAIN wire' = 1..(Len(wire) + 1)
        /\ \A i \in 1..Len(wire) : wire'[i] = wire[i]
        /\ wire'[Len(wire) + 1] = sent + 1
    <3>1. wire \in Seq(Nat) /\ sent \in Nat /\ sent + 1 \in Nat
      BY LifeBounds DEF Life!LifeTypes
    <3> QED  BY <2>1, <3>1
  <2>3. Life!LifeTypes'
    BY <1>1, <2>1, <2>2, LifeBounds DEF Life!LifeTypes
  <2>4. \A i \in DOMAIN wire' : wire'[i] = Life!Token(sent' + 2 - Len(wire') + i)
    <3>1. \A i \in 1..(Len(wire) + 1) : sent' + 2 - Len(wire') + i = sent + 2 - Len(wire) + i
      BY <2>1, <2>2
    <3>2. \A i \in 1..Len(wire) : wire'[i] = Life!Token(sent + 2 - Len(wire) + i)
      BY <2>2 DEF Life!StreamInv
    <3>3. Life!Token(sent + 2 - Len(wire) + (Len(wire) + 1)) = sent + 1
      BY <2>2 DEF Life!Token
    <3>4. \A i \in 1..(Len(wire) + 1) : i \in 1..Len(wire) \/ i = Len(wire) + 1
      BY <2>2
    <3> QED  BY <2>2, <3>1, <3>2, <3>3, <3>4
  <2>5. Life!StreamInv'
    BY <1>1, <2>1, <2>2, <2>4 DEF Life!StreamInv, Life!LifeTypes
  <2> QED  BY <1>1, <1>2, <2>3, <2>5
<1> QED  BY <1>3, <1>4

\* A step that has only to end with the invariant of what stays, and goes on
\* only if nothing went wrong.
LEMMA LifeFrom ==
    ASSUME Life!LifeTypes', Life!StreamInv', Life!FaultInv',
           faults' = {} => Life!HandlesInv' /\ Life!TimerInv' /\ Life!ToldInv'
    PROVE  Life!LifeInv'
BY DEF Life!LifeInv

\* The socket that was closed is one more handle that is closing.
LEMMA SocketHeld ==
    ASSUME Life!HandlesInv, tcp \notin {"aborting", "closing"}, tcp' \in {"aborting", "closing"},
           closing' = <<"tcp">> \o closing, running' = running, pingTimer_' = pingTimer_
    PROVE  Life!HandlesInv'
<1>1. closing \in Life!Lists /\ ~Life!Holds(closing, "tcp") /\ ~Life!Holds(running, "tcp")
  BY DEF Life!HandlesInv
<1>2. /\ closing' \in Life!Lists /\ Life!Holds(closing', "tcp")
      /\ Life!Holds(closing', "timer") <=> Life!Holds(closing, "timer")
  BY <1>1, ListFacts DEF Handles
<1> QED  BY <1>1, <1>2 DEF Life!HandlesInv

\* The end of the stream.
LEMMA OnEofKeeps ==
    ASSUME Life!LifeInv, Life!OnEof
    PROVE  Life!LifeInv'
<1> USE DEF Life!LifeInv
<1>1. /\ faults = {} /\ Life!HandlesInv /\ Life!TimerInv /\ Life!ToldInv /\ tcp = "open"
      /\ disorder' = disorder \cup {"closed_by_peer"}
      /\ UNCHANGED <<pingTimer_, running, bIsConnect, wire, answer, sent, closes, delivered>>
  BY DEF Life!OnEof, Life!Polling, Life!peer
<1>2. /\ tcp' = "closing" /\ closing' = <<"tcp">> \o closing
      /\ object' = object /\ told' = told /\ faults' = {}
  BY <1>1, TcpCloses DEF Life!OnEof
<1>3. Life!LifeTypes'
  BY <1>1, <1>2 DEF Life!LifeTypes
<1>4. Life!StreamInv'
  BY <1>1, <1>2, StreamStays
<1>5. Life!FaultInv'
  BY <1>2 DEF Life!FaultInv
<1>6. Life!HandlesInv'
  BY <1>1, <1>2, SocketHeld
<1>7. Life!TimerInv'
  BY <1>1, <1>2 DEF Life!TimerInv, Life!Overtaken
<1>8. Life!ToldInv'
  BY <1>1, <1>2 DEF Life!ToldInv
<1> QED  BY <1>3, <1>4, <1>5, <1>6, <1>7, <1>8, LifeFrom

\* closeWs begins with the timer.
LEMMA CloseWsKeeps ==
    ASSUME Life!LifeInv, Life!CloseWs
    PROVE  Life!LifeInv'
<1> USE DEF Life!LifeInv
<1>1. /\ faults = {} /\ Life!HandlesInv /\ Life!TimerInv /\ Life!ToldInv
      /\ object = "alive" /\ closes' = closes + 1 /\ bIsConnect' = FALSE
      /\ disorder' = disorder \cup (IF closes > 0 THEN {"closed_twice"} ELSE {})
                          \cup (IF tcp = "none" THEN {"close_before_connect"} ELSE {})
                          \cup (IF tcp = "closing" THEN {"closed_while_closing"} ELSE {})
      /\ UNCHANGED <<object, tcp, running, wire, answer, sent, told, delivered>>
  BY DEF Life!CloseWs, Life!Polling, Life!peer
<1>2. closes' \in Nat /\ closes' > 0 /\ tcp # "deleted"
  BY <1>1 DEF Life!LifeTypes
<1>3. pingTimer_' \in {"idle", "active", "closing", "deleted"}
  BY DEF Life!CloseWs, Life!LifeTypes
<1>4. Life!LifeTypes'
  BY <1>1, <1>2, <1>3 DEF Life!LifeTypes
<1>5. Life!StreamInv'
  BY <1>1, StreamStays
<1>6. CASE pingTimer_ \in {"closing", "deleted"}
  <2>1. faults' = {"timer_closed_twice"} /\ closes > 0
    BY <1>1, <1>6 DEF Life!CloseWs, Life!TimerInv
  <2>2. Life!FaultInv'
    BY <1>1, <2>1 DEF Life!FaultInv
  <2> QED  BY <1>4, <1>5, <2>1, <2>2, LifeFrom
<1>7. CASE pingTimer_ \notin {"closing", "deleted"}
  <2>1. /\ faults' = {} /\ pingTimer_' = "closing" /\ closing' = <<"timer">> \o closing
    BY <1>1, <1>7 DEF Life!CloseWs
  <2>2. Life!FaultInv'
    BY <2>1 DEF Life!FaultInv
  <2>3. closing \in Life!Lists /\ ~Life!Holds(closing, "timer") /\ ~Life!Holds(running, "timer")
    BY <1>1, <1>7 DEF Life!HandlesInv
  <2>4. /\ closing' \in Life!Lists /\ Life!Holds(closing', "timer")
        /\ Life!Holds(closing', "tcp") <=> Life!Holds(closing, "tcp")
    BY <2>1, <2>3, ListFacts DEF Handles
  <2>5. Life!HandlesInv'
    BY <1>1, <2>1, <2>3, <2>4 DEF Life!HandlesInv
  <2>6. Life!TimerInv'
    BY <1>1, <1>2, <2>1 DEF Life!TimerInv, Life!Overtaken, Life!LifeTypes
  <2>7. Life!ToldInv'
    BY <1>1, <2>1 DEF Life!ToldInv
  <2> QED  BY <1>4, <1>5, <2>2, <2>5, <2>6, <2>7, LifeFrom
<1> QED  BY <1>6, <1>7

\* close by the user.
LEMMA CloseKeeps ==
    ASSUME Life!LifeInv, Life!Close
    PROVE  Life!LifeInv'
<1> USE DEF Life!LifeInv
<1>1. /\ faults = {} /\ Life!HandlesInv /\ Life!TimerInv /\ Life!ToldInv
      /\ object = "alive" /\ closes' = closes + 1 /\ Life!TcpClose
      /\ disorder' = disorder \cup {"socket_closed"}
                          \cup (IF closes > 0 THEN {"closed_twice"} ELSE {})
                          \cup (IF tcp = "none" THEN {"close_before_connect"} ELSE {})
                          \cup (IF tcp \in {"closing", "aborting"} THEN {"closed_while_closing"} ELSE {})
      /\ UNCHANGED <<pingTimer_, running, bIsConnect, wire, answer, sent, delivered>>
  BY DEF Life!Close, Life!Polling, Life!peer
<1>2. closes' \in Nat /\ closes' > 0 /\ tcp # "deleted" /\ told \in Seq(Tellings)
  BY <1>1 DEF Life!LifeTypes, Tellings
<1>3. CASE tcp = "none"
  <2>1. faults' = {"uninitialized_handle"} /\ UNCHANGED <<object, tcp, closing, told>>
    BY <1>1, <1>3, TcpCloses
  <2>2. Life!LifeTypes'
    BY <1>1, <1>2, <2>1 DEF Life!LifeTypes
  <2>3. Life!StreamInv'
    BY <1>1, <2>1, StreamStays
  <2>4. Life!FaultInv'
    BY <1>1, <1>3, <2>1 DEF Life!FaultInv
  <2> QED  BY <2>1, <2>2, <2>3, <2>4, LifeFrom
<1>4. CASE tcp \in {"closing", "aborting"}
  <2>1. /\ faults' = {"socket_freed_in_use"} /\ object' = "deleted" /\ tcp' = "deleted"
        /\ told' = Append(told, "closed") /\ closing' = closing
    BY <1>1, <1>4, TcpCloses
  <2>2. told' \in Seq(Tellings) /\ told' # <<>> /\ (told # <<>> => told'[1] = told[1])
    BY <1>2, <2>1, ToldGrows DEF Tellings
  <2>3. Life!LifeTypes'
    BY <1>1, <1>2, <2>1, <2>2 DEF Life!LifeTypes, Tellings
  <2>4. Life!StreamInv'
    BY <1>1, <2>1, <2>2, StreamStays
  <2>5. Life!FaultInv'
    BY <1>1, <1>4, <2>1 DEF Life!FaultInv, Life!Overtaken
  <2> QED  BY <2>1, <2>3, <2>4, <2>5, LifeFrom
<1>5. CASE tcp \notin {"none", "closing", "aborting"}
  <2>1. /\ tcp' = (IF tcp = "connecting" THEN "aborting" ELSE "closing")
        /\ closing' = <<"tcp">> \o closing /\ object' = object /\ told' = told /\ faults' = {}
    BY <1>1, <1>5, TcpCloses
  <2>2. Life!LifeTypes'
    BY <1>1, <1>2, <2>1 DEF Life!LifeTypes
  <2>3. Life!StreamInv'
    BY <1>1, <2>1, StreamStays
  <2>4. Life!FaultInv'
    BY <2>1 DEF Life!FaultInv
  <2>5. Life!HandlesInv'
    BY <1>1, <1>5, <2>1, SocketHeld
  <2>6. Life!TimerInv'
    BY <1>1, <1>2, <1>5, <2>1 DEF Life!TimerInv, Life!Overtaken, Life!LifeTypes
  <2>7. Life!ToldInv'
    BY <1>1, <1>2, <1>5, <2>1 DEF Life!ToldInv
  <2> QED  BY <2>2, <2>3, <2>4, <2>5, <2>6, <2>7, LifeFrom
<1> QED  BY <1>3, <1>4, <1>5

\* The ping timer, and the end of an iteration.
LEMMA OnTimerAndEndPollKeep ==
    ASSUME Life!LifeInv, Life!OnTimer \/ Life!EndPoll
    PROVE  Life!LifeInv'
<1> USE DEF Life!LifeInv
<1>1. /\ faults = {} /\ Life!HandlesInv /\ Life!TimerInv /\ Life!ToldInv
      /\ UNCHANGED <<object, tcp, pingTimer_, bIsConnect, wire, answer, sent, closes, told,
                     delivered, disorder>>
  BY DEF Life!OnTimer, Life!EndPoll, Life!Polling, Life!peer, Life!handles
<1>2. Life!LifeTypes' /\ Life!StreamInv' /\ Life!TimerInv' /\ Life!ToldInv'
  BY <1>1 DEF Life!LifeTypes, Life!StreamInv, Life!TimerInv, Life!ToldInv
<1>3. CASE Life!OnTimer
  <2>1. /\ pingTimer_ = "active" /\ UNCHANGED <<closing, running>>
        /\ faults' = IF object = "deleted" THEN {"timer_after_delete"} ELSE {}
    BY <1>3 DEF Life!OnTimer, Life!handles
  <2>2. Life!FaultInv'
    BY <1>1, <2>1 DEF Life!FaultInv, Life!TimerInv, Life!LifeTypes
  <2>3. Life!HandlesInv'
    BY <1>1, <2>1 DEF Life!HandlesInv
  <2> QED  BY <1>2, <2>2, <2>3, LifeFrom
<1>4. CASE Life!EndPoll
  <2>1. running = <<>> /\ running' = closing /\ closing' = <<>> /\ faults' = {}
    BY <1>1, <1>4 DEF Life!EndPoll, Life!Polling
  <2>2. Life!FaultInv'
    BY <2>1 DEF Life!FaultInv
  <2>3. Life!HandlesInv'
    <3>1. \A h : ~Life!Holds(running, h) /\ ~Life!Holds(closing', h)
      BY <2>1, ListFacts
    <3>2. closing' \in Life!Lists
      BY <2>1 DEF Life!Lists
    <3> QED  BY <1>1, <2>1, <3>1, <3>2 DEF Life!HandlesInv
  <2> QED  BY <1>2, <2>2, <2>3, LifeFrom
<1> QED  BY <1>3, <1>4

\* The first of the list is called back, and is no longer held.
LEMMA RunFirst ==
    ASSUME Life!HandlesInv, running # <<>>, running' = Tail(running)
    PROVE  /\ Head(running) \in Handles /\ running' \in Life!Lists
           /\ Life!Holds(running, Head(running)) /\ ~Life!Holds(running', Head(running))
           /\ \A g \in Handles \ {Head(running)} : Life!Holds(running', g) <=> Life!Holds(running, g)
BY ListFacts DEF Life!HandlesInv

\* The socket's close callback.
LEMMA SocketClosedKeeps ==
    ASSUME Life!LifeInv, Life!SocketClosed
    PROVE  Life!LifeInv'
<1> USE DEF Life!LifeInv
<1>1. /\ faults = {} /\ faults' = {} /\ Life!HandlesInv /\ Life!TimerInv /\ Life!ToldInv
      /\ running # <<>> /\ Head(running) = "tcp" /\ running' = Tail(running)
      /\ object' = "deleted" /\ tcp' = "deleted"
      /\ told' = told \o (IF tcp = "aborting" THEN <<"refused">> ELSE <<>>) \o <<"closed">>
      /\ UNCHANGED <<pingTimer_, closing, bIsConnect, wire, answer, sent, closes, delivered, disorder>>
  BY DEF Life!SocketClosed, Life!peer
<1>2. /\ running' \in Life!Lists /\ Life!Holds(running, "tcp") /\ ~Life!Holds(running', "tcp")
      /\ Life!Holds(running', "timer") <=> Life!Holds(running, "timer")
  BY <1>1, RunFirst DEF Handles
<1>3. tcp \in {"aborting", "closing"} /\ told \in Seq(Tellings)
  BY <1>1, <1>2 DEF Life!HandlesInv, Life!LifeTypes, Tellings
<1>4. told' = IF tcp = "aborting" THEN <<"refused", "closed">> ELSE Append(told, "closed")
  <2>1. CASE tcp = "aborting"
    <3>1. told = <<>> /\ <<"refused">> \in Seq(Tellings)
      BY <1>1, <2>1 DEF Life!ToldInv, Tellings
    <3>2. told \o <<"refused">> = <<"refused">>
      BY <3>1, WithNothing
    <3>3. "refused" \in Tellings /\ "closed" \in Tellings
      BY DEF Tellings
    <3> QED  BY <1>1, <2>1, <3>2, <3>3, OneAndOne
  <2>2. CASE tcp # "aborting"
    <3>1. told \o <<>> = told /\ told \o <<"closed">> = Append(told, "closed")
      BY <1>3, WithNothing
    <3> QED  BY <1>1, <2>2, <3>1
  <2> QED  BY <2>1, <2>2
<1>5. told' \in Seq(Tellings) /\ told' # <<>> /\ (told # <<>> => told'[1] = told[1])
  <2>1. CASE tcp = "aborting"
    BY <1>1, <1>4, <2>1 DEF Life!ToldInv, Tellings
  <2>2. CASE tcp # "aborting"
    BY <1>3, <1>4, <2>2, ToldGrows DEF Tellings
  <2> QED  BY <2>1, <2>2
<1>6. Life!LifeTypes'
  BY <1>1, <1>5 DEF Life!LifeTypes, Tellings
<1>7. Life!StreamInv'
  BY <1>1, <1>5, StreamStays
<1>8. Life!FaultInv'
  BY <1>1 DEF Life!FaultInv
<1>9. Life!HandlesInv'
  BY <1>1, <1>2, <1>3 DEF Life!HandlesInv
<1>10. Life!TimerInv'
  BY <1>1, <1>3 DEF Life!TimerInv
<1>11. Life!ToldInv'
  <2> SUFFICES ASSUME "data_while_closing" \notin disorder'
               PROVE  told' \in {<<"closed">>, <<"connected", "closed">>, <<"refused", "closed">>}
    BY <1>1 DEF Life!ToldInv
  <2>1. told \in {<<>>, <<"connected">>, <<"refused">>}
    BY <1>1, <1>3 DEF Life!ToldInv
  <2>2. /\ "connected" \in Tellings /\ "refused" \in Tellings /\ "closed" \in Tellings
        /\ Append(<<>>, "closed") = <<"closed">>
    BY DEF Tellings
  <2>3. /\ Append(<<"connected">>, "closed") = <<"connected", "closed">>
        /\ Append(<<"refused">>, "closed") = <<"refused", "closed">>
    BY <2>2, OneAndOne
  <2> QED  BY <1>4, <2>1, <2>2, <2>3
<1> QED  BY <1>6, <1>7, <1>8, <1>9, <1>10, <1>11, LifeFrom

\* The timer's close callback closes the socket.
LEMMA TimerClosedKeeps ==
    ASSUME Life!LifeInv, Life!TimerClosed
    PROVE  Life!LifeInv'
<1> USE DEF Life!LifeInv
<1>1. /\ faults = {} /\ Life!HandlesInv /\ Life!TimerInv /\ Life!ToldInv
      /\ running # <<>> /\ Head(running) = "timer" /\ running' = Tail(running)
      /\ pingTimer_' = "deleted"
      /\ UNCHANGED <<bIsConnect, wire, answer, sent, closes, delivered, disorder>>
  BY DEF Life!TimerClosed, Life!peer
<1>2. /\ running' \in Life!Lists /\ Life!Holds(running, "timer") /\ ~Life!Holds(running', "timer")
      /\ Life!Holds(running', "tcp") <=> Life!Holds(running, "tcp")
  BY <1>1, RunFirst DEF Handles
<1>3. pingTimer_ = "closing" /\ told \in Seq(Tellings)
  BY <1>1, <1>2 DEF Life!HandlesInv, Life!LifeTypes, Tellings
<1>4. CASE tcp = "deleted"
  <2>1. faults' = {"closed_after_delete"} /\ UNCHANGED <<object, tcp, closing, told>>
    BY <1>1, <1>4 DEF Life!TimerClosed, Life!LifeTypes
  <2>2. Life!LifeTypes'
    BY <1>1, <2>1 DEF Life!LifeTypes
  <2>3. Life!StreamInv'
    BY <1>1, <2>1, StreamStays
  <2>4. Life!FaultInv'
    BY <1>1, <1>3, <1>4, <2>1 DEF Life!FaultInv, Life!TimerInv
  <2> QED  BY <2>1, <2>2, <2>3, <2>4, LifeFrom
<1>5. CASE tcp # "deleted"
  <2>1. Life!TcpClose
    BY <1>5 DEF Life!TimerClosed, Life!LifeTypes
  <2>2. CASE tcp = "none"
    <3>1. faults' = {"uninitialized_handle"} /\ UNCHANGED <<object, tcp, closing, told>>
      BY <1>1, <2>1, <2>2, TcpCloses
    <3>2. Life!LifeTypes'
      BY <1>1, <3>1 DEF Life!LifeTypes
    <3>3. Life!StreamInv'
      BY <1>1, <3>1, StreamStays
    <3>4. Life!FaultInv'
      BY <1>1, <1>3, <2>2, <3>1 DEF Life!FaultInv, Life!TimerInv
    <3> QED  BY <3>1, <3>2, <3>3, <3>4, LifeFrom
  <2>3. CASE tcp \in {"closing", "aborting"}
    <3>1. /\ faults' = {"socket_freed_in_use"} /\ object' = "deleted" /\ tcp' = "deleted"
          /\ told' = Append(told, "closed") /\ closing' = closing
      BY <1>1, <2>1, <2>3, TcpCloses
    <3>2. told' \in Seq(Tellings) /\ told' # <<>> /\ (told # <<>> => told'[1] = told[1])
      BY <1>3, <3>1, ToldGrows DEF Tellings
    <3>3. Life!LifeTypes'
      BY <1>1, <3>1, <3>2 DEF Life!LifeTypes, Tellings
    <3>4. Life!StreamInv'
      BY <1>1, <3>1, <3>2, StreamStays
    <3>5. Life!FaultInv'
      BY <1>1, <1>3, <2>3, <3>1 DEF Life!FaultInv, Life!TimerInv
    <3> QED  BY <3>1, <3>3, <3>4, <3>5, LifeFrom
  <2>4. CASE tcp \notin {"none", "closing", "aborting"}
    <3>1. /\ tcp' = (IF tcp = "connecting" THEN "aborting" ELSE "closing")
          /\ closing' = <<"tcp">> \o closing /\ object' = object /\ told' = told /\ faults' = {}
      BY <1>1, <2>1, <2>4, TcpCloses
    <3>2. Life!LifeTypes'
      BY <1>1, <1>5, <3>1 DEF Life!LifeTypes
    <3>3. Life!StreamInv'
      BY <1>1, <3>1, StreamStays
    <3>4. Life!FaultInv'
      BY <3>1 DEF Life!FaultInv
    <3>5. /\ closing \in Life!Lists /\ ~Life!Holds(closing, "tcp") /\ ~Life!Holds(running, "tcp")
          /\ ~Life!Holds(closing, "timer")
      BY <1>1, <1>2, <2>4 DEF Life!HandlesInv
    <3>6. /\ closing' \in Life!Lists /\ Life!Holds(closing', "tcp")
          /\ Life!Holds(closing', "timer") <=> Life!Holds(closing, "timer")
      BY <3>1, <3>5, ListFacts DEF Handles
    <3>7. Life!HandlesInv'
      BY <1>1, <1>2, <3>1, <3>5, <3>6 DEF Life!HandlesInv
    <3>8. Life!TimerInv'
      BY <1>1, <1>3, <1>5, <2>4, <3>1 DEF Life!TimerInv
    <3>9. Life!ToldInv'
      BY <1>1, <1>5, <2>4, <3>1 DEF Life!ToldInv
    <3> QED  BY <3>2, <3>3, <3>4, <3>7, <3>8, <3>9, LifeFrom
  <2> QED  BY <2>2, <2>3, <2>4
<1> QED  BY <1>4, <1>5

\* Places in the stream counted from the front and from the back.
LEMMA Places ==
    ASSUME NEW s \in Nat, NEW l \in Nat, NEW n \in 1..l, NEW i \in 1..(l - n)
    PROVE  s + 2 - (l - n) + i = s + 2 - l + (i + n) /\ i + n \in 1..l
OBVIOUS

\* What is left of the stream is its end.
LEMMA EndOfStream ==
    ASSUME Life!LifeTypes, Life!StreamInv, NEW n \in 1..Len(wire),
           wire' = SubSeq(wire, n + 1, Len(wire)), sent' = sent
    PROVE  /\ wire' \in Seq(Nat) /\ Len(wire') = Len(wire) - n /\ Len(wire') \in Nat
           /\ sent' \in Nat /\ Len(wire') <= sent' + 2
           /\ \A i \in DOMAIN wire' : wire'[i] = Life!Token(sent' + 2 - Len(wire') + i)
<1>1. wire \in Seq(Nat) /\ Len(wire) \in Nat /\ sent \in Nat /\ Len(wire) <= sent + 2
  BY LifeBounds DEF Life!LifeTypes, Life!StreamInv
<1>2. /\ wire' \in Seq(Nat) /\ Len(wire') = Len(wire) - n /\ DOMAIN wire' = 1..(Len(wire) - n)
      /\ \A i \in 1..(Len(wire) - n) : wire'[i] = wire[i + n]
  BY <1>1, WireCut
<1>3. ASSUME NEW i \in 1..(Len(wire) - n)
      PROVE  wire'[i] = Life!Token(sent' + 2 - Len(wire') + i)
  <2>1. /\ sent + 2 - (Len(wire) - n) + i = sent + 2 - Len(wire) + (i + n)
        /\ i + n \in 1..Len(wire)
    BY <1>1, Places
  <2>2. i + n \in DOMAIN wire
    BY <1>1, <2>1
  <2>3. wire[i + n] = Life!Token(sent + 2 - Len(wire) + (i + n))
    BY <2>2 DEF Life!StreamInv
  <2>4. wire'[i] = wire[i + n] /\ Len(wire') = Len(wire) - n
    BY <1>2
  <2>5. sent' + 2 - Len(wire') + i = sent + 2 - Len(wire) + (i + n)
    BY <2>1, <2>4
  <2> QED  BY <2>3, <2>4, <2>5
<1>4. /\ Len(wire) - n \in Nat /\ Len(wire) - n <= sent + 2
  BY <1>1
<1>5. sent' = sent /\ Len(wire') = Len(wire) - n
  BY <1>2
<1> QED  BY <1>1, <1>2, <1>3, <1>4, <1>5

\* A segment that a client accepts holds the whole response, and nothing of the
\* stream has been taken before it.
LEMMA AcceptsWhole ==
    ASSUME Life!LifeTypes, Life!StreamInv, NEW n \in 1..Len(wire),
           Life!Accepts(SubSeq(wire, 1, n))
    PROVE  answer = "accept" /\ n >= 2 /\ Len(wire) = sent + 2
<1>1. /\ wire \in Seq(Nat) /\ Len(wire) \in Nat /\ sent \in Nat /\ Len(wire) <= sent + 2
      /\ sent <= MaxFrames /\ MaxFrames \in Nat
  BY LifeBounds DEF Life!LifeTypes, Life!StreamInv
<1>2. /\ SubSeq(wire, 1, n) \in Seq(Nat) /\ DOMAIN SubSeq(wire, 1, n) = 1..n
      /\ \A i \in 1..n : SubSeq(wire, 1, n)[i] = wire[i]
  BY <1>1, WireCut
<1>3. PICK i \in 1..n, j \in 1..n : wire[i] = 0 /\ wire[j] = MaxFrames + 1
  BY <1>2 DEF Life!Accepts, Life!Head1, Life!Tail1
<1>4. /\ wire[i] = Life!Token(sent + 2 - Len(wire) + i)
      /\ wire[j] = Life!Token(sent + 2 - Len(wire) + j)
  BY <1>1 DEF Life!StreamInv
<1>5. sent + 2 - Len(wire) + i = 1
  BY SMTT(40), <1>1, <1>3, <1>4 DEF Life!Token, Life!Head1, Life!Tail1
<1>6. sent + 2 - Len(wire) + j = 2
  BY <1>1, <1>3, <1>4 DEF Life!Token, Life!Head1, Life!Tail1
<1> QED  BY <1>1, <1>5, <1>6 DEF Life!Accepts

\* A segment before the client is connected.
LEMMA OnHandshakeKeeps ==
    ASSUME Life!LifeInv, NEW n, Life!OnHandshake(n)
    PROVE  Life!LifeInv'
<1> USE DEF Life!LifeInv
<1> DEFINE accepts == Life!Accepts(SubSeq(wire, 1, n))
<1>1. /\ faults = {} /\ faults' = {} /\ Life!HandlesInv /\ Life!TimerInv /\ Life!ToldInv
      /\ tcp = "open" /\ ~bIsConnect /\ n \in 1..Len(wire)
      /\ wire' = SubSeq(wire, n + 1, Len(wire))
      /\ disorder' = disorder
           \cup (IF pingTimer_ = "closing" THEN {"data_while_closing"} ELSE {})
           \cup (IF answer = "refuse" THEN {"refused"} ELSE {})
           \cup (IF answer = "accept" /\ n < 2 THEN {"response_cut"} ELSE {})
           \cup (IF accepts /\ n > 2 THEN {"frame_with_response"} ELSE {})
      /\ UNCHANGED <<object, running, answer, sent, closes, delivered>>
  BY DEF Life!OnHandshake, Life!Polling
<1>2. /\ wire' \in Seq(Nat) /\ Len(wire') = Len(wire) - n /\ Len(wire') \in Nat
      /\ sent' \in Nat /\ Len(wire') <= sent' + 2
      /\ \A i \in DOMAIN wire' : wire'[i] = Life!Token(sent' + 2 - Len(wire') + i)
  BY <1>1, EndOfStream
<1>3. /\ answer # "none" /\ told \in Seq(Tellings) /\ delivered \in Seq(Nat)
      /\ pingTimer_ \in {"idle", "closing"} /\ Len(wire) \in Nat
  BY <1>1 DEF Life!StreamInv, Life!LifeTypes, Life!TimerInv, Tellings
<1>4. Life!FaultInv'
  BY <1>1 DEF Life!FaultInv
<1>5. CASE accepts
  <2>1. answer = "accept" /\ n >= 2 /\ Len(wire) = sent + 2
    BY <1>1, <1>5, AcceptsWhole
  <2>2. told = <<>>
    BY <1>1, <1>2, <1>3, <2>1 DEF Life!StreamInv
  <2>3. /\ bIsConnect' = TRUE /\ tcp' = tcp /\ closing' = closing
        /\ pingTimer_' = IF pingTimer_ = "idle" THEN "active" ELSE pingTimer_
        /\ told' = Append(told, "connected")
    BY <1>5 DEF Life!OnHandshake
  <2>4. told' = <<"connected">> /\ told' \in Seq(Tellings)
    BY <1>3, <2>2, <2>3, ToldGrows DEF Tellings
  <2>5. delivered = <<>>
    BY <2>2 DEF Life!StreamInv
  <2>6. Life!LifeTypes'
    BY <1>1, <1>2, <2>3, <2>4 DEF Life!LifeTypes, Tellings
  <2>7. Len(wire') <= sent' /\ (disorder' = {} => Len(delivered') + Len(wire') = sent')
    BY SMTT(40), <1>1, <1>2, <1>5, <2>1, <2>5
  <2>8. told'[1] = "connected" /\ told' # <<>>
    BY <2>4
  <2>9. Life!StreamInv'
    BY <1>1, <1>2, <1>3, <2>1, <2>3, <2>5, <2>7, <2>8 DEF Life!StreamInv
  <2>10. Life!HandlesInv' /\ Life!TimerInv'
    BY <1>1, <1>3, <2>3 DEF Life!HandlesInv, Life!TimerInv
  <2>11. Life!ToldInv'
    BY <1>1, <2>3, <2>4 DEF Life!ToldInv
  <2> QED  BY <1>4, <2>6, <2>9, <2>10, <2>11, LifeFrom
<1>6. CASE ~accepts
  <2>1. /\ tcp' = "closing" /\ closing' = <<"tcp">> \o closing /\ told' = Append(told, "refused")
        /\ bIsConnect' = bIsConnect /\ pingTimer_' = pingTimer_
    BY <1>6 DEF Life!OnHandshake
  <2>2. /\ told' \in Seq(Tellings) /\ told' # <<>> /\ (told # <<>> => told'[1] = told[1])
        /\ told = <<>> => told' = <<"refused">>
    BY <1>3, <2>1, ToldGrows DEF Tellings
  <2>3. Life!LifeTypes'
    BY <1>1, <1>2, <2>1, <2>2 DEF Life!LifeTypes, Tellings
  <2>4. Life!StreamInv'
    BY <1>1, <1>2, <1>3, <2>1, <2>2 DEF Life!StreamInv
  <2>5. Life!HandlesInv'
    BY <1>1, <2>1, SocketHeld
  <2>6. Life!TimerInv'
    BY <1>1, <1>3, <2>1 DEF Life!TimerInv, Life!Overtaken
  <2>7. Life!ToldInv'
    <3> SUFFICES ASSUME "data_while_closing" \notin disorder'
                 PROVE  told' \in {<<>>, <<"connected">>, <<"refused">>}
      BY <2>1 DEF Life!ToldInv
    <3>1. told = <<>>
      BY <1>1, <1>3 DEF Life!ToldInv
    <3> QED  BY <2>2, <3>1
  <2> QED  BY <1>4, <2>3, <2>4, <2>5, <2>6, <2>7, LifeFrom
<1> QED  BY <1>5, <1>6

\* Frames.
LEMMA OnFramesKeeps ==
    ASSUME Life!LifeInv, NEW n, Life!OnFrames(n)
    PROVE  Life!LifeInv'
<1> USE DEF Life!LifeInv
<1>1. /\ faults = {} /\ faults' = {} /\ Life!HandlesInv /\ Life!TimerInv /\ Life!ToldInv
      /\ tcp = "open" /\ bIsConnect /\ n \in 1..Len(wire)
      /\ wire' = SubSeq(wire, n + 1, Len(wire))
      /\ delivered' = delivered \o SubSeq(wire, 1, n)
      /\ UNCHANGED <<object, tcp, pingTimer_, closing, running, bIsConnect, answer, sent, closes,
                     told, disorder>>
  BY DEF Life!OnFrames, Life!Polling, Life!handles
<1>2. /\ wire' \in Seq(Nat) /\ Len(wire') = Len(wire) - n /\ Len(wire') \in Nat
      /\ sent' \in Nat /\ Len(wire') <= sent' + 2
      /\ \A i \in DOMAIN wire' : wire'[i] = Life!Token(sent' + 2 - Len(wire') + i)
  BY <1>1, EndOfStream
<1>3. /\ Len(wire) \in Nat /\ Len(wire) <= sent /\ sent \in Nat /\ n \in Nat /\ n >= 1
      /\ delivered \in Seq(Nat) /\ Len(delivered) \in Nat /\ wire \in Seq(Nat)
  <2>1. Len(wire) <= sent
    BY <1>1 DEF Life!StreamInv
  <2>2. sent \in Nat /\ delivered \in Seq(Nat) /\ wire \in Seq(Nat)
    BY LifeBounds DEF Life!LifeTypes
  <2>3. Len(wire) \in Nat /\ Len(delivered) \in Nat
    BY <2>2
  <2>4. n \in Nat /\ n >= 1
    BY <1>1, <2>3
  <2> QED  BY <2>1, <2>2, <2>3, <2>4
<1>4. /\ SubSeq(wire, 1, n) \in Seq(Nat) /\ Len(SubSeq(wire, 1, n)) = n
      /\ \A i \in 1..n : SubSeq(wire, 1, n)[i] = wire[i]
  BY <1>1, <1>3, WireCut
\* Frame by frame: what was on its way were the frames up to sent.
<1>5. \A i \in 1..n : wire[i] = sent - Len(wire) + i
  <2> SUFFICES ASSUME NEW i \in 1..n PROVE wire[i] = sent - Len(wire) + i
    OBVIOUS
  <2>1. i \in DOMAIN wire
    BY <1>1, <1>3
  <2>2. wire[i] = Life!Token(sent + 2 - Len(wire) + i)
    BY <2>1 DEF Life!StreamInv
  <2>3. sent + 2 - Len(wire) + i > 2
    BY <1>3
  <2> QED  BY <1>3, <2>2, <2>3 DEF Life!Token
<1> DEFINE D == Len(delivered)
<1>6. /\ delivered' \in Seq(Nat) /\ Len(delivered') = D + n
      /\ \A i \in 1..D : delivered'[i] = delivered[i]
      /\ \A i \in (D + 1)..(D + n) : delivered'[i] = sent - Len(wire) + (i - D)
  <2>1. /\ delivered' \in Seq(Nat) /\ Len(delivered') = D + n
        /\ \A i \in 1..D : delivered'[i] = delivered[i]
        /\ \A i \in (D + 1)..(D + n) : delivered'[i] = SubSeq(wire, 1, n)[i - D]
    BY <1>1, <1>3, <1>4
  <2>2. \A i \in (D + 1)..(D + n) : i - D \in 1..n
    BY <1>3
  <2> QED  BY <1>4, <1>5, <2>1, <2>2
<1>7. \A i \in 2..Len(delivered') : delivered'[i] = delivered'[i - 1] + 1
  <2> SUFFICES ASSUME NEW i \in 2..(D + n) PROVE delivered'[i] = delivered'[i - 1] + 1
    BY <1>6
  <2>1. CASE i <= D
    <3>1. i \in 2..D /\ i \in 1..D /\ i - 1 \in 1..D
      BY <1>3, <2>1
    <3>2. delivered[i] = delivered[i - 1] + 1
      BY <3>1 DEF Life!StreamInv
    <3> QED  BY <1>6, <3>1, <3>2
  <2>2. CASE i = D + 1
    <3>1. i - 1 = D /\ D \in 1..D /\ i \in (D + 1)..(D + n) /\ delivered # <<>>
      BY <1>3, <2>2
    <3>2. delivered[D] = sent - Len(wire)
      BY <1>1, <3>1 DEF Life!StreamInv
    <3>3. delivered'[D] = sent - Len(wire)
      BY <1>6, <3>1, <3>2
    <3>4. delivered'[i] = sent - Len(wire) + (i - D)
      BY <1>6, <3>1
    <3>5. sent - Len(wire) + (i - D) = (sent - Len(wire)) + 1
      BY <1>3, <2>2
    <3> QED  BY <3>1, <3>3, <3>4, <3>5
  <2>3. CASE i > D + 1
    <3>1. i \in (D + 1)..(D + n) /\ i - 1 \in (D + 1)..(D + n)
      BY <1>3, <2>3
    <3>2. /\ delivered'[i] = sent - Len(wire) + (i - D)
          /\ delivered'[i - 1] = sent - Len(wire) + ((i - 1) - D)
      BY <1>6, <3>1
    <3> QED  BY <1>3, <3>2
  <2> QED  BY <1>3, <2>1, <2>2, <2>3
<1>8. delivered'[Len(delivered')] = sent' - Len(wire')
  <2>1. D + n \in (D + 1)..(D + n)
    BY <1>3
  <2>2. delivered'[D + n] = sent - Len(wire) + ((D + n) - D)
    BY <1>6, <2>1
  <2>3. sent - Len(wire) + ((D + n) - D) = sent - (Len(wire) - n)
    BY <1>3
  <2>4. sent' - Len(wire') = sent - (Len(wire) - n)
    BY <1>1, <1>2
  <2> QED  BY <1>6, <2>2, <2>3, <2>4
<1>9. Life!LifeTypes'
  BY <1>1, <1>2, <1>6 DEF Life!LifeTypes
<1>10. Life!StreamInv'
  <2>1. Len(wire') <= sent'
    BY <1>1, <1>2, <1>3
  <2>4. answer # "none"
    BY <1>1 DEF Life!StreamInv
  <2>2. disorder' = {} => Len(delivered') + Len(wire') = sent'
    <3>1. disorder = {} => D + Len(wire) = sent
      BY <1>1 DEF Life!StreamInv
    <3>2. disorder' = disorder /\ sent' = sent /\ Len(wire') = Len(wire) - n
          /\ Len(delivered') = D + n
      BY <1>1, <1>2, <1>6
    <3>3. (D + n) + (Len(wire) - n) = D + Len(wire)
      BY <1>3
    <3> QED  BY <3>1, <3>2, <3>3
  <2>3. told' # <<>> /\ told'[1] = "connected" /\ answer' = "accept"
    BY <1>1 DEF Life!StreamInv
  <2> QED  BY <1>1, <1>2, <1>7, <1>8, <2>1, <2>4, <2>2, <2>3 DEF Life!StreamInv
<1>11. Life!FaultInv' /\ Life!HandlesInv' /\ Life!TimerInv' /\ Life!ToldInv'
  BY <1>1 DEF Life!FaultInv, Life!HandlesInv, Life!TimerInv, Life!ToldInv
<1> QED  BY <1>9, <1>10, <1>11, LifeFrom

\* Every step of a client's life.
LEMMA LifeStep == Life!LifeInv /\ [Life!Next]_life => Life!LifeInv'
<1> SUFFICES ASSUME Life!LifeInv, [Life!Next]_life PROVE Life!LifeInv'
  OBVIOUS
<1>1. CASE Life!Next
  BY <1>1, ConnectKeeps, ServerSendsKeeps, OnHandshakeKeeps, OnFramesKeeps, OnEofKeeps, CloseWsKeeps,
     CloseKeeps, OnTimerAndEndPollKeep, TimerClosedKeeps, SocketClosedKeeps DEF Life!Next
<1>2. CASE UNCHANGED life
  BY <1>2 DEF life, Life!LifeInv, Life!LifeTypes, Life!HandlesInv, Life!TimerInv, Life!ToldInv,
     Life!StreamInv, Life!FaultInv
<1> QED  BY <1>1, <1>2

\* What the invariant says of a client.
LEMMA LifeInvSays == Life!LifeInv => ClientIsSafe
<1> SUFFICES ASSUME Life!LifeInv PROVE ClientIsSafe
  OBVIOUS
<1> USE DEF Life!LifeInv
<1>1. Life!OrderlyCloseIsSafe
  BY DEF Life!OrderlyCloseIsSafe, Life!FaultInv, Life!Overtaken
<1>2. Life!FaultsHaveTheirCause
  BY DEF Life!FaultsHaveTheirCause, Life!FaultInv, Life!Overtaken
<1>3. Life!ToldOnce
  <2> SUFFICES ASSUME faults = {}, "data_while_closing" \notin disorder
               PROVE  /\ \A i, j \in DOMAIN told :
                            told[i] \in {"connected", "refused"} /\ i < j => told[j] = "closed"
                      /\ \A i \in DOMAIN told :
                            told[i] = "closed" <=> i = Len(told) /\ object = "deleted"
    BY DEF Life!ToldOnce
  <2>1. CASE tcp = "deleted"
    <3>1. told \in {<<"closed">>, <<"connected", "closed">>, <<"refused", "closed">>}
          /\ object = "deleted"
      BY <2>1 DEF Life!ToldInv, Life!LifeTypes
    <3>2. CASE told = <<"closed">>
      BY <3>1, <3>2
    <3>3. CASE \E t \in {"connected", "refused"} : told = <<t, "closed">>
      <4>1. PICK t \in {"connected", "refused"} : told = <<t, "closed">>
        BY <3>3
      <4>2. DOMAIN told = 1..2 /\ Len(told) = 2 /\ told[1] = t /\ told[2] = "closed"
        BY <4>1
      <4>3. \A i \in 1..2 : i = 1 \/ i = 2
        OBVIOUS
      <4> QED  BY <3>1, <4>2, <4>3
    <3> QED  BY <3>1, <3>2, <3>3
  <2>2. CASE tcp # "deleted"
    <3>1. told \in {<<>>, <<"connected">>, <<"refused">>} /\ object = "alive"
      BY <2>2 DEF Life!ToldInv, Life!LifeTypes
    <3>2. CASE told = <<>>
      BY <3>2
    <3>3. CASE \E t \in {"connected", "refused"} : told = <<t>>
      <4>1. PICK t \in {"connected", "refused"} : told = <<t>>
        BY <3>3
      <4>2. DOMAIN told = 1..1 /\ told[1] = t
        BY <4>1
      <4>3. \A i \in 1..1 : i = 1
        OBVIOUS
      <4> QED  BY <3>1, <4>2, <4>3
    <3> QED  BY <3>1, <3>2, <3>3
  <2> QED  BY <2>1, <2>2
<1>4. Life!FramesAfterResponse
  <2>1. wire = <<>> => Len(wire) = 0
    OBVIOUS
  <2>2. Len(delivered) \in Nat
    BY DEF Life!LifeTypes
  <2> QED  BY <2>1, <2>2 DEF Life!FramesAfterResponse, Life!StreamInv
<1> QED  BY <1>1, <1>2, <1>3, <1>4 DEF ClientIsSafe

\* In every behaviour of a WebSocketClient, whatever its peer sends, however
\* often its user closes it and however many frames come (NetCore.cc): one
\* closeWs is safe, each fault has its cause, the user is told once how the
\* connection went and once of its end, and frames come after the response, in
\* order.
THEOREM ClientLivesSafely == MCSpec => []ClientIsSafe
<1>1. MCInit => Life!LifeInv
  BY LifeInit DEF MCInit
<1>2. Life!LifeInv /\ [MCNext]_all => Life!LifeInv'
  <2>1. [MCNext]_all => [Life!Next]_life
    BY DEF MCNext, Ended, all
  <2> QED  BY <2>1, LifeStep
<1>3. MCSpec => MCInit /\ [][MCNext]_all
  BY DEF MCSpec
<1>4. Life!LifeInv => ClientIsSafe
  BY LifeInvSays
<1> QED  BY <1>1, <1>2, <1>3, <1>4, PTL

-----------------------------------------------------------------------------
(* HandshakeCodec *)

\* The sizes as numbers.
LEMMA Sizes ==
    /\ Block \in Nat /\ KeySize \in Nat /\ DigestSize \in Nat
    /\ KeySize >= 1 /\ DigestSize >= 1
    /\ Block > KeySize + 4 /\ Block > DigestSize + 4
BY HandshakeAssumption DEF Handshake!SizesAssumption

\* An offset field is four bytes, and the offset it stands for leaves room for
\* the key or the digest and, behind it, at least one byte.
LEMMA OffsetFacts ==
    ASSUME NEW o \in Offsets
    PROVE  /\ o \in Seq(Nat) /\ Len(o) = 4
           /\ Handshake!KeyOffset(o) \in Nat /\ Handshake!KeyOffset(o) < Block - KeySize - 4
           /\ Handshake!DigestOffset(o) \in Nat
           /\ Handshake!DigestOffset(o) < Block - DigestSize - 4
<1>1. o \in [1..4 -> 0..255]
  BY HandshakeAssumption DEF Handshake!OffsetsAssumption
<1>2. o \in Seq(Nat) /\ Len(o) = 4
  <2>1. /\ o = [i \in 1..4 |-> o[i]]
        /\ \A i \in 1..4 : o[i] \in 0..255
    BY <1>1
  <2>2. \A i \in 1..4 : o[i] \in Nat
    BY <2>1
  <2>3. [i \in 1..4 |-> o[i]] \in Seq(Nat) /\ Len([i \in 1..4 |-> o[i]]) = 4
    BY <2>2
  <2> QED  BY <2>1, <2>3
<1>3. Handshake!Sum4(o) \in Nat
  <2>1. 1 \in 1..4 /\ 2 \in 1..4 /\ 3 \in 1..4 /\ 4 \in 1..4
    OBVIOUS
  <2>2. o[1] \in Nat /\ o[2] \in Nat /\ o[3] \in Nat /\ o[4] \in Nat
    BY <1>1, <2>1
  <2> QED  BY <2>2 DEF Handshake!Sum4
<1>4. \A s \in Nat, m \in Nat : m > 0 => s % m \in Nat /\ s % m < m
  OBVIOUS
<1>5. Block - KeySize - 4 \in Nat /\ Block - KeySize - 4 > 0
  BY Sizes
<1>6. Block - DigestSize - 4 \in Nat /\ Block - DigestSize - 4 > 0
  BY Sizes
<1> QED  BY <1>2, <1>3, <1>4, <1>5, <1>6 DEF Handshake!KeyOffset, Handshake!DigestOffset

\* Bytes with a name are n numbers.
LEMMA BytesAre ==
    ASSUME NEW owner \in {"client", "server", "s2"}, NEW part \in Nat, NEW size \in Nat
    PROVE  /\ Handshake!Bytes(owner, part, size) \in Seq(Nat)
           /\ Len(Handshake!Bytes(owner, part, size)) = size
           /\ \A i \in 1..size : Handshake!Bytes(owner, part, size)[i] = Handshake!Owners[owner] + part + i
<1>1. Handshake!Owners[owner] \in Nat
  BY DEF Handshake!Owners
<1>2. \A i \in 1..size : Handshake!Owners[owner] + part + i \in Nat
  BY <1>1
<1> QED  BY <1>2 DEF Handshake!Bytes

\* What a part of a sequence is, element by element.
LEMMA Cut ==
    ASSUME NEW s1 \in Seq(Nat), NEW at \in Nat, NEW size \in Nat, at + size <= Len(s1)
    PROVE  /\ SubSeq(s1, at + 1, at + size) \in Seq(Nat)
           /\ Len(SubSeq(s1, at + 1, at + size)) = size
           /\ \A i \in 1..size : SubSeq(s1, at + 1, at + size)[i] = s1[at + i]
<1>1. Len(s1) \in Nat
  OBVIOUS
<1> QED  BY <1>1

\* What a slice is, element by element.
LEMMA SliceIs ==
    ASSUME NEW x \in Seq(Nat), NEW b \in Seq(Nat), NEW at \in Nat, at + Len(b) <= Len(x),
           \A i \in 1..Len(b) : x[at + i] = b[i]
    PROVE  Handshake!Slice(x, at, Len(b)) = b
<1>1. Len(b) \in Nat /\ Len(x) \in Nat
  OBVIOUS
<1>2. /\ SubSeq(x, at + 1, at + Len(b)) \in Seq(Nat)
      /\ Len(SubSeq(x, at + 1, at + Len(b))) = Len(b)
      /\ \A i \in 1..Len(b) : SubSeq(x, at + 1, at + Len(b))[i] = x[at + i]
  BY <1>1, Cut
<1> QED  BY <1>2, SameSequence DEF Handshake!Slice

\* The pieces a key or digest block is cut into, where they lie.
LEMMA FourParts ==
    ASSUME NEW s1 \in Seq(Nat), NEW s2 \in Seq(Nat), NEW s3 \in Seq(Nat), NEW s4 \in Seq(Nat)
    PROVE  LET x == s1 \o s2 \o s3 \o s4
           IN  /\ x \in Seq(Nat) /\ Len(x) = Len(s1) + Len(s2) + Len(s3) + Len(s4)
               /\ Handshake!Slice(x, 0, Len(s1)) = s1
               /\ Handshake!Slice(x, Len(s1), Len(s2)) = s2
               /\ Handshake!Slice(x, Len(s1) + Len(s2), Len(s3)) = s3
               /\ Handshake!Slice(x, Len(s1) + Len(s2) + Len(s3), Len(s4)) = s4
<1> DEFINE x == s1 \o s2 \o s3 \o s4
<1>0. Len(s1) \in Nat /\ Len(s2) \in Nat /\ Len(s3) \in Nat /\ Len(s4) \in Nat
  OBVIOUS
<1>1. /\ s1 \o s2 \in Seq(Nat) /\ Len(s1 \o s2) = Len(s1) + Len(s2)
      /\ \A i \in 1..Len(s1) : (s1 \o s2)[i] = s1[i]
      /\ \A i \in 1..Len(s2) : (s1 \o s2)[Len(s1) + i] = s2[i]
  OBVIOUS
<1>2. /\ (s1 \o s2) \o s3 \in Seq(Nat) /\ Len((s1 \o s2) \o s3) = Len(s1) + Len(s2) + Len(s3)
      /\ \A i \in 1..Len(s1) : ((s1 \o s2) \o s3)[i] = s1[i]
      /\ \A i \in 1..Len(s2) : ((s1 \o s2) \o s3)[Len(s1) + i] = s2[i]
      /\ \A i \in 1..Len(s3) : ((s1 \o s2) \o s3)[Len(s1) + Len(s2) + i] = s3[i]
  <2> DEFINE y == s1 \o s2
  <2>1. /\ y \o s3 \in Seq(Nat) /\ Len(y \o s3) = Len(y) + Len(s3)
        /\ \A i \in 1..Len(y) : (y \o s3)[i] = y[i]
        /\ \A i \in 1..Len(s3) : (y \o s3)[Len(y) + i] = s3[i]
    BY <1>1
  <2> HIDE DEF y
  <2> QED  BY <1>0, <1>1, <2>1 DEF y
<1>3. /\ x \in Seq(Nat) /\ Len(x) = Len(s1) + Len(s2) + Len(s3) + Len(s4)
      /\ \A i \in 1..Len(s1) : x[i] = s1[i]
      /\ \A i \in 1..Len(s2) : x[Len(s1) + i] = s2[i]
      /\ \A i \in 1..Len(s3) : x[Len(s1) + Len(s2) + i] = s3[i]
      /\ \A i \in 1..Len(s4) : x[Len(s1) + Len(s2) + Len(s3) + i] = s4[i]
  <2> DEFINE y == s1 \o s2 \o s3
  <2>0. y \in Seq(Nat)
    BY <1>2
  <2> HIDE DEF y
  <2>1. /\ y \o s4 \in Seq(Nat) /\ Len(y \o s4) = Len(y) + Len(s4)
        /\ \A i \in 1..Len(y) : (y \o s4)[i] = y[i]
        /\ \A i \in 1..Len(s4) : (y \o s4)[Len(y) + i] = s4[i]
    BY <2>0
  <2> QED  BY <1>0, <1>2, <2>1 DEF y
<1> HIDE DEF x
<1>4. /\ Handshake!Slice(x, 0, Len(s1)) = s1
      /\ Handshake!Slice(x, Len(s1), Len(s2)) = s2
      /\ Handshake!Slice(x, Len(s1) + Len(s2), Len(s3)) = s3
      /\ Handshake!Slice(x, Len(s1) + Len(s2) + Len(s3), Len(s4)) = s4
  <2>1. Handshake!Slice(x, 0, Len(s1)) = s1
    <3>1. \A i \in 1..Len(s1) : x[0 + i] = s1[i]
      <4> SUFFICES ASSUME NEW i \in 1..Len(s1) PROVE x[0 + i] = s1[i]
        OBVIOUS
      <4>1. 0 + i = i
        BY <1>0
      <4> QED  BY <1>3, <4>1
    <3>2. 0 + Len(s1) <= Len(x)
      BY <1>0, <1>3
    <3> QED  BY <1>3, <3>1, <3>2, SliceIs
  <2>2. Handshake!Slice(x, Len(s1), Len(s2)) = s2
    <3>1. Len(s1) + Len(s2) <= Len(x)
      BY <1>0, <1>3
    <3> QED  BY <1>0, <1>3, <3>1, SliceIs
  <2>3. Handshake!Slice(x, Len(s1) + Len(s2), Len(s3)) = s3
    <3>1. Len(s1) + Len(s2) + Len(s3) <= Len(x) /\ Len(s1) + Len(s2) \in Nat
      BY <1>0, <1>3
    <3> QED  BY <1>3, <3>1, SliceIs
  <2>4. Handshake!Slice(x, Len(s1) + Len(s2) + Len(s3), Len(s4)) = s4
    <3>1. Len(s1) + Len(s2) + Len(s3) + Len(s4) <= Len(x) /\ Len(s1) + Len(s2) + Len(s3) \in Nat
      BY <1>0, <1>3
    <3> QED  BY <1>3, <3>1, SliceIs
  <2> QED  BY <2>1, <2>2, <2>3, <2>4
<1> QED  BY <1>3, <1>4 DEF x

\* build_key writes a block that parse_key takes apart into the same key.
LEMMA KeyBlockIs ==
    ASSUME NEW owner \in {"client", "server"}, NEW o \in Offsets
    PROVE  LET k == Handshake!NewKey(owner, o)
           IN  /\ k.offset = o /\ k.key = Handshake!Bytes(owner, Handshake!KeyPart, KeySize)
               /\ Len(k.random1) > 0
               /\ Handshake!BuildKey(k) \in Seq(Nat) /\ Len(Handshake!BuildKey(k)) = Block
               /\ Handshake!ParseKey(Handshake!BuildKey(k)) = k
<1> DEFINE n  == Handshake!KeyOffset(o)
           m  == Block - n - KeySize - 4
           r0 == Handshake!Bytes(owner, Handshake!Random0, n)
           ky == Handshake!Bytes(owner, Handshake!KeyPart, KeySize)
           r1 == Handshake!Bytes(owner, Handshake!Random1, m)
           k  == [offset |-> o, random0 |-> r0, key |-> ky, random1 |-> r1]
           b  == r0 \o ky \o r1 \o o
<1>1. /\ o \in Seq(Nat) /\ Len(o) = 4 /\ n \in Nat /\ n < Block - KeySize - 4
      /\ Block \in Nat /\ KeySize \in Nat
  BY OffsetFacts, Sizes
<1>2. k = Handshake!NewKey(owner, o)
  BY DEF Handshake!NewKey
<1>3. b = Handshake!BuildKey(k)
  BY DEF Handshake!BuildKey
<1>4. /\ owner \in {"client", "server", "s2"}
      /\ Handshake!Random0 \in Nat /\ Handshake!Random1 \in Nat /\ Handshake!KeyPart \in Nat
  BY DEF Handshake!Random0, Handshake!Random1, Handshake!KeyPart
<1> HIDE DEF n
<1>5. m \in Nat /\ m > 0 /\ n + KeySize + m = Block - 4 /\ n + KeySize + m + 4 = Block
  BY <1>1
<1> HIDE DEF m
<1>6. r0 \in Seq(Nat) /\ Len(r0) = n
  BY SMTT(40), <1>1, <1>4, BytesAre
<1>7. ky \in Seq(Nat) /\ Len(ky) = KeySize
  BY SMTT(40), <1>1, <1>4, BytesAre
<1>8. r1 \in Seq(Nat) /\ Len(r1) = m
  BY <1>4, <1>5, BytesAre
<1> HIDE DEF r0, ky, r1
<1>9. /\ b \in Seq(Nat)
      /\ Len(b) = Len(r0) + Len(ky) + Len(r1) + Len(o)
      /\ Handshake!Slice(b, 0, Len(r0)) = r0
      /\ Handshake!Slice(b, Len(r0), Len(ky)) = ky
      /\ Handshake!Slice(b, Len(r0) + Len(ky), Len(r1)) = r1
      /\ Handshake!Slice(b, Len(r0) + Len(ky) + Len(r1), Len(o)) = o
  <2>1. r0 \in Seq(Nat) /\ ky \in Seq(Nat) /\ r1 \in Seq(Nat) /\ o \in Seq(Nat)
    BY <1>1, <1>6, <1>7, <1>8
  <2> QED  BY <2>1, FourParts
<1> HIDE DEF b
<1>10. /\ Handshake!Slice(b, Block - 4, 4) = o
       /\ Handshake!Slice(b, 0, n) = r0
       /\ Handshake!Slice(b, n, KeySize) = ky
       /\ Handshake!Slice(b, n + KeySize, m) = r1
  BY <1>1, <1>5, <1>6, <1>7, <1>8, <1>9
<1>11. Handshake!ParseKey(b) = k
  BY <1>10 DEF Handshake!ParseKey, n, m
<1>12. Len(b) = Block /\ Len(k.random1) > 0
  BY <1>1, <1>5, <1>6, <1>7, <1>8, <1>9
<1>13. k.offset = o /\ k.key = ky
  OBVIOUS
<1> HIDE DEF k
<1> QED  BY <1>2, <1>3, <1>9, <1>11, <1>12, <1>13 DEF ky

\* Sequences of the size of a digest.
Digests == {s \in Seq(Nat) : Len(s) = DigestSize}

\* The digest block of an owner once its digest has been computed.
Filled(owner, o, dg) == [Handshake!NewDigest(owner, o) EXCEPT !.digest = dg]

\* A digest block as written, with its digest and without it, and as parsed.
DigestBlockOk(owner, o, p, dg) ==
    LET k == Handshake!NewKey(owner, p)
        d == Filled(owner, o, dg)
        b == Handshake!BuildDigest(k, d, TRUE)
    IN  /\ d.digest = dg /\ d.offset = o
        /\ d.random0 \in Seq(Nat) /\ d.random1 \in Seq(Nat)
        /\ Len(d.random0) + Len(d.random1) = Block - 4 - DigestSize
        /\ b = o \o d.random0 \o dg \o d.random1
        /\ Handshake!BuildDigest(k, d, FALSE) = o \o d.random0 \o d.random1
        /\ b \in Seq(Nat) /\ Len(b) = Block
        /\ Handshake!ParseDigest(b) = d

\* build_digest writes a block that parse_digest takes apart into the same
\* digest; the key's random1, whose size it asks for, is never empty.
LEMMA DigestBlockIs ==
    ASSUME NEW owner \in {"client", "server"}, NEW o \in Offsets, NEW p \in Offsets,
           NEW dg \in Digests
    PROVE  DigestBlockOk(owner, o, p, dg)
<1> DEFINE k  == Handshake!NewKey(owner, p)
           n  == Handshake!DigestOffset(o)
           m  == Block - 4 - n - DigestSize
           r0 == Handshake!Bytes(owner, Handshake!Random0 + 50, n)
           r1 == Handshake!Bytes(owner, Handshake!Random1 + 50, m)
           d  == [offset |-> o, random0 |-> r0, digest |-> dg, random1 |-> r1]
           b  == o \o r0 \o dg \o r1
<1>1. /\ o \in Seq(Nat) /\ Len(o) = 4 /\ n \in Nat /\ n < Block - DigestSize - 4
      /\ Block \in Nat /\ DigestSize \in Nat
  BY OffsetFacts, Sizes
<1>d. dg \in Seq(Nat) /\ Len(dg) = DigestSize
  BY DEF Digests
<1>2. d = Filled(owner, o, dg)
  BY DEF Handshake!NewDigest, Filled
<1>3. Len(k.random1) > 0
  BY KeyBlockIs
<1> HIDE DEF k
<1>4. b = Handshake!BuildDigest(k, d, TRUE)
  BY <1>3 DEF Handshake!BuildDigest
<1>5. Handshake!BuildDigest(k, d, FALSE) = ((o \o r0) \o <<>>) \o r1
  BY <1>3 DEF Handshake!BuildDigest
<1>6. owner \in {"client", "server", "s2"}
  OBVIOUS
<1> DEFINE p0 == Handshake!Random0 + 50
           p1 == Handshake!Random1 + 50
<1>7. p0 \in Nat /\ p1 \in Nat
  BY DEF Handshake!Random0, Handshake!Random1
<1> HIDE DEF n, p0, p1
<1>8. m \in Nat /\ 4 + n + DigestSize + m = Block /\ n + m = Block - 4 - DigestSize
  BY <1>1
<1> HIDE DEF m
<1>9. Handshake!Bytes(owner, p0, n) \in Seq(Nat) /\ Len(Handshake!Bytes(owner, p0, n)) = n
  <2>1. n \in Nat
    BY <1>1
  <2> QED  BY <1>6, <1>7, <2>1, BytesAre
<1>10. Handshake!Bytes(owner, p1, m) \in Seq(Nat) /\ Len(Handshake!Bytes(owner, p1, m)) = m
  BY <1>6, <1>7, <1>8, BytesAre
<1>11. r0 \in Seq(Nat) /\ Len(r0) = n /\ r1 \in Seq(Nat) /\ Len(r1) = m
  BY <1>9, <1>10 DEF p0, p1
<1> HIDE DEF r0, r1
<1>12. Handshake!BuildDigest(k, d, FALSE) = o \o r0 \o r1
  <2>1. o \o r0 \in Seq(Nat)
    BY <1>1, <1>11
  <2> QED  BY <1>5, <2>1, WithNothing
<1>13. /\ b \in Seq(Nat)
       /\ Len(b) = Len(o) + Len(r0) + Len(dg) + Len(r1)
       /\ Handshake!Slice(b, 0, Len(o)) = o
       /\ Handshake!Slice(b, Len(o), Len(r0)) = r0
       /\ Handshake!Slice(b, Len(o) + Len(r0), Len(dg)) = dg
       /\ Handshake!Slice(b, Len(o) + Len(r0) + Len(dg), Len(r1)) = r1
  <2>1. o \in Seq(Nat) /\ r0 \in Seq(Nat) /\ dg \in Seq(Nat) /\ r1 \in Seq(Nat)
    BY <1>d, <1>1, <1>11
  <2> QED  BY <2>1, FourParts
<1>14. b = o \o d.random0 \o dg \o d.random1
  OBVIOUS
<1> HIDE DEF b
<1>15. /\ Handshake!Slice(b, 0, 4) = o
       /\ Handshake!Slice(b, 4, n) = r0
       /\ Handshake!Slice(b, 4 + n, DigestSize) = dg
       /\ Handshake!Slice(b, 4 + n + DigestSize, m) = r1
  BY <1>d, <1>1, <1>11, <1>13
<1>16. Handshake!ParseDigest(b) = d
  BY <1>15 DEF Handshake!ParseDigest, n, m
<1>17. Len(b) = Block
  BY <1>d, <1>1, <1>8, <1>11, <1>13
<1>18. /\ d.digest = dg /\ d.offset = o /\ d.random0 = r0 /\ d.random1 = r1
       /\ Len(d.random0) + Len(d.random1) = Block - 4 - DigestSize
  BY <1>8, <1>11
<1> HIDE DEF d
<1> DEFINE e == Filled(owner, o, dg)
<1>19. d = e
  BY <1>2
<1> HIDE DEF e
<1> QED  BY <1>4, <1>11, <1>12, <1>13, <1>14, <1>16, <1>17, <1>18, <1>19 DEF k, e, DigestBlockOk

\* What a sequence joined to another is, element by element.
LEMMA Join ==
    ASSUME NEW s1 \in Seq(Nat), NEW s2 \in Seq(Nat)
    PROVE  /\ s1 \o s2 \in Seq(Nat) /\ Len(s1 \o s2) = Len(s1) + Len(s2)
           /\ Len(s1) \in Nat /\ Len(s2) \in Nat
           /\ \A i \in 1..Len(s1) : (s1 \o s2)[i] = s1[i]
           /\ \A i \in 1..Len(s2) : (s1 \o s2)[Len(s1) + i] = s2[i]
           /\ \A i \in 1..(Len(s1) + Len(s2)) :
                (s1 \o s2)[i] = IF i <= Len(s1) THEN s1[i] ELSE s2[i - Len(s1)]
OBVIOUS

\* Joining in another order.
LEMMA Regroup ==
    ASSUME NEW x \in Seq(Nat), NEW y \in Seq(Nat), NEW z \in Seq(Nat)
    PROVE  (x \o y) \o z = x \o (y \o z)
<1> DEFINE u == x \o y
           w == y \o z
<1>1. /\ Len(x) \in Nat /\ Len(y) \in Nat /\ Len(z) \in Nat
      /\ u \in Seq(Nat) /\ Len(u) = Len(x) + Len(y)
      /\ \A i \in 1..Len(u) : u[i] = IF i <= Len(x) THEN x[i] ELSE y[i - Len(x)]
      /\ w \in Seq(Nat) /\ Len(w) = Len(y) + Len(z)
      /\ \A i \in 1..Len(w) : w[i] = IF i <= Len(y) THEN y[i] ELSE z[i - Len(y)]
  OBVIOUS
<1> HIDE DEF u, w
<1>a. u \in Seq(Nat) /\ w \in Seq(Nat)
  BY <1>1
<1>2. /\ u \o z \in Seq(Nat) /\ Len(u \o z) = Len(u) + Len(z)
      /\ \A i \in 1..Len(u \o z) : (u \o z)[i] = IF i <= Len(u) THEN u[i] ELSE z[i - Len(u)]
      /\ x \o w \in Seq(Nat) /\ Len(x \o w) = Len(x) + Len(w)
      /\ \A i \in 1..Len(x \o w) : (x \o w)[i] = IF i <= Len(x) THEN x[i] ELSE w[i - Len(x)]
  <2>1. /\ u \o z \in Seq(Nat) /\ Len(u \o z) = Len(u) + Len(z)
        /\ \A i \in 1..(Len(u) + Len(z)) : (u \o z)[i] = IF i <= Len(u) THEN u[i] ELSE z[i - Len(u)]
    BY <1>a, Join
  <2>2. /\ x \o w \in Seq(Nat) /\ Len(x \o w) = Len(x) + Len(w)
        /\ \A i \in 1..(Len(x) + Len(w)) : (x \o w)[i] = IF i <= Len(x) THEN x[i] ELSE w[i - Len(x)]
    BY <1>a, Join
  <2> QED  BY <2>1, <2>2
<1>3. Len(u \o z) = Len(x \o w)
  BY <1>1, <1>2
<1>4. ASSUME NEW i \in 1..Len(u \o z) PROVE (u \o z)[i] = (x \o w)[i]
  <2>0. i \in Nat /\ i >= 1 /\ i <= Len(x) + Len(y) + Len(z) /\ i \in 1..Len(x \o w)
    BY <1>1, <1>2, <1>3
  <2>1. CASE i <= Len(x)
    <3>1. i <= Len(u) /\ i \in 1..Len(u)
      BY <1>1, <2>0, <2>1
    <3> QED  BY <1>1, <1>2, <2>0, <2>1, <3>1
  <2>2. CASE i > Len(x) /\ i <= Len(x) + Len(y)
    <3>1. i <= Len(u) /\ i \in 1..Len(u) /\ ~(i <= Len(x)) /\ i - Len(x) \in 1..Len(w)
          /\ i - Len(x) <= Len(y)
      BY <1>1, <2>0, <2>2
    <3>2. (u \o z)[i] = y[i - Len(x)]
      BY <1>1, <1>2, <3>1
    <3>3. (x \o w)[i] = y[i - Len(x)]
      BY <1>1, <1>2, <2>0, <3>1
    <3> QED  BY <3>2, <3>3
  <2>3. CASE i > Len(x) + Len(y)
    <3>1. ~(i <= Len(u)) /\ ~(i <= Len(x)) /\ i - Len(x) \in 1..Len(w) /\ ~(i - Len(x) <= Len(y))
          /\ (i - Len(x)) - Len(y) = i - Len(u)
      BY <1>1, <2>0, <2>3
    <3>2. (u \o z)[i] = z[i - Len(u)]
      BY <1>2, <3>1
    <3>3. (x \o w)[i] = z[(i - Len(x)) - Len(y)]
      BY <1>1, <1>2, <2>0, <3>1
    <3> QED  BY <3>1, <3>2, <3>3
  <2>4. Len(x) \in Nat /\ Len(y) \in Nat
    BY <1>1
  <2>5. i <= Len(x) \/ (i > Len(x) /\ i <= Len(x) + Len(y)) \/ i > Len(x) + Len(y)
    BY <2>0, <2>4
  <2> QED  BY <2>1, <2>2, <2>3, <2>5
<1>5. u \o z = x \o w
  BY <1>2, <1>3, <1>4, SameSequence
<1> QED  BY <1>5 DEF u, w

\* A message is its time and version and two blocks; the blocks where they lie.
LEMMA BehindTime ==
    ASSUME NEW s1 \in Seq(Nat), NEW s2 \in Seq(Nat), NEW s3 \in Seq(Nat)
    PROVE  LET x == s1 \o (s2 \o s3)
           IN  /\ x \in Seq(Nat) /\ Len(x) = Len(s1) + Len(s2) + Len(s3)
               /\ Handshake!Slice(x, Len(s1), Len(s2)) = s2
               /\ Handshake!Slice(x, Len(s1) + Len(s2), Len(s3)) = s3
<1> DEFINE e == <<>>
           x == s1 \o (s2 \o s3)
<1>0. e \in Seq(Nat) /\ Len(e) = 0
  OBVIOUS
<1> HIDE DEF e
<1>1. LET y == s1 \o s2 \o s3 \o e
      IN  /\ y \in Seq(Nat) /\ Len(y) = Len(s1) + Len(s2) + Len(s3) + Len(e)
          /\ Handshake!Slice(y, Len(s1), Len(s2)) = s2
          /\ Handshake!Slice(y, Len(s1) + Len(s2), Len(s3)) = s3
  <2>1. e \in Seq(Nat)
    BY <1>0
  <2> QED  BY <2>1, FourParts
<1>2. s1 \o s2 \o s3 \o e = x
  <2>1. s1 \o s2 \o s3 \in Seq(Nat)
    OBVIOUS
  <2>2. (s1 \o s2 \o s3) \o <<>> = s1 \o s2 \o s3
    BY <2>1, WithNothing
  <2> QED  BY <2>2, Regroup DEF e
<1>3. Len(s1) + Len(s2) + Len(s3) + Len(e) = Len(s1) + Len(s2) + Len(s3)
  BY <1>0
<1> QED  BY <1>1, <1>2, <1>3

\* What lies in the middle of a message lies in the middle of what it is sent in.
LEMMA Inside ==
    ASSUME NEW s1 \in Seq(Nat), NEW s2 \in Seq(Nat), NEW s3 \in Seq(Nat),
           NEW at \in Nat, NEW size \in Nat, at + size <= Len(s2)
    PROVE  Handshake!Slice((s1 \o s2) \o s3, Len(s1) + at, size) = Handshake!Slice(s2, at, size)
<1> DEFINE x == (s1 \o s2) \o s3
           b == Handshake!Slice(s2, at, size)
<1>1. Len(s1) \in Nat /\ Len(s2) \in Nat /\ Len(s3) \in Nat
  OBVIOUS
<1>2. b \in Seq(Nat) /\ Len(b) = size /\ \A i \in 1..size : b[i] = s2[at + i]
  BY Cut DEF Handshake!Slice
<1> DEFINE y == s1 \o s2
<1>3. /\ y \in Seq(Nat) /\ Len(y) = Len(s1) + Len(s2)
      /\ \A i \in 1..Len(s2) : y[Len(s1) + i] = s2[i]
  OBVIOUS
<1> HIDE DEF y, b
<1>4. /\ y \o s3 \in Seq(Nat) /\ Len(y \o s3) = Len(y) + Len(s3)
      /\ \A i \in 1..Len(y) : (y \o s3)[i] = y[i]
  <2>1. y \in Seq(Nat)
    BY <1>3
  <2> QED  BY <2>1, Join
<1>5. x = y \o s3
  BY DEF y
<1> HIDE DEF x
<1>6. ASSUME NEW i \in 1..Len(b) PROVE x[(Len(s1) + at) + i] = b[i]
  <2>1. /\ i \in 1..size /\ at + i \in 1..Len(s2) /\ (Len(s1) + at) + i = Len(s1) + (at + i)
        /\ Len(s1) + (at + i) \in 1..Len(y)
    <3>1. i \in 1..size
      BY <1>2
    <3>2. i \in Nat /\ i >= 1 /\ i <= size /\ at \in Nat /\ size \in Nat
      BY <3>1
    <3>3. at + i \in 1..Len(s2)
      BY <1>1, <3>2
    <3>4. Len(s1) + (at + i) \in 1..(Len(s1) + Len(s2))
      BY <1>1, <3>3
    <3>5. (Len(s1) + at) + i = Len(s1) + (at + i)
      BY <1>1, <3>2
    <3> QED  BY <1>3, <3>1, <3>3, <3>4, <3>5
  <2>2. b[i] = s2[at + i]
    BY <1>2, <2>1
  <2>3. y[Len(s1) + (at + i)] = s2[at + i]
    BY <1>3, <2>1
  <2>4. x[Len(s1) + (at + i)] = y[Len(s1) + (at + i)]
    BY <1>4, <1>5, <2>1
  <2> QED  BY <2>1, <2>2, <2>3, <2>4
<1>7. Len(s1) + at \in Nat /\ (Len(s1) + at) + Len(b) <= Len(x) /\ x \in Seq(Nat) /\ b \in Seq(Nat)
  BY <1>1, <1>2, <1>3, <1>4, <1>5
<1>8. Handshake!Slice(x, Len(s1) + at, Len(b)) = b
  BY <1>6, <1>7, SliceIs
<1> QED  BY <1>2, <1>8 DEF x, b

\* What is hashed is what is sent without the digest: around a middle.
LEMMA Without ==
    ASSUME NEW s1 \in Seq(Nat), NEW s2 \in Seq(Nat), NEW s3 \in Seq(Nat)
    PROVE  LET x == (s1 \o s2) \o s3
           IN  SubSeq(x, 1, Len(s1)) \o SubSeq(x, Len(s1) + Len(s2) + 1, Len(x)) = s1 \o s3
<1> DEFINE y == s1 \o s2
           x == y \o s3
<1>1. /\ Len(s1) \in Nat /\ Len(s2) \in Nat /\ Len(s3) \in Nat
      /\ y \in Seq(Nat) /\ Len(y) = Len(s1) + Len(s2)
      /\ \A i \in 1..Len(s1) : y[i] = s1[i]
  OBVIOUS
<1> HIDE DEF y
<1>2. /\ x \in Seq(Nat) /\ Len(x) = Len(y) + Len(s3)
      /\ \A i \in 1..Len(y) : x[i] = y[i]
      /\ \A i \in 1..Len(s3) : x[Len(y) + i] = s3[i]
  <2>1. y \in Seq(Nat)
    BY <1>1
  <2> QED  BY <2>1, Join
<1> HIDE DEF x
<1>3. SubSeq(x, 1, Len(s1)) = s1
  <2>1. Len(s1) <= Len(x) /\ \A i \in 1..Len(s1) : i \in 1..Len(y)
    BY <1>1, <1>2
  <2>2. /\ SubSeq(x, 1, Len(s1)) \in Seq(Nat) /\ Len(SubSeq(x, 1, Len(s1))) = Len(s1)
        /\ \A i \in 1..Len(s1) : SubSeq(x, 1, Len(s1))[i] = x[i]
    <3>1. x \in Seq(Nat) /\ Len(s1) \in Nat /\ Len(s1) <= Len(x) /\ 0 + Len(s1) = Len(s1)
          /\ \A i \in 1..Len(s1) : 0 + i = i
      BY <1>1, <1>2, <2>1
    <3> QED  BY SMTT(40), <3>1
  <2> QED  BY <1>1, <1>2, <2>1, <2>2, SameSequence
<1>4. SubSeq(x, Len(y) + 1, Len(x)) = s3
  <2>1. /\ SubSeq(x, Len(y) + 1, Len(x)) \in Seq(Nat)
        /\ Len(SubSeq(x, Len(y) + 1, Len(x))) = Len(s3)
        /\ \A i \in 1..Len(s3) : SubSeq(x, Len(y) + 1, Len(x))[i] = x[Len(y) + i]
    <3>1. Len(y) \in Nat /\ Len(s3) \in Nat /\ Len(y) + Len(s3) <= Len(x) /\ x \in Seq(Nat)
          /\ Len(y) + Len(s3) = Len(x)
      BY <1>1, <1>2
    <3>2. /\ SubSeq(x, Len(y) + 1, Len(y) + Len(s3)) \in Seq(Nat)
          /\ Len(SubSeq(x, Len(y) + 1, Len(y) + Len(s3))) = Len(s3)
          /\ \A i \in 1..Len(s3) : SubSeq(x, Len(y) + 1, Len(y) + Len(s3))[i] = x[Len(y) + i]
      BY <3>1, Cut
    <3> QED  BY <3>1, <3>2
  <2> QED  BY <1>2, <2>1, SameSequence
<1>5. SubSeq(x, Len(s1) + Len(s2) + 1, Len(x)) = s3
  BY <1>1, <1>4
<1> QED  BY <1>3, <1>5 DEF x, y

\* C1 is what follows C0.
LEMMA AfterFirst ==
    ASSUME NEW s1 \in Seq(Nat), NEW v \in Nat
    PROVE  /\ <<v>> \o s1 \in Seq(Nat) /\ Len(<<v>> \o s1) = 1 + Len(s1) /\ (<<v>> \o s1)[1] = v
           /\ SubSeq(<<v>> \o s1, 2, Len(<<v>> \o s1)) = s1
<1> DEFINE x == <<v>> \o s1
<1>1. /\ Len(s1) \in Nat /\ x \in Seq(Nat) /\ Len(x) = 1 + Len(s1) /\ x[1] = v
      /\ \A i \in 1..Len(s1) : x[1 + i] = s1[i]
  OBVIOUS
<1> HIDE DEF x
<1>2. /\ SubSeq(x, 2, Len(x)) \in Seq(Nat) /\ Len(SubSeq(x, 2, Len(x))) = Len(s1)
      /\ \A i \in 1..Len(s1) : SubSeq(x, 2, Len(x))[i] = x[1 + i]
  BY <1>1
<1>3. SubSeq(x, 2, Len(x)) = s1
  BY <1>1, <1>2, SameSequence
<1> QED  BY <1>1, <1>3 DEF x

\* Five sequences, not to be looked into.
Five(s1, s2, s3, s4, s5) ==
    s1 \in Seq(Nat) /\ s2 \in Seq(Nat) /\ s3 \in Seq(Nat) /\ s4 \in Seq(Nat) /\ s5 \in Seq(Nat)

\* The digest of a message in the middle of it, the digest's block last or first.
LastSplits(s1, s2, s3, s4, s5) ==
    /\ s1 \o (s2 \o ((s3 \o s4) \o s5)) = ((s1 \o (s2 \o s3)) \o s4) \o s5
    /\ s1 \o (s2 \o (s3 \o s5)) = (s1 \o (s2 \o s3)) \o s5
FirstSplits(s1, s2, s3, s4, s5) ==
    /\ s1 \o (((s2 \o s3) \o s4) \o s5) = ((s1 \o s2) \o s3) \o (s4 \o s5)
    /\ s1 \o ((s2 \o s4) \o s5) = (s1 \o s2) \o (s4 \o s5)

\* What is before the digest, the digest, and what is behind it.
LEMMA DigestLast ==
    ASSUME NEW s1, NEW s2, NEW s3, NEW s4, NEW s5, Five(s1, s2, s3, s4, s5)
    PROVE  LastSplits(s1, s2, s3, s4, s5)
<1> DEFINE a == s2 \o s3
           b == s3 \o s4
           c == a \o s4
<1>0. s3 \in Seq(Nat) /\ s4 \in Seq(Nat) /\ s2 \in Seq(Nat)
  BY DEF Five
<1>a. c = s2 \o b
  BY <1>0, Regroup
<1>b. a \in Seq(Nat)
  BY <1>0, Join
<1>c. b \in Seq(Nat)
  BY <1>0, Join
<1>1. a \in Seq(Nat) /\ b \in Seq(Nat) /\ c = s2 \o b
  BY <1>a, <1>b, <1>c
<1> HIDE DEF b
<1>2. s2 \in Seq(Nat) /\ b \in Seq(Nat) /\ s5 \in Seq(Nat)
  BY <1>1 DEF Five
<1>3. s2 \o (b \o s5) = (s2 \o b) \o s5
  BY <1>2, Regroup
<1>4. s2 \o (s3 \o s5) = a \o s5
  <2>1. s2 \in Seq(Nat) /\ s3 \in Seq(Nat) /\ s5 \in Seq(Nat)
    BY DEF Five
    <2> QED  BY <2>1, Regroup
<1> HIDE DEF a
<1>5. s1 \in Seq(Nat) /\ a \in Seq(Nat) /\ s4 \in Seq(Nat)
  BY <1>1 DEF Five
<1>d. c \in Seq(Nat)
  BY <1>5, Join
<1>e. s1 \o c = (s1 \o a) \o s4
  BY <1>5, Regroup
<1>6. c \in Seq(Nat) /\ s1 \o c = (s1 \o a) \o s4
  BY <1>d, <1>e
<1> HIDE DEF c
<1>7. s1 \in Seq(Nat) /\ c \in Seq(Nat) /\ a \in Seq(Nat) /\ s5 \in Seq(Nat)
  BY <1>1, <1>6 DEF Five
<1>f. s1 \o (c \o s5) = (s1 \o c) \o s5
  BY <1>7, Regroup
<1>g. s1 \o (a \o s5) = (s1 \o a) \o s5
  BY <1>7, Regroup
<1>8. s1 \o (c \o s5) = (s1 \o c) \o s5 /\ s1 \o (a \o s5) = (s1 \o a) \o s5
  BY <1>f, <1>g
<1>9. s1 \o (s2 \o (b \o s5)) = ((s1 \o a) \o s4) \o s5
  BY <1>1, <1>3, <1>6, <1>8
<1> QED  BY <1>4, <1>8, <1>9 DEF a, b, LastSplits

\* The same with the digest's block first.
LEMMA DigestFirst ==
    ASSUME NEW s1, NEW s2, NEW s3, NEW s4, NEW s5, Five(s1, s2, s3, s4, s5)
    PROVE  FirstSplits(s1, s2, s3, s4, s5)
<1> DEFINE a == s1 \o s2
           b == s2 \o s3
           c == s4 \o s5
<1>1. s1 \in Seq(Nat) /\ s2 \in Seq(Nat) /\ s3 \in Seq(Nat)
  BY DEF Five
<1>a. s1 \o b = a \o s3
  BY <1>1, Regroup
<1>b. a \in Seq(Nat)
  BY <1>1, Join
<1>c. b \in Seq(Nat)
  BY <1>1, Join
<1>2. s1 \o b = a \o s3 /\ a \in Seq(Nat) /\ b \in Seq(Nat)
  BY <1>a, <1>b, <1>c
<1>3. s2 \in Seq(Nat) /\ s4 \in Seq(Nat) /\ s5 \in Seq(Nat)
  BY DEF Five
<1>d. (s2 \o s4) \o s5 = s2 \o c
  BY <1>3, Regroup
<1>e. c \in Seq(Nat)
  BY <1>3, Join
<1>4. (s2 \o s4) \o s5 = s2 \o c /\ c \in Seq(Nat)
  BY <1>d, <1>e
<1> HIDE DEF b
<1>5. b \in Seq(Nat) /\ s4 \in Seq(Nat) /\ s5 \in Seq(Nat)
  BY <1>2 DEF Five
<1>6. (b \o s4) \o s5 = b \o c
  BY <1>5, Regroup
<1> HIDE DEF c
<1>7. s1 \in Seq(Nat) /\ b \in Seq(Nat) /\ c \in Seq(Nat) /\ s2 \in Seq(Nat)
  BY <1>2, <1>4 DEF Five
<1>f. s1 \o (b \o c) = (s1 \o b) \o c
  BY <1>7, Regroup
<1>g. s1 \o (s2 \o c) = a \o c
  BY <1>7, Regroup
<1>8. s1 \o (b \o c) = (s1 \o b) \o c /\ s1 \o (s2 \o c) = a \o c
  BY <1>f, <1>g
<1> HIDE DEF a
<1>9. s1 \o ((b \o s4) \o s5) = (a \o s3) \o c
  BY <1>2, <1>6, <1>8
<1> QED  BY <1>4, <1>8, <1>9 DEF a, b, c, FirstSplits

\* Where a message of either schema has its digest block and its key block.
DigestAt(type) == IF type = 0 THEN 8 + Block ELSE 8
KeyAt(type)    == IF type = 0 THEN 8 ELSE 8 + Block

\* A message as sent and as hashed, and what is parsed of it.
MessageOk(owner, o, p, dg, type) ==
    LET k == Handshake!NewKey(owner, p)
        d == Filled(owner, o, dg)
        m == Handshake!C1S1(owner, type, k, d, TRUE)
        h == Handshake!C1S1(owner, type, k, d, FALSE)
        at == DigestAt(type) + 4 + Len(d.random0)
    IN  /\ m \in Seq(Nat) /\ Len(m) = 8 + 2 * Block
        /\ h \in Seq(Nat) /\ Len(h) = 8 + 2 * Block - DigestSize
        /\ Handshake!ParseDigest(Handshake!Slice(m, DigestAt(type), Block)) = d
        /\ Handshake!ParseKey(Handshake!Slice(m, KeyAt(type), Block)) = k
        /\ h = SubSeq(m, 1, at) \o SubSeq(m, at + DigestSize + 1, Len(m))

\* C1 or S1, of whatever owner, schema, offsets and digest: its size, its blocks,
\* which parse as what was put there, and what is hashed of it.
LEMMA MessageIs ==
    ASSUME NEW owner \in {"client", "server"}, NEW o \in Offsets, NEW p \in Offsets,
           NEW dg \in Digests, NEW type \in {0, 1}
    PROVE  MessageOk(owner, o, p, dg, type)
<1> DEFINE k == Handshake!NewKey(owner, p)
           d == Filled(owner, o, dg)
           m == Handshake!C1S1(owner, type, k, d, TRUE)
           h == Handshake!C1S1(owner, type, k, d, FALSE)
           at == DigestAt(type) + 4 + Len(d.random0)
           t == Handshake!BuildTimeVersion(owner)
           x == Handshake!BuildKey(k)
           r0 == d.random0
           r1 == d.random1
           y == ((o \o r0) \o dg) \o r1
           z == (o \o r0) \o r1
<1>1. x \in Seq(Nat) /\ Len(x) = Block /\ Handshake!ParseKey(x) = k
  BY KeyBlockIs
<1>2. /\ r0 \in Seq(Nat) /\ r1 \in Seq(Nat)
      /\ Len(r0) + Len(r1) = Block - 4 - DigestSize
      /\ y = Handshake!BuildDigest(k, d, TRUE)
      /\ z = Handshake!BuildDigest(k, d, FALSE)
      /\ y \in Seq(Nat) /\ Len(y) = Block
      /\ Handshake!ParseDigest(y) = d
  <2>1. DigestBlockOk(owner, o, p, dg)
    BY DigestBlockIs
  <2> QED  BY <2>1 DEF DigestBlockOk
<1>3. t \in Seq(Nat) /\ Len(t) = 8
  <2> DEFINE n == 4
             p0 == Handshake!Time
             p1 == Handshake!Version
             t0 == Handshake!Bytes(owner, p0, n)
             t1 == Handshake!Bytes(owner, p1, n)
  <2>1. n \in Nat /\ p0 \in Nat /\ p1 \in Nat /\ owner \in {"client", "server", "s2"}
    BY DEF Handshake!Time, Handshake!Version
  <2>2. t = t0 \o t1
    BY DEF Handshake!BuildTimeVersion
  <2>3. n + n = 8
    OBVIOUS
  <2> HIDE DEF n, p0, p1
  <2>4. t0 \in Seq(Nat) /\ Len(t0) = n /\ t1 \in Seq(Nat) /\ Len(t1) = n
    BY <2>1, BytesAre
  <2> HIDE DEF t0, t1
  <2>5. t0 \o t1 \in Seq(Nat) /\ Len(t0 \o t1) = Len(t0) + Len(t1)
    BY <2>4, Join
  <2> QED  BY <2>2, <2>3, <2>4, <2>5
<1>4. dg \in Seq(Nat) /\ Len(dg) = DigestSize /\ o \in Seq(Nat) /\ Len(o) = 4
  BY OffsetFacts DEF Digests
<1>5. m = IF type = 0 THEN t \o (x \o y) ELSE t \o (y \o x)
  BY <1>2 DEF Handshake!C1S1
<1>6. h = IF type = 0 THEN t \o (x \o z) ELSE t \o (z \o x)
  BY <1>2 DEF Handshake!C1S1
<1> DEFINE u == o \o r0
<1>7. u \in Seq(Nat) /\ Len(u) = 4 + Len(r0) /\ Len(r0) \in Nat /\ Len(r1) \in Nat
  <2>1. u \in Seq(Nat) /\ Len(u) = Len(o) + Len(r0) /\ Len(r0) \in Nat
    BY <1>2, <1>4, Join
  <2>2. Len(r1) \in Nat
    BY <1>2
  <2> QED  BY <1>4, <2>1, <2>2
<1>8. z \in Seq(Nat) /\ Len(z) = Block - DigestSize
  <2>0. z = u \o r1 /\ u \in Seq(Nat) /\ r1 \in Seq(Nat)
    BY <1>2, <1>7
  <2> HIDE DEF z, u, r1
  <2>1. z \in Seq(Nat) /\ Len(z) = Len(u) + Len(r1)
    BY <2>0, Join
  <2>2. Len(r0) + Len(r1) = Block - 4 - DigestSize /\ Len(u) = 4 + Len(r0)
        /\ Len(r0) \in Nat /\ Len(r1) \in Nat
    BY <1>2, <1>7 DEF u, r1
  <2> HIDE DEF r0
  <2> QED  BY <2>1, <2>2, Sizes
<1>9. y = (u \o dg) \o r1 /\ z = u \o r1
  OBVIOUS
<1> HIDE DEF k, d, m, h, t, x, y, z, r0, r1, u
<1>10. Block \in Nat /\ DigestSize \in Nat /\ Block + Block = 2 * Block
  BY Sizes
<1>11. /\ m \in Seq(Nat) /\ Len(m) = 8 + 2 * Block
       /\ h \in Seq(Nat) /\ Len(h) = 8 + 2 * Block - DigestSize
       /\ Handshake!Slice(m, DigestAt(type), Block) = y
       /\ Handshake!Slice(m, KeyAt(type), Block) = x
  <2>1. CASE type = 0
    <3>1. /\ t \o (x \o y) \in Seq(Nat) /\ Len(t \o (x \o y)) = Len(t) + Len(x) + Len(y)
          /\ Handshake!Slice(t \o (x \o y), Len(t), Len(x)) = x
          /\ Handshake!Slice(t \o (x \o y), Len(t) + Len(x), Len(y)) = y
      <4>1. t \in Seq(Nat) /\ x \in Seq(Nat) /\ y \in Seq(Nat)
        BY <1>1, <1>2, <1>3
      <4> QED  BY <4>1, BehindTime
    <3>2. t \o (x \o z) \in Seq(Nat) /\ Len(t \o (x \o z)) = Len(t) + Len(x) + Len(z)
      <4>1. t \in Seq(Nat) /\ x \in Seq(Nat) /\ z \in Seq(Nat)
        BY <1>1, <1>3, <1>8
      <4> QED  BY <4>1, BehindTime
    <3>3. m = t \o (x \o y) /\ h = t \o (x \o z) /\ DigestAt(type) = 8 + Block /\ KeyAt(type) = 8
      BY <1>5, <1>6, <2>1 DEF DigestAt, KeyAt
    <3>4. Len(t) = 8 /\ Len(x) = Block /\ Len(y) = Block /\ Len(z) = Block - DigestSize
      BY <1>1, <1>2, <1>3, <1>8
    <3> QED  BY <1>10, <3>1, <3>2, <3>3, <3>4
  <2>2. CASE type = 1
    <3>1. /\ t \o (y \o x) \in Seq(Nat) /\ Len(t \o (y \o x)) = Len(t) + Len(y) + Len(x)
          /\ Handshake!Slice(t \o (y \o x), Len(t), Len(y)) = y
          /\ Handshake!Slice(t \o (y \o x), Len(t) + Len(y), Len(x)) = x
      <4>1. t \in Seq(Nat) /\ x \in Seq(Nat) /\ y \in Seq(Nat)
        BY <1>1, <1>2, <1>3
      <4> QED  BY <4>1, BehindTime
    <3>2. t \o (z \o x) \in Seq(Nat) /\ Len(t \o (z \o x)) = Len(t) + Len(z) + Len(x)
      <4>1. t \in Seq(Nat) /\ x \in Seq(Nat) /\ z \in Seq(Nat)
        BY <1>1, <1>3, <1>8
      <4> QED  BY <4>1, BehindTime
    <3>3. m = t \o (y \o x) /\ h = t \o (z \o x) /\ DigestAt(type) = 8 /\ KeyAt(type) = 8 + Block
      BY <1>5, <1>6, <2>2 DEF DigestAt, KeyAt
    <3>4. Len(t) = 8 /\ Len(x) = Block /\ Len(y) = Block /\ Len(z) = Block - DigestSize
      BY <1>1, <1>2, <1>3, <1>8
    <3> QED  BY <1>10, <3>1, <3>2, <3>3, <3>4
  <2> QED  BY <2>1, <2>2
<1>12. h = SubSeq(m, 1, at) \o SubSeq(m, at + DigestSize + 1, Len(m))
  <2>0. t \in Seq(Nat) /\ x \in Seq(Nat) /\ u \in Seq(Nat) /\ dg \in Seq(Nat) /\ r1 \in Seq(Nat)
    BY <1>1, <1>2, <1>3, <1>4, <1>7
  <2>1. CASE type = 0
    <3> DEFINE f == t \o (x \o u)
    <3>1. m = (f \o dg) \o r1 /\ h = f \o r1
      <4>1. m = t \o (x \o ((u \o dg) \o r1)) /\ h = t \o (x \o (u \o r1))
        BY <1>5, <1>6, <1>9, <2>1
      <4> HIDE DEF f, at
      <4>2. /\ t \o (x \o ((u \o dg) \o r1)) = ((t \o (x \o u)) \o dg) \o r1
            /\ t \o (x \o (u \o r1)) = (t \o (x \o u)) \o r1
        <5>1. Five(t, x, u, dg, r1)
          BY <2>0 DEF Five
        <5>2. LastSplits(t, x, u, dg, r1)
          BY <5>1, DigestLast
        <5> QED  BY <5>2 DEF LastSplits
      <4> QED  BY <4>1, <4>2 DEF f
    <3>2. f \in Seq(Nat) /\ Len(f) = Len(t) + Len(x) + Len(u)
      BY <2>0, BehindTime
    <3>3. Len(f) = at
      <4>1. DigestAt(type) = 8 + Block /\ at = DigestAt(type) + 4 + Len(r0)
        BY <2>1 DEF DigestAt, r0
      <4>2. Len(f) = 8 + Block + (4 + Len(r0))
        BY <1>1, <1>3, <1>7, <3>2
      <4>3. 8 + Block + (4 + Len(r0)) = (8 + Block) + 4 + Len(r0)
        BY <1>7, <1>10
      <4> QED  BY <4>1, <4>2, <4>3
    <3> HIDE DEF f, at
    <3>4. LET w == (f \o dg) \o r1
          IN  SubSeq(w, 1, Len(f)) \o SubSeq(w, Len(f) + Len(dg) + 1, Len(w)) = f \o r1
      <4>1. f \in Seq(Nat) /\ dg \in Seq(Nat) /\ r1 \in Seq(Nat)
        BY <2>0, <3>2
      <4> QED  BY <4>1, Without
    <3> QED  BY <1>4, <3>1, <3>3, <3>4
  <2>2. CASE type = 1
    <3> DEFINE f == t \o u
               g == r1 \o x
    <3>1. m = (f \o dg) \o g /\ h = f \o g
      <4>1. m = t \o (((u \o dg) \o r1) \o x) /\ h = t \o ((u \o r1) \o x)
        BY <1>5, <1>6, <1>9, <2>2
      <4> HIDE DEF f, g, at
      <4>2. /\ t \o (((u \o dg) \o r1) \o x) = ((t \o u) \o dg) \o (r1 \o x)
            /\ t \o ((u \o r1) \o x) = (t \o u) \o (r1 \o x)
        <5>1. Five(t, u, dg, r1, x)
          BY <2>0 DEF Five
        <5>2. FirstSplits(t, u, dg, r1, x)
          BY <5>1, DigestFirst
        <5> QED  BY <5>2 DEF FirstSplits
      <4> QED  BY <4>1, <4>2 DEF f, g
    <3>2. f \in Seq(Nat) /\ Len(f) = Len(t) + Len(u) /\ g \in Seq(Nat)
      BY <2>0, Join
    <3>3. Len(f) = at
      <4>1. DigestAt(type) = 8 /\ at = DigestAt(type) + 4 + Len(r0)
        BY <2>2 DEF DigestAt, r0
      <4>2. Len(f) = 8 + (4 + Len(r0))
        BY <1>3, <1>7, <3>2
      <4>3. 8 + (4 + Len(r0)) = 8 + 4 + Len(r0)
        BY <1>7
      <4> QED  BY <4>1, <4>2, <4>3
    <3> HIDE DEF f, g, at
    <3>4. LET w == (f \o dg) \o g
          IN  SubSeq(w, 1, Len(f)) \o SubSeq(w, Len(f) + Len(dg) + 1, Len(w)) = f \o g
      <4>1. f \in Seq(Nat) /\ dg \in Seq(Nat) /\ g \in Seq(Nat)
        BY <2>0, <3>2
      <4> QED  BY <4>1, Without
    <3> QED  BY <1>4, <3>1, <3>3, <3>4
  <2> QED  BY <2>1, <2>2
<1> HIDE DEF at
<1>13. /\ Handshake!ParseDigest(Handshake!Slice(m, DigestAt(type), Block)) = d
       /\ Handshake!ParseKey(Handshake!Slice(m, KeyAt(type), Block)) = k
  BY <1>1, <1>2, <1>11
<1> QED  BY <1>11, <1>12, <1>13 DEF m, h, k, d, at, r0, MessageOk

\* What the client hashes to its digest, and what it makes up at first.
LEMMA DigestsAre ==
    /\ Handshake!Hmac \in Digests
    /\ \A owner \in {"client", "server"} :
         Handshake!Bytes(owner, Handshake!DigestPart, DigestSize) \in Digests
<1> DEFINE p == Handshake!DigestPart
           q == p + 50
<1>1. p \in Nat /\ q \in Nat /\ DigestSize \in Nat
  BY Sizes DEF Handshake!DigestPart
<1>2. Handshake!Hmac = Handshake!Bytes("client", q, DigestSize)
  BY DEF Handshake!Hmac
<1> HIDE DEF p, q
<1>3. \A owner \in {"client", "server", "s2"}, r \in Nat :
        Handshake!Bytes(owner, r, DigestSize) \in Digests
  <2> SUFFICES ASSUME NEW owner \in {"client", "server", "s2"}, NEW r \in Nat
               PROVE  Handshake!Bytes(owner, r, DigestSize) \in Digests
    OBVIOUS
  <2> DEFINE n == DigestSize
  <2>1. n \in Nat
    BY Sizes
  <2> HIDE DEF n
  <2>2. Handshake!Bytes(owner, r, n) \in Seq(Nat)
    BY <2>1, BytesAre
  <2>3. Len(Handshake!Bytes(owner, r, n)) = n
    BY <2>1 DEF Handshake!Bytes
  <2> QED  BY <2>2, <2>3 DEF Digests, n
<1>4. "client" \in {"client", "server", "s2"} /\ "server" \in {"client", "server", "s2"}
  OBVIOUS
<1> QED  BY <1>1, <1>2, <1>3, <1>4 DEF p

\* A digest block made up by its owner is one filled with the digest it made up.
LEMMA NewIsFilled ==
    ASSUME NEW owner, NEW o
    PROVE  /\ Handshake!NewDigest(owner, o)
                = Filled(owner, o, Handshake!Bytes(owner, Handshake!DigestPart, DigestSize))
           /\ \A dg : Filled(owner, o, dg).offset = o /\ Filled(owner, o, dg).digest = dg
<1> DEFINE n  == Handshake!DigestOffset(o)
           r0 == Handshake!Bytes(owner, Handshake!Random0 + 50, n)
           r1 == Handshake!Bytes(owner, Handshake!Random1 + 50, Block - 4 - n - DigestSize)
           made == Handshake!Bytes(owner, Handshake!DigestPart, DigestSize)
<1>1. Handshake!NewDigest(owner, o) = [offset |-> o, random0 |-> r0, digest |-> made, random1 |-> r1]
  BY DEF Handshake!NewDigest
<1> HIDE DEF r0, r1, made
<1>2. \A dg : Filled(owner, o, dg) = [offset |-> o, random0 |-> r0, digest |-> dg, random1 |-> r1]
  BY <1>1 DEF Filled
<1>3. Handshake!NewDigest(owner, o) = Filled(owner, o, made)
  BY <1>1, <1>2
<1>4. \A dg : Filled(owner, o, dg).offset = o /\ Filled(owner, o, dg).digest = dg
  BY <1>2
<1> QED  BY <1>3, <1>4 DEF made

\* Filled again, it is filled with the later digest.
LEMMA FilledAgain ==
    ASSUME NEW owner, NEW o, NEW dg, NEW other
    PROVE  /\ [Filled(owner, o, dg) EXCEPT !.digest = other] = Filled(owner, o, other)
           /\ Filled(owner, o, other).offset = o /\ Filled(owner, o, other).digest = other
<1> DEFINE n  == Handshake!DigestOffset(o)
           r0 == Handshake!Bytes(owner, Handshake!Random0 + 50, n)
           r1 == Handshake!Bytes(owner, Handshake!Random1 + 50, Block - 4 - n - DigestSize)
           made == Handshake!Bytes(owner, Handshake!DigestPart, DigestSize)
<1>1. Handshake!NewDigest(owner, o) = [offset |-> o, random0 |-> r0, digest |-> made, random1 |-> r1]
  BY DEF Handshake!NewDigest
<1> HIDE DEF r0, r1, made
<1>2. [Filled(owner, o, dg) EXCEPT !.digest = other] = Filled(owner, o, other)
  BY <1>1 DEF Filled
<1>3. Filled(owner, o, other).offset = o /\ Filled(owner, o, other).digest = other
  BY <1>1 DEF Filled
<1> QED  BY <1>2, <1>3

\* Initially.
LEMMA HandshakeInit == Handshake!Init => Handshake!HandshakeInv
<1> SUFFICES ASSUME Handshake!Init PROVE Handshake!HandshakeInv
  OBVIOUS
<1>1. PICK k \in Offsets, d \in Offsets :
        key = Handshake!NewKey("client", k) /\ digest = Handshake!NewDigest("client", d)
  BY DEF Handshake!Init
<1>2. Handshake!Own(key)
  <2>1. key.offset = k
    BY <1>1 DEF Handshake!NewKey
  <2> QED  BY <1>1, <2>1 DEF Handshake!Own
<1>3. Handshake!OwnDigest(digest, Handshake!Bytes("client", Handshake!DigestPart, DigestSize))
  <2>1. digest = Filled("client", d, Handshake!Bytes("client", Handshake!DigestPart, DigestSize))
    BY <1>1, NewIsFilled
  <2>2. digest.offset = d
    BY <2>1, NewIsFilled
  <2> QED  BY <2>1, <2>2 DEF Handshake!OwnDigest, Filled
<1>4. /\ rStep = "new" /\ schema \in {0, 1} /\ verdict = "none"
  BY DEF Handshake!Init
<1> QED
  BY <1>2, <1>3, <1>4 DEF Handshake!HandshakeInv, Handshake!OwnInv, Handshake!WrittenInv,
     Handshake!AnsweredInv

\* create_c0c1 writes a message whose digest is that of what it hashed.
LEMMA CreateC0C1Keeps ==
    ASSUME Handshake!HandshakeInv, Handshake!CreateC0C1
    PROVE  Handshake!HandshakeInv'
<1> DEFINE made == Handshake!Bytes("client", Handshake!DigestPart, DigestSize)
<1>1. /\ rStep = "new" /\ rStep' = "sent" /\ schema \in {0, 1} /\ verdict = "none"
      /\ joined' = Handshake!C1S1("client", schema, key, digest, FALSE)
      /\ digest' = [digest EXCEPT !.digest = Handshake!Hmac]
      /\ c0c1' = <<3>> \o Handshake!C1S1("client", schema, key, digest', TRUE)
      /\ UNCHANGED <<schema, key, s0s1s2, served, verdict, c2>>
  BY DEF Handshake!CreateC0C1, Handshake!HandshakeInv, Handshake!AnsweredInv
<1>2. Handshake!Own(key) /\ Handshake!OwnDigest(digest, made)
  BY <1>1 DEF Handshake!HandshakeInv, Handshake!OwnInv
<1>3. PICK o \in Offsets, p \in Offsets :
        key = Handshake!NewKey("client", p) /\ digest = Filled("client", o, made)
  BY <1>2 DEF Handshake!Own, Handshake!OwnDigest, Filled
<1> HIDE DEF made
<1>4. digest' = Filled("client", o, Handshake!Hmac) /\ digest'.offset = o
  <2>2. Filled("client", o, Handshake!Hmac).offset = o
    BY FilledAgain
  <2>3. [Filled("client", o, made) EXCEPT !.digest = Handshake!Hmac]
          = Filled("client", o, Handshake!Hmac)
    BY FilledAgain
  <2> QED  BY <1>1, <1>3, <2>2, <2>3
<1>5. Handshake!Own(key') /\ Handshake!OwnDigest(digest', Handshake!Hmac)
  BY <1>1, <1>2, <1>3, <1>4 DEF Handshake!Own, Handshake!OwnDigest, Filled
<1>6. joined' = Handshake!C1S1("client", schema, key, digest', FALSE)
  <2>1. /\ digest'.offset = digest.offset /\ digest'.random0 = digest.random0
        /\ digest'.random1 = digest.random1
    BY <1>3, <1>4 DEF Filled, Handshake!NewDigest
  <2> QED  BY <1>1, <2>1 DEF Handshake!C1S1, Handshake!BuildDigest
<1>7. MessageOk("client", o, p, Handshake!Hmac, schema)
  <2>1. "client" \in {"client", "server"} /\ Handshake!Hmac \in Digests
    BY DigestsAre
  <2> QED  BY <1>1, <1>3, <2>1, MessageIs
<1> DEFINE m == Handshake!C1S1("client", schema, key, digest', TRUE)
<1>8. /\ m \in Seq(Nat) /\ Len(m) = 8 + 2 * Block
      /\ Len(joined') = 8 + 2 * Block - DigestSize
  BY <1>3, <1>4, <1>6, <1>7 DEF MessageOk
<1>9. Len(c0c1') = 9 + 2 * Block
  <2> HIDE DEF m
  <2>1. Len(<<3>> \o m) = 1 + Len(m)
    BY <1>8, AfterFirst
  <2>2. 1 + (8 + 2 * Block) = 9 + 2 * Block
    BY Sizes
  <2> QED  BY <1>1, <1>8, <2>1, <2>2 DEF m
<1>10. Handshake!WrittenInv'
  BY <1>1, <1>6, <1>8, <1>9 DEF Handshake!WrittenInv
<1> QED
  BY <1>1, <1>5, <1>10 DEF Handshake!HandshakeInv, Handshake!OwnInv, Handshake!AnsweredInv

\* A server answers.
LEMMA ServerAnswersKeeps ==
    ASSUME Handshake!HandshakeInv, NEW v \in {3, 6}, NEW k \in Offsets, NEW d \in Offsets,
           Handshake!ServerAnswers(v, k, d)
    PROVE  Handshake!HandshakeInv'
<1>1. /\ rStep = "sent" /\ rStep' = "answered" /\ schema \in {0, 1} /\ verdict = "none"
      /\ Len(c0c1) = 9 + 2 * Block /\ Len(joined) = 8 + 2 * Block - DigestSize
      /\ UNCHANGED <<schema, key, digest, c0c1, joined, verdict, c2>>
      /\ Handshake!Own(key) /\ Handshake!OwnDigest(digest, Handshake!Hmac)
  BY DEF Handshake!ServerAnswers, Handshake!HandshakeInv, Handshake!OwnInv, Handshake!WrittenInv,
     Handshake!AnsweredInv
<1>2. Len(c0c1) - 1 = 8 + 2 * Block
  BY <1>1, Sizes
<1>3. s0s1s2' = <<v>> \o Handshake!C1S1("server", schema', Handshake!NewKey("server", k),
                                           Handshake!NewDigest("server", d), TRUE)
                  \o Handshake!Bytes("s2", 0, 8 + 2 * Block)
  BY <1>1, <1>2 DEF Handshake!ServerAnswers
<1>4. served' = <<Handshake!Bytes("server", Handshake!KeyPart, KeySize),
                  Handshake!Bytes("server", Handshake!DigestPart, DigestSize)>>
  BY DEF Handshake!ServerAnswers, Handshake!NewKey, Handshake!NewDigest
<1>5. Handshake!Own(key') /\ Handshake!OwnDigest(digest', Handshake!Hmac)
  BY <1>1
<1>6. Handshake!AnsweredInv'
  BY <1>1, <1>3, <1>4 DEF Handshake!AnsweredInv
<1> QED
  BY <1>1, <1>5, <1>6 DEF Handshake!HandshakeInv, Handshake!OwnInv, Handshake!WrittenInv

\* process_s0s1s2 finds the digest of a server that follows schema 1, and takes
\* nothing from one of another version.
LEMMA ProcessKeeps ==
    ASSUME Handshake!HandshakeInv, Handshake!ProcessS0S1S2
    PROVE  Handshake!HandshakeInv'
<1>1. /\ rStep = "answered" /\ rStep' = "processed" /\ schema \in {0, 1}
      /\ Len(c0c1) = 9 + 2 * Block /\ Len(joined) = 8 + 2 * Block - DigestSize
      /\ UNCHANGED <<schema, c0c1, joined, s0s1s2, served, c2>>
      /\ Handshake!Own(key) /\ Handshake!OwnDigest(digest, Handshake!Hmac)
      /\ served = <<Handshake!Bytes("server", Handshake!KeyPart, KeySize),
                    Handshake!Bytes("server", Handshake!DigestPart, DigestSize)>>
  BY DEF Handshake!ProcessS0S1S2, Handshake!HandshakeInv, Handshake!OwnInv, Handshake!WrittenInv,
     Handshake!AnsweredInv
<1>2. CASE s0s1s2[1] # 3
  <2>1. verdict' = "version" /\ key' = key /\ digest' = digest
    BY <1>2 DEF Handshake!ProcessS0S1S2
  <2>2. Handshake!Own(key') /\ Handshake!OwnDigest(digest', Handshake!Hmac)
    BY <1>1, <2>1
  <2> QED
    BY <1>1, <2>1, <2>2 DEF Handshake!HandshakeInv, Handshake!OwnInv, Handshake!WrittenInv,
       Handshake!AnsweredInv
<1>3. CASE s0s1s2[1] = 3
  <2>1. verdict' = "ok" /\ digest' = Handshake!ParseDigest(Handshake!Slice(s0s1s2, 9, Block))
    BY <1>3 DEF Handshake!ProcessS0S1S2
  <2>2. schema = 1 => digest'.digest = served[2]
    <3> SUFFICES ASSUME schema = 1 PROVE digest'.digest = served[2]
      OBVIOUS
    <3> DEFINE made == Handshake!Bytes("server", Handshake!DigestPart, DigestSize)
               tail == Handshake!Bytes("s2", 0, 8 + 2 * Block)
    <3>1. PICK v \in {3, 6}, k \in Offsets, d \in Offsets :
            s0s1s2 = <<v>> \o Handshake!C1S1("server", schema, Handshake!NewKey("server", k),
                                                Handshake!NewDigest("server", d), TRUE) \o tail
      BY <1>1 DEF Handshake!HandshakeInv, Handshake!AnsweredInv
    <3> DEFINE m == Handshake!C1S1("server", 1, Handshake!NewKey("server", k),
                                      Filled("server", d, made), TRUE)
    <3>2. MessageOk("server", d, k, made, 1)
      <4>1. "server" \in {"client", "server"} /\ made \in Digests /\ 1 \in {0, 1}
        BY DigestsAre
      <4> QED  BY <4>1, MessageIs
    <3>3. /\ m \in Seq(Nat) /\ Len(m) = 8 + 2 * Block
          /\ Handshake!ParseDigest(Handshake!Slice(m, DigestAt(1), Block)) = Filled("server", d, made)
      BY <3>2 DEF MessageOk
    <3>4. s0s1s2 = (<<v>> \o m) \o tail
      BY <3>1, NewIsFilled
    <3> HIDE DEF m
    <3>5. tail \in Seq(Nat)
      <4> DEFINE n == 8 + 2 * Block
                 z == 0
      <4>1. n \in Nat /\ z \in Nat /\ "s2" \in {"client", "server", "s2"}
        BY Sizes
      <4> HIDE DEF n, z
      <4>2. Handshake!Bytes("s2", z, n) \in Seq(Nat)
        BY <4>1, BytesAre
      <4> QED  BY <4>2 DEF n, z
    <3> HIDE DEF tail
    <3>6. Handshake!Slice(s0s1s2, 9, Block) = Handshake!Slice(m, 8, Block)
      <4> DEFINE h == <<v>>
                 at == 8
      <4>1. h \in Seq(Nat) /\ Len(h) = 1 /\ at \in Nat /\ Block \in Nat
        BY Sizes
      <4>2. at + Block <= Len(m) /\ 1 + at = 9
        BY <3>3, Sizes
      <4> HIDE DEF h, at
      <4>3. Handshake!Slice((h \o m) \o tail, Len(h) + at, Block) = Handshake!Slice(m, at, Block)
        <5>1. /\ h \in Seq(Nat) /\ m \in Seq(Nat) /\ tail \in Seq(Nat)
              /\ at \in Nat /\ Block \in Nat /\ at + Block <= Len(m)
          BY <3>3, <3>5, <4>1, <4>2
        <5> QED  BY <5>1, Inside
      <4> QED  BY <3>4, <4>1, <4>2, <4>3 DEF h, at
    <3>7. digest' = Filled("server", d, made)
      BY <2>1, <3>3, <3>6 DEF DigestAt
    <3>8. digest'.digest = made
      BY <3>7, NewIsFilled
    <3> QED  BY <1>1, <3>8
  <2>3. Handshake!AnsweredInv'
    BY <1>1, <2>1, <2>2 DEF Handshake!AnsweredInv
  <2> QED
    BY <1>1, <2>1, <2>3 DEF Handshake!HandshakeInv, Handshake!OwnInv, Handshake!WrittenInv
<1> QED  BY <1>2, <1>3

\* create_c2.
LEMMA CreateC2Keeps ==
    ASSUME Handshake!HandshakeInv, Handshake!CreateC2
    PROVE  Handshake!HandshakeInv'
<1>1. /\ rStep = "processed" /\ rStep' = "done" /\ schema \in {0, 1}
      /\ Len(c0c1) = 9 + 2 * Block /\ Len(joined) = 8 + 2 * Block - DigestSize
      /\ UNCHANGED <<schema, key, digest, c0c1, joined, s0s1s2, served, verdict>>
      /\ c2' = Handshake!Slice(s0s1s2, 1, Len(c0c1) - 1)
      /\ verdict = "version" => Handshake!Own(key) /\ Handshake!OwnDigest(digest, Handshake!Hmac)
  BY DEF Handshake!CreateC2, Handshake!HandshakeInv, Handshake!OwnInv, Handshake!WrittenInv
<1>2. Len(c0c1) - 1 = 8 + 2 * Block
  BY <1>1, Sizes
<1>3. Handshake!AnsweredInv'
  BY <1>1, <1>2 DEF Handshake!HandshakeInv, Handshake!AnsweredInv
<1>4. Handshake!OwnInv'
  BY <1>1 DEF Handshake!OwnInv
<1> QED  BY <1>1, <1>3, <1>4 DEF Handshake!HandshakeInv, Handshake!WrittenInv

\* Every step of the handshake.
LEMMA HandshakeStep ==
    ASSUME Handshake!HandshakeInv, [Handshake!Next]_shake
    PROVE  Handshake!HandshakeInv'
<1>1. CASE Handshake!CreateC0C1
  BY <1>1, CreateC0C1Keeps
<1>2. CASE \E v \in {3, 6}, k, d \in Offsets : Handshake!ServerAnswers(v, k, d)
  BY <1>2, ServerAnswersKeeps
<1>3. CASE Handshake!ProcessS0S1S2
  BY <1>3, ProcessKeeps
<1>4. CASE Handshake!CreateC2
  BY <1>4, CreateC2Keeps
<1>5. CASE UNCHANGED shake
  BY <1>5 DEF shake, Handshake!HandshakeInv, Handshake!OwnInv, Handshake!WrittenInv,
     Handshake!AnsweredInv, Handshake!Own, Handshake!OwnDigest
<1> QED  BY <1>1, <1>2, <1>3, <1>4, <1>5 DEF Handshake!Next

\* A server that reads C1 by the schema finds the client's digest and key in it.
LEMMA ServerFinds ==
    ASSUME Handshake!HandshakeInv
    PROVE  Handshake!ServerFindsDigest
<1> SUFFICES ASSUME rStep = "sent" PROVE Handshake!ServerFindsDigest
  BY DEF Handshake!ServerFindsDigest
<1> DEFINE m == Handshake!C1S1("client", schema, key, digest, TRUE)
<1>1. /\ schema \in {0, 1} /\ Handshake!Own(key) /\ Handshake!OwnDigest(digest, Handshake!Hmac)
      /\ joined = Handshake!C1S1("client", schema, key, digest, FALSE)
      /\ c0c1 = <<3>> \o m
  BY DEF Handshake!HandshakeInv, Handshake!OwnInv, Handshake!WrittenInv
<1>2. PICK o \in Offsets, p \in Offsets :
        key = Handshake!NewKey("client", p) /\ digest = Filled("client", o, Handshake!Hmac)
  BY <1>1 DEF Handshake!Own, Handshake!OwnDigest, Filled
<1>3. MessageOk("client", o, p, Handshake!Hmac, schema)
  <2>1. "client" \in {"client", "server"} /\ Handshake!Hmac \in Digests
    BY DigestsAre
  <2> QED  BY <1>1, <2>1, MessageIs
<1> DEFINE at == DigestAt(schema) + 4 + Len(digest.random0)
<1>4. /\ m \in Seq(Nat)
      /\ Handshake!ParseDigest(Handshake!Slice(m, DigestAt(schema), Block)) = digest
      /\ Handshake!ParseKey(Handshake!Slice(m, KeyAt(schema), Block)) = key
      /\ joined = SubSeq(m, 1, at) \o SubSeq(m, at + DigestSize + 1, Len(m))
  BY <1>1, <1>2, <1>3 DEF MessageOk
<1>5. Handshake!C1 = m
  <2>1. c0c1 = <<3>> \o m /\ m \in Seq(Nat)
    BY <1>1, <1>4
  <2> HIDE DEF m
  <2> DEFINE v == 3
  <2>2. v \in Nat
    OBVIOUS
  <2> HIDE DEF v
  <2>3. SubSeq(<<v>> \o m, 2, Len(<<v>> \o m)) = m
    BY <2>1, <2>2, AfterFirst
  <2> QED  BY <2>1, <2>3 DEF Handshake!C1, v
<1>6. digest.digest = Handshake!Hmac
  BY <1>2, FilledAgain
<1> HIDE DEF m
<1>7. /\ Handshake!ParseDigest(Handshake!DigestBlock) = digest
      /\ Handshake!ParseKey(Handshake!KeyBlock) = key
  BY <1>4, <1>5 DEF Handshake!DigestBlock, Handshake!KeyBlock, DigestAt, KeyAt
<1>8. joined = SubSeq(Handshake!C1, 1, at)
                 \o SubSeq(Handshake!C1, at + DigestSize + 1, Len(Handshake!C1))
  BY <1>4, <1>5
<1>9. at = (IF schema = 0 THEN 8 + Block ELSE 8) + 4 + Len(digest.random0)
  BY DEF DigestAt
<1> QED  BY <1>6, <1>7, <1>8, <1>9 DEF Handshake!ServerFindsDigest

\* The client's own key and digest are not the server's.
LEMMA OwnIsNotServed ==
    ASSUME NEW o \in Offsets, NEW p \in Offsets
    PROVE  /\ Handshake!NewKey("client", p).key # Handshake!Bytes("server", Handshake!KeyPart, KeySize)
           /\ Handshake!Hmac # Handshake!Bytes("server", Handshake!DigestPart, DigestSize)
<1>1. 1 \in 1..KeySize /\ 1 \in 1..DigestSize
  BY Sizes
<1>2. Handshake!NewKey("client", p).key = Handshake!Bytes("client", Handshake!KeyPart, KeySize)
  BY DEF Handshake!NewKey
<1>3. /\ Handshake!Bytes("client", Handshake!KeyPart, KeySize)[1] = 1501
      /\ Handshake!Bytes("server", Handshake!KeyPart, KeySize)[1] = 2501
  BY <1>1 DEF Handshake!Bytes, Handshake!Owners, Handshake!KeyPart
<1>4. /\ Handshake!Hmac[1] = 1651
      /\ Handshake!Bytes("server", Handshake!DigestPart, DigestSize)[1] = 2601
  BY <1>1 DEF Handshake!Hmac, Handshake!Bytes, Handshake!Owners, Handshake!DigestPart
<1> QED  BY <1>2, <1>3, <1>4

\* The invariant says that the two ends agree.
LEMMA HandshakeInvSays ==
    ASSUME Handshake!HandshakeInv
    PROVE  HandshakeAgrees
<1>1. Handshake!MessagesFill
  <2>1. 9 + 2 * Block = 1 + 8 + 2 * Block
    BY Sizes
  <2> QED  BY <2>1 DEF Handshake!MessagesFill, Handshake!HandshakeInv, Handshake!WrittenInv
<1>2. Handshake!ServerFindsDigest
  BY ServerFinds
<1>3. verdict = "ok" /\ schema = 1 => digest.digest = served[2]
  BY DEF Handshake!HandshakeInv, Handshake!AnsweredInv
<1>4. verdict = "version" => key.key # served[1] /\ digest.digest # served[2]
  <2> SUFFICES ASSUME verdict = "version"
               PROVE  key.key # served[1] /\ digest.digest # served[2]
    OBVIOUS
  <2>1. /\ Handshake!Own(key) /\ Handshake!OwnDigest(digest, Handshake!Hmac)
        /\ served = <<Handshake!Bytes("server", Handshake!KeyPart, KeySize),
                      Handshake!Bytes("server", Handshake!DigestPart, DigestSize)>>
    BY DEF Handshake!HandshakeInv, Handshake!OwnInv, Handshake!AnsweredInv
  <2>2. PICK o \in Offsets, p \in Offsets :
          key = Handshake!NewKey("client", p) /\ digest = Filled("client", o, Handshake!Hmac)
    BY <2>1 DEF Handshake!Own, Handshake!OwnDigest, Filled
  <2>3. digest.digest = Handshake!Hmac
    BY <2>2, FilledAgain
  <2> QED  BY <2>1, <2>2, <2>3, OwnIsNotServed
<1>5. rStep = "done" => c2 = SubSeq(s0s1s2, 2, Len(c0c1))
  <2>1. rStep = "done" => c2 = Handshake!Slice(s0s1s2, 1, 8 + 2 * Block) /\ Len(c0c1) = 9 + 2 * Block
    BY DEF Handshake!HandshakeInv, Handshake!AnsweredInv, Handshake!WrittenInv
  <2>2. 1 + (8 + 2 * Block) = 9 + 2 * Block /\ 1 + 1 = 2
    BY Sizes
  <2> QED  BY <2>1, <2>2 DEF Handshake!Slice
<1> QED  BY <1>1, <1>2, <1>3, <1>4, <1>5 DEF HandshakeAgrees, Handshake!C2IsS1

\* At whatever offsets key and digest lie, in either schema and for blocks of any
\* size (rtmp_stack_handshake.cc): C0 C1 fills what is sent and what is hashed, a
\* server finds in C1 the digest and the key the client put there, the digest of
\* a server in schema 1 is found, none is taken from one of another version, and
\* C2 is S1.
THEOREM HandshakeEndsAgree == MCSpec => []HandshakeAgrees
<1>1. MCInit => Handshake!HandshakeInv
  BY HandshakeInit DEF MCInit
<1>2. Handshake!HandshakeInv /\ [MCNext]_all => Handshake!HandshakeInv'
  <2>1. [MCNext]_all => [Handshake!Next]_shake
    BY DEF MCNext, Ended, all
  <2> QED  BY <2>1, HandshakeStep
<1>3. MCSpec => MCInit /\ [][MCNext]_all
  BY DEF MCSpec
<1>4. Handshake!HandshakeInv => HandshakeAgrees
  BY HandshakeInvSays
<1> QED  BY <1>1, <1>2, <1>3, <1>4, PTL

-----------------------------------------------------------------------------
(* WsHandshake *)

\* The kinds of client and server.
LEMMA Kinds ==
    ASSUME who \in [client : Clients, server : Servers, colon : BOOLEAN]
    PROVE  /\ who.client \in {"library", "old", "keep-alive"}
           /\ who.server \in {"library", "proper", "silent", "other", "refusing"}
           /\ who.colon \in BOOLEAN
BY WebSocketAssumption DEF Upgrade!KindsAssumption, Upgrade!AllClients, Upgrade!AllServers

\* What a client asks for, field by field.
LEMMA AskedIs ==
    /\ Upgrade!Blank \in [Upgrade!Fields -> Upgrade!Words] /\ \A x \in Upgrade!Fields : Upgrade!Blank[x] = ""
    /\ Upgrade!InitParam(Upgrade!Blank) \in [Upgrade!Fields -> Upgrade!Words]
    /\ Upgrade!Asked \in [Upgrade!Fields -> Upgrade!Words]
    /\ Upgrade!Asked["key"] = "random"
    /\ Upgrade!Asked["version"] = IF who.client = "old" THEN "8" ELSE "13"
    /\ Upgrade!Asked["connection"] = IF who.client \in {"library", "old"} THEN "Upgrade"
                                     ELSE "keep-alive, Upgrade"
    /\ who.client = "library" => Upgrade!Asked = Upgrade!InitParam(Upgrade!Blank)
<1>1. Upgrade!Blank \in [Upgrade!Fields -> Upgrade!Words]
  BY DEF Upgrade!Blank, Upgrade!Words
<1>2. \A x \in Upgrade!Fields : Upgrade!Blank[x] = ""
  BY DEF Upgrade!Blank
<1> DEFINE own == Upgrade!InitParam(Upgrade!Blank)
<1>3. own \in [Upgrade!Fields -> Upgrade!Words]
  BY <1>1 DEF Upgrade!InitParam, Upgrade!Words
<1>4. own["key"] = "random" /\ own["version"] = "13" /\ own["connection"] = "Upgrade"
  BY <1>1 DEF Upgrade!InitParam, Upgrade!Fields
<1>5. {"key", "version", "connection"} \subseteq Upgrade!Fields
  BY DEF Upgrade!Fields
<1> HIDE DEF own
<1>6. CASE who.client = "library"
  <2>1. Upgrade!Asked = own
    BY <1>6 DEF Upgrade!Asked, own
  <2> QED  BY <1>1, <1>2, <1>3, <1>4, <1>6, <2>1 DEF own
<1>7. CASE who.client = "old"
  <2>1. Upgrade!Asked = [own EXCEPT !["version"] = "8"]
    BY <1>7 DEF Upgrade!Asked, Upgrade!OtherClient, own
  <2>2. /\ Upgrade!Asked \in [Upgrade!Fields -> Upgrade!Words] /\ Upgrade!Asked["key"] = "random"
        /\ Upgrade!Asked["version"] = "8" /\ Upgrade!Asked["connection"] = "Upgrade"
    BY <1>3, <1>4, <1>5, <2>1 DEF Upgrade!Words
  <2> QED  BY <1>1, <1>2, <1>3, <1>7, <2>2 DEF own
<1>8. CASE who.client \notin {"library", "old"}
  <2>1. Upgrade!Asked = [own EXCEPT !["connection"] = "keep-alive, Upgrade"]
    BY <1>8 DEF Upgrade!Asked, Upgrade!OtherClient, own
  <2>2. /\ Upgrade!Asked \in [Upgrade!Fields -> Upgrade!Words] /\ Upgrade!Asked["key"] = "random"
        /\ Upgrade!Asked["version"] = "13" /\ Upgrade!Asked["connection"] = "keep-alive, Upgrade"
    BY <1>3, <1>4, <1>5, <2>1 DEF Upgrade!Words
  <2> QED  BY <1>1, <1>2, <1>3, <1>8, <2>2 DEF own
<1> QED  BY <1>6, <1>7, <1>8

\* A set of the first six numbers that is not empty has a greatest.
LEMMA GreatestOfSix ==
    ASSUME NEW S \in SUBSET (1..6), S # {}
    PROVE  \E m \in S : \A j \in S : j <= m
<1>1. \A j \in S : j \in 1..6
  OBVIOUS
<1>2. CASE 6 \in S
  BY <1>1, <1>2
<1>3. CASE 6 \notin S /\ 5 \in S
  BY <1>1, <1>3
<1>4. CASE 6 \notin S /\ 5 \notin S /\ 4 \in S
  BY <1>1, <1>4
<1>5. CASE 6 \notin S /\ 5 \notin S /\ 4 \notin S /\ 3 \in S
  BY <1>1, <1>5
<1>6. CASE 6 \notin S /\ 5 \notin S /\ 4 \notin S /\ 3 \notin S /\ 2 \in S
  BY <1>1, <1>6
<1>7. CASE 6 \notin S /\ 5 \notin S /\ 4 \notin S /\ 3 \notin S /\ 2 \notin S
  <2>1. PICK i \in S : TRUE
    OBVIOUS
  <2>2. \A j \in S : j = 1
    BY <1>1, <1>7
  <2> QED  BY <2>1, <2>2
<1> QED  BY <1>2, <1>3, <1>4, <1>5, <1>6, <1>7

\* The last line of a name is one of that name.
LEMMA LastIsNamed ==
    ASSUME NEW lines \in Seq(Upgrade!Lines), Len(lines) <= 6, NEW name,
           Upgrade!Named(lines, name) # {}
    PROVE  \E i \in DOMAIN lines :
             /\ lines[i].name = name /\ Upgrade!LastWords(lines, name) = lines[i].words
             /\ lines[i] \in Upgrade!Lines
<1> DEFINE S == Upgrade!Named(lines, name)
           m == CHOOSE i \in S : \A j \in S : j <= i
<1>1. DOMAIN lines = 1..Len(lines) /\ Len(lines) \in Nat
  OBVIOUS
<1>2. S \in SUBSET (1..6)
  BY <1>1 DEF Upgrade!Named
<1>3. \E i \in S : \A j \in S : j <= i
  BY <1>2, GreatestOfSix
<1>4. m \in S
  <2> HIDE DEF S
  <2> QED  BY <1>3
<1>5. Upgrade!LastWords(lines, name) = lines[m].words
  BY DEF Upgrade!LastWords
<1> HIDE DEF m
<1>6. m \in DOMAIN lines /\ lines[m].name = name
  BY <1>4 DEF Upgrade!Named
<1>7. lines[m] \in Upgrade!Lines
  BY <1>1, <1>6
<1> QED  BY <1>5, <1>6, <1>7

\* The last line of a name when there is one such line.
LEMMA OnlyLine ==
    ASSUME NEW lines \in Seq(Upgrade!Lines), NEW name, NEW i \in DOMAIN lines,
           lines[i].name = name, \A j \in DOMAIN lines : lines[j].name = name => j = i
    PROVE  Upgrade!Named(lines, name) # {} /\ Upgrade!LastWords(lines, name) = lines[i].words
<1>1. Upgrade!Named(lines, name) = {i}
  BY DEF Upgrade!Named
<1>2. i \in Nat
  OBVIOUS
<1> QED  BY <1>1, <1>2 DEF Upgrade!LastWords

\* A line of some name and words is a line.
LEMMA LineIs ==
    ASSUME NEW name \in Upgrade!Fields \cup {"first", "other", "end"},
           NEW words \in Seq(Upgrade!Words), name # "end" => words # <<>>
    PROVE  /\ Upgrade!Line(name, words) \in Upgrade!Lines
           /\ Upgrade!Line(name, words).name = name /\ Upgrade!Line(name, words).words = words
BY DEF Upgrade!Line, Upgrade!Lines

\* What the server has of a request: of each field the value of the last line
\* with its name, or what it had.
LEMMA ParseRequestIs ==
    ASSUME NEW f \in [Upgrade!Fields -> Upgrade!Words], NEW lines \in Seq(Upgrade!Lines),
           Len(lines) <= 6
    PROVE  /\ Upgrade!ParseRequest(f, lines) \in [Upgrade!Fields -> Upgrade!Words]
           /\ Upgrade!ParseRequest(f, lines)["accept"] = f["accept"]
           /\ \A x \in {"connection", "upgrade", "version", "key"} :
                Upgrade!ParseRequest(f, lines)[x]
                  = IF Upgrade!Named(lines, x) # {} THEN Upgrade!LastWords(lines, x)[1] ELSE f[x]
           /\ Upgrade!ParseRequest(f, lines)["protocolVer"]
                = IF Upgrade!Named(lines, "first") # {} /\ ~who.colon
                  THEN Upgrade!Word(Upgrade!LastWords(lines, "first"), 3) ELSE f["protocolVer"]
<1> DEFINE known == {"connection", "upgrade", "version", "key"}
           h == Upgrade!Headers(f, lines, known)
           v == IF Upgrade!Named(lines, "first") # {} /\ ~who.colon
                THEN Upgrade!Word(Upgrade!LastWords(lines, "first"), 3) ELSE f["protocolVer"]
<1>1. \A name : Upgrade!Named(lines, name) # {} =>
        Upgrade!LastWords(lines, name) \in Seq(Upgrade!Words)
  <2> SUFFICES ASSUME NEW name, Upgrade!Named(lines, name) # {}
               PROVE  Upgrade!LastWords(lines, name) \in Seq(Upgrade!Words)
    OBVIOUS
  <2>1. PICK i \in DOMAIN lines : Upgrade!LastWords(lines, name) = lines[i].words
                                 /\ lines[i] \in Upgrade!Lines
    BY LastIsNamed
  <2>2. \A l \in Upgrade!Lines : l.words \in Seq(Upgrade!Words)
    BY DEF Upgrade!Lines
  <2> QED  BY <2>1, <2>2
<1>2. \A name : Upgrade!Named(lines, name) # {} /\ name # "end" =>
        Upgrade!LastWords(lines, name) # <<>>
  BY SMTT(40), LastIsNamed DEF Upgrade!Lines
<1>3. \A name : Upgrade!Named(lines, name) # {} /\ name # "end" =>
        Upgrade!LastWords(lines, name)[1] \in Upgrade!Words
  BY <1>1, <1>2
<1>4. h = [x \in Upgrade!Fields |->
             IF x \in known /\ Upgrade!Named(lines, x) # {} THEN Upgrade!LastWords(lines, x)[1] ELSE f[x]]
  BY DEF Upgrade!Headers
<1>5. h \in [Upgrade!Fields -> Upgrade!Words]
  <2>1. \A x \in Upgrade!Fields : x # "end"
    BY DEF Upgrade!Fields
  <2> QED  BY <1>3, <1>4, <2>1
<1>6. /\ "protocolVer" \in Upgrade!Fields /\ "accept" \in Upgrade!Fields
      /\ known \subseteq Upgrade!Fields
  BY DEF Upgrade!Fields
<1>7. /\ h["protocolVer"] = f["protocolVer"] /\ h["accept"] = f["accept"]
      /\ \A x \in known : h[x] = IF Upgrade!Named(lines, x) # {} THEN Upgrade!LastWords(lines, x)[1] ELSE f[x]
  BY <1>4, <1>6
<1>8. v \in Upgrade!Words
  <2>1. "" \in Upgrade!Words /\ f["protocolVer"] \in Upgrade!Words
    BY <1>6 DEF Upgrade!Words
  <2>2. CASE Upgrade!Named(lines, "first") # {} /\ ~who.colon
    <3> DEFINE w == Upgrade!LastWords(lines, "first")
    <3>1. w \in Seq(Upgrade!Words)
      BY <1>1, <2>2
    <3> HIDE DEF w
    <3>2. Upgrade!Word(w, 3) \in Upgrade!Words
      <4>1. CASE 3 <= Len(w)
        BY <3>1, <4>1 DEF Upgrade!Word
      <4>2. CASE ~(3 <= Len(w))
        BY <2>1, <4>2 DEF Upgrade!Word
      <4> QED  BY <4>1, <4>2
    <3> QED  BY <2>2, <3>2 DEF w
  <2>3. CASE ~(Upgrade!Named(lines, "first") # {} /\ ~who.colon)
    BY <2>1, <2>3
  <2> QED  BY <2>2, <2>3
<1>9. Upgrade!ParseRequest(f, lines) = [h EXCEPT !["protocolVer"] = v]
  BY <1>7 DEF Upgrade!ParseRequest
<1> HIDE DEF h, v
<1> DEFINE p == [h EXCEPT !["protocolVer"] = v]
<1>10. /\ p \in [Upgrade!Fields -> Upgrade!Words]
       /\ p["accept"] = h["accept"] /\ p["protocolVer"] = v
       /\ \A x \in known : p[x] = h[x]
  BY <1>5, <1>6, <1>8
<1> HIDE DEF p
<1>11. Upgrade!ParseRequest(f, lines) = p
  BY <1>9 DEF p
<1> QED  BY <1>7, <1>10, <1>11 DEF v

\* The same of what the client has of a response.
LEMMA ParseResponseIs ==
    ASSUME NEW f \in [Upgrade!Fields -> Upgrade!Words], NEW lines \in Seq(Upgrade!Lines),
           Len(lines) <= 6
    PROVE  /\ Upgrade!ParseResponse(f, lines) \in [Upgrade!Fields -> Upgrade!Words]
           /\ Upgrade!ParseResponse(f, lines)["key"] = f["key"]
           /\ \A x \in {"connection", "upgrade", "accept"} :
                Upgrade!ParseResponse(f, lines)[x]
                  = IF Upgrade!Named(lines, x) # {} THEN Upgrade!LastWords(lines, x)[1] ELSE f[x]
           /\ Upgrade!ParseResponse(f, lines)["code"]
                = IF Upgrade!Named(lines, "first") # {} /\ Len(Upgrade!LastWords(lines, "first")) >= 2
                  THEN Upgrade!LastWords(lines, "first")[2] ELSE f["code"]
<1> DEFINE known == {"connection", "upgrade", "accept"}
           h == Upgrade!Headers(f, lines, known)
           v == IF Upgrade!Named(lines, "first") # {} /\ Len(Upgrade!LastWords(lines, "first")) >= 2
                THEN Upgrade!LastWords(lines, "first")[2] ELSE f["code"]
<1>1. \A name : Upgrade!Named(lines, name) # {} =>
        Upgrade!LastWords(lines, name) \in Seq(Upgrade!Words)
  <2> SUFFICES ASSUME NEW name, Upgrade!Named(lines, name) # {}
               PROVE  Upgrade!LastWords(lines, name) \in Seq(Upgrade!Words)
    OBVIOUS
  <2>1. PICK i \in DOMAIN lines : Upgrade!LastWords(lines, name) = lines[i].words
                                 /\ lines[i] \in Upgrade!Lines
    BY LastIsNamed
  <2>2. \A l \in Upgrade!Lines : l.words \in Seq(Upgrade!Words)
    BY DEF Upgrade!Lines
  <2> QED  BY <2>1, <2>2
<1>2. \A name : Upgrade!Named(lines, name) # {} /\ name # "end" =>
        Upgrade!LastWords(lines, name) # <<>>
  BY SMTT(40), LastIsNamed DEF Upgrade!Lines
<1>3. \A name : Upgrade!Named(lines, name) # {} /\ name # "end" =>
        Upgrade!LastWords(lines, name)[1] \in Upgrade!Words
  BY <1>1, <1>2
<1>4. h = [x \in Upgrade!Fields |->
             IF x \in known /\ Upgrade!Named(lines, x) # {} THEN Upgrade!LastWords(lines, x)[1] ELSE f[x]]
  BY DEF Upgrade!Headers
<1>5. h \in [Upgrade!Fields -> Upgrade!Words]
  <2>1. \A x \in Upgrade!Fields : x # "end"
    BY DEF Upgrade!Fields
  <2> QED  BY <1>3, <1>4, <2>1
<1>6. /\ "code" \in Upgrade!Fields /\ "key" \in Upgrade!Fields
      /\ known \subseteq Upgrade!Fields
  BY DEF Upgrade!Fields
<1>7. /\ h["code"] = f["code"] /\ h["key"] = f["key"]
      /\ \A x \in known : h[x] = IF Upgrade!Named(lines, x) # {} THEN Upgrade!LastWords(lines, x)[1] ELSE f[x]
  BY <1>4, <1>6
<1>8. v \in Upgrade!Words
  <2>1. "" \in Upgrade!Words /\ f["code"] \in Upgrade!Words
    BY <1>6 DEF Upgrade!Words
  <2>2. CASE Upgrade!Named(lines, "first") # {} /\ Len(Upgrade!LastWords(lines, "first")) >= 2
    <3> DEFINE w == Upgrade!LastWords(lines, "first")
    <3>1. w \in Seq(Upgrade!Words) /\ Len(w) >= 2
      BY <1>1, <2>2
    <3> HIDE DEF w
    <3>2. w[2] \in Upgrade!Words
      BY <3>1
    <3> QED  BY <2>2, <3>2 DEF w
  <2>3. CASE ~(Upgrade!Named(lines, "first") # {} /\ Len(Upgrade!LastWords(lines, "first")) >= 2)
    BY <2>1, <2>3
  <2> QED  BY <2>2, <2>3
<1>9. Upgrade!ParseResponse(f, lines) = [h EXCEPT !["code"] = v]
  BY <1>7 DEF Upgrade!ParseResponse
<1> HIDE DEF h, v
<1> DEFINE p == [h EXCEPT !["code"] = v]
<1>10. /\ p \in [Upgrade!Fields -> Upgrade!Words]
       /\ p["key"] = h["key"] /\ p["code"] = v
       /\ \A x \in known : p[x] = h[x]
  BY <1>5, <1>6, <1>8
<1> HIDE DEF p
<1>11. Upgrade!ParseResponse(f, lines) = p
  BY <1>9 DEF p
<1> QED  BY <1>7, <1>10, <1>11 DEF v

\* Initially.
LEMMA UpgradeInit == Upgrade!Init => Upgrade!UpgradeInv
<1> SUFFICES ASSUME Upgrade!Init PROVE Upgrade!UpgradeInv
  OBVIOUS
<1>1. /\ who \in [client : Clients, server : Servers, colon : BOOLEAN]
      /\ step = "new" /\ hWire = <<>> /\ cut = {}
      /\ hServer = [f |-> Upgrade!Blank, bIsConnect |-> FALSE]
      /\ client = [f |-> Upgrade!Blank, bIsConnect |-> FALSE]
  BY DEF Upgrade!Init, Upgrade!Blank
<1>2. Upgrade!Blank \in [Upgrade!Fields -> Upgrade!Words]
  BY AskedIs
<1>3. Upgrade!UpgradeTypes
  <2>1. hWire \in Seq(Upgrade!Lines) /\ Len(hWire) <= 6
    BY <1>1
  <2> QED  BY <1>1, <1>2, <2>1 DEF Upgrade!UpgradeTypes
<1>4. Upgrade!ServerInv
  <2>1. "accept" \in Upgrade!Fields /\ {"connection", "version", "key"} \subseteq Upgrade!Fields
    BY DEF Upgrade!Fields
  <2>2. hServer.f = Upgrade!Blank /\ ~hServer.bIsConnect
    BY <1>1
  <2>3. Upgrade!Blank["accept"] = "" /\ \A x \in {"connection", "version", "key"} : Upgrade!Blank[x] = ""
    BY <2>1, AskedIs
  <2> QED  BY <1>1, <2>2, <2>3 DEF Upgrade!ServerInv
<1>5. Upgrade!ClientInv
  BY <1>1 DEF Upgrade!ClientInv
<1>6. Upgrade!UncutInv
  BY <1>1 DEF Upgrade!UncutInv
<1> QED  BY <1>3, <1>4, <1>5, <1>6 DEF Upgrade!UpgradeInv

\* A request: its lines, and what they say.
LEMMA RequestIs ==
    ASSUME NEW f \in [Upgrade!Fields -> Upgrade!Words]
    PROVE  /\ Upgrade!Request(f) \in Seq(Upgrade!Lines) /\ Len(Upgrade!Request(f)) = 6
           /\ \A i \in DOMAIN Upgrade!Request(f) :
                Upgrade!Request(f)[i].name \in {"connection", "version", "key"} =>
                  Upgrade!Request(f)[i].words = <<f[Upgrade!Request(f)[i].name]>>
<1> DEFINE names == Upgrade!Fields \cup {"first", "other", "end"}
<1>1. /\ {"GET", "/path", "/path:x"} \subseteq Upgrade!Words
      /\ {"first", "connection", "upgrade", "version", "key", "end"} \subseteq names
      /\ {"protocolVer", "connection", "upgrade", "version", "key"} \subseteq Upgrade!Fields
  BY DEF Upgrade!Words, Upgrade!Fields
<1>2. Upgrade!Target \in Upgrade!Words
  BY <1>1 DEF Upgrade!Target
<1>3. Upgrade!Line("first", <<"GET", Upgrade!Target, f.protocolVer>>) \in Upgrade!Lines
  <2>1. /\ "first" \in names /\ "first" # "end"
        /\ <<"GET", Upgrade!Target, f.protocolVer>> \in Seq(Upgrade!Words)
        /\ <<"GET", Upgrade!Target, f.protocolVer>> # <<>>
    BY <1>1, <1>2
  <2> QED  BY <2>1, LineIs
<1>4. \A x \in {"connection", "upgrade", "version", "key"} : Upgrade!Line(x, <<f[x]>>) \in Upgrade!Lines
  <2> SUFFICES ASSUME NEW x \in {"connection", "upgrade", "version", "key"}
               PROVE  Upgrade!Line(x, <<f[x]>>) \in Upgrade!Lines
    OBVIOUS
  <2>1. x \in names /\ <<f[x]>> \in Seq(Upgrade!Words) /\ <<f[x]>> # <<>>
    BY <1>1
  <2> QED  BY <2>1, LineIs
<1>5. Upgrade!Line("end", <<>>) \in Upgrade!Lines
  <2>1. "end" \in names /\ <<>> \in Seq(Upgrade!Words)
    BY <1>1
  <2> QED  BY <2>1, LineIs
<1>6. Upgrade!Request(f) =
        << Upgrade!Line("first", <<"GET", Upgrade!Target, f.protocolVer>>),
           Upgrade!Line("connection", <<f["connection"]>>), Upgrade!Line("upgrade", <<f["upgrade"]>>),
           Upgrade!Line("version", <<f["version"]>>), Upgrade!Line("key", <<f["key"]>>),
           Upgrade!Line("end", <<>>) >>
  BY DEF Upgrade!Request
<1>7. Upgrade!Request(f) \in Seq(Upgrade!Lines) /\ Len(Upgrade!Request(f)) = 6
  BY <1>3, <1>4, <1>5, <1>6
<1>8. ASSUME NEW i \in 1..6
      PROVE  Upgrade!Request(f)[i].name \in {"connection", "version", "key"} =>
               Upgrade!Request(f)[i].words = <<f[Upgrade!Request(f)[i].name]>>
  <2>1. i = 1 \/ i = 2 \/ i = 3 \/ i = 4 \/ i = 5 \/ i = 6
    OBVIOUS
  <2> QED  BY <1>6, <2>1 DEF Upgrade!Line
<1>9. DOMAIN Upgrade!Request(f) = 1..6
  BY <1>7
<1> QED  BY <1>7, <1>8, <1>9

\* The client's or another's request goes out.
LEMMA DoHandShakeKeeps ==
    ASSUME Upgrade!UpgradeInv, Upgrade!DoHandShake
    PROVE  Upgrade!UpgradeInv'
<1>1. /\ step = "new" /\ step' = "requested" /\ UNCHANGED <<who, hServer, cut>>
      /\ client.f = Upgrade!Blank /\ hServer.f = Upgrade!Blank
      /\ ~client.bIsConnect /\ ~hServer.bIsConnect
  <2>1. step = "new" /\ step' = "requested" /\ UNCHANGED <<who, hServer, cut>>
    BY DEF Upgrade!DoHandShake
  <2>2. client.f = Upgrade!Blank /\ ~client.bIsConnect
    BY <2>1 DEF Upgrade!UpgradeInv, Upgrade!ClientInv
  <2>3. hServer = [f |-> Upgrade!Blank, bIsConnect |-> FALSE]
    BY <2>1 DEF Upgrade!UpgradeInv, Upgrade!ServerInv
  <2> QED  BY <2>1, <2>2, <2>3
<1>2. /\ hWire' = Upgrade!Request(Upgrade!Asked)
      /\ client' = IF who.client = "library"
                   THEN [client EXCEPT !.f = Upgrade!InitParam(Upgrade!Blank)] ELSE client
  BY <1>1 DEF Upgrade!DoHandShake, Upgrade!Asked
<1>3. /\ hWire' \in Seq(Upgrade!Lines) /\ Len(hWire') = 6
      /\ \A i \in DOMAIN hWire' : hWire'[i].name \in {"connection", "version", "key"} =>
           hWire'[i].words = <<Upgrade!Asked[hWire'[i].name]>>
  BY <1>2, AskedIs, RequestIs
<1>4. Upgrade!Asked' = Upgrade!Asked
  BY <1>1 DEF Upgrade!Asked, Upgrade!InitParam, Upgrade!OtherClient, Upgrade!Blank
<1>5. /\ client' \in [f : [Upgrade!Fields -> Upgrade!Words], bIsConnect : BOOLEAN]
      /\ client'.bIsConnect = client.bIsConnect
      /\ who.client = "library" => client'.f = Upgrade!InitParam(Upgrade!Blank)
  BY <1>2, AskedIs DEF Upgrade!UpgradeInv, Upgrade!UpgradeTypes
<1>6. Upgrade!UpgradeTypes'
  BY <1>1, <1>3, <1>5 DEF Upgrade!UpgradeInv, Upgrade!UpgradeTypes
<1>7. Upgrade!ServerInv'
  BY <1>1, <1>3, <1>4 DEF Upgrade!UpgradeInv, Upgrade!ServerInv
<1>8. Upgrade!ClientInv'
  BY <1>1, <1>5 DEF Upgrade!ClientInv
<1>9. Upgrade!UncutInv'
  <2>1. who.client = "library" => hWire' = Upgrade!Request(Upgrade!InitParam(Upgrade!Blank))
    BY <1>2, AskedIs
  <2> QED  BY <1>1, <1>5, <2>1 DEF Upgrade!UncutInv, Upgrade!Request, Upgrade!Target
<1> QED  BY <1>6, <1>7, <1>8, <1>9 DEF Upgrade!UpgradeInv

\* Another server's response: its lines.
LEMMA OtherResponseIs ==
    /\ Upgrade!OtherResponse \in Seq(Upgrade!Lines) /\ Len(Upgrade!OtherResponse) = 4
    /\ Upgrade!OtherResponse[1].name = "first" /\ Upgrade!OtherResponse[4].name = "end"
    /\ Upgrade!OtherResponse[1].words
         = <<"HTTP/1.1", IF who.server = "refusing" THEN "400" ELSE "101">>
    /\ Upgrade!OtherResponse[2].name \in {"upgrade", "other"}
    /\ who.server = "other" =>
         Upgrade!OtherResponse[2].name = "upgrade" /\ Upgrade!OtherResponse[2].words = <<"h2c">>
    /\ Upgrade!OtherResponse[3].name = "accept"
<1> DEFINE names == Upgrade!Fields \cup {"first", "other", "end"}
           a == IF who.server = "refusing" THEN "400" ELSE "101"
           u == CASE who.server = "other"  -> Upgrade!Line("upgrade", <<"h2c">>)
                  [] who.server = "silent" -> Upgrade!Line("other", <<"header">>)
                  [] OTHER -> Upgrade!Line("upgrade", <<"WebSocket">>)
<1>1. /\ {"HTTP/1.1", "101", "400", "h2c", "header", "WebSocket", "sha(random)"} \subseteq Upgrade!Words
      /\ {"first", "upgrade", "other", "accept", "end"} \subseteq names
  BY DEF Upgrade!Words, Upgrade!Fields
<1>2. Upgrade!Line("first", <<"HTTP/1.1", a>>) \in Upgrade!Lines
  <2>1. "first" \in names /\ <<"HTTP/1.1", a>> \in Seq(Upgrade!Words) /\ <<"HTTP/1.1", a>> # <<>>
    BY <1>1
  <2> QED  BY <2>1, LineIs
<1>3. \A x \in {"upgrade", "other", "accept"}, w \in Upgrade!Words :
        Upgrade!Line(x, <<w>>) \in Upgrade!Lines
  <2> SUFFICES ASSUME NEW x \in {"upgrade", "other", "accept"}, NEW w \in Upgrade!Words
               PROVE  Upgrade!Line(x, <<w>>) \in Upgrade!Lines
    OBVIOUS
  <2>1. x \in names /\ <<w>> \in Seq(Upgrade!Words) /\ <<w>> # <<>>
    BY <1>1
  <2> QED  BY <2>1, LineIs
<1>4. Upgrade!Line("end", <<>>) \in Upgrade!Lines
  <2>1. "end" \in names /\ <<>> \in Seq(Upgrade!Words)
    BY <1>1
  <2> QED  BY <2>1, LineIs
<1>5. u \in Upgrade!Lines
  BY <1>1, <1>3
<1>6. /\ u.name \in {"upgrade", "other"}
      /\ who.server = "other" => u.name = "upgrade" /\ u.words = <<"h2c">>
  BY DEF Upgrade!Line
<1>7. Upgrade!Line("accept", <<"sha(random)">>) \in Upgrade!Lines
  BY <1>1, <1>3
<1>8. Upgrade!OtherResponse
        = <<Upgrade!Line("first", <<"HTTP/1.1", a>>), u,
            Upgrade!Line("accept", <<"sha(random)">>), Upgrade!Line("end", <<>>)>>
  <2>1. Upgrade!Accept("random") = "sha(random)"
    BY DEF Upgrade!Accept
  <2> QED  BY <2>1 DEF Upgrade!OtherResponse
<1> HIDE DEF u
<1>9. Upgrade!OtherResponse \in Seq(Upgrade!Lines) /\ Len(Upgrade!OtherResponse) = 4
  BY <1>2, <1>4, <1>5, <1>7, <1>8
<1>10. /\ Upgrade!OtherResponse[1] = Upgrade!Line("first", <<"HTTP/1.1", a>>)
       /\ Upgrade!OtherResponse[2] = u
       /\ Upgrade!OtherResponse[3] = Upgrade!Line("accept", <<"sha(random)">>)
       /\ Upgrade!OtherResponse[4] = Upgrade!Line("end", <<>>)
  BY <1>8
<1>11. /\ Upgrade!OtherResponse[1].name = "first" /\ Upgrade!OtherResponse[4].name = "end"
       /\ Upgrade!OtherResponse[1].words = <<"HTTP/1.1", a>>
       /\ Upgrade!OtherResponse[3].name = "accept"
  BY <1>10 DEF Upgrade!Line
<1> QED  BY <1>6, <1>9, <1>10, <1>11

\* Another server answers.
LEMMA OtherAnswersKeeps ==
    ASSUME Upgrade!UpgradeInv, Upgrade!OtherAnswers
    PROVE  Upgrade!UpgradeInv'
<1>1. /\ step = "requested" /\ step' = "answered" /\ who.server # "library"
      /\ hWire' = Upgrade!OtherResponse /\ UNCHANGED <<who, hServer, client, cut>>
  BY DEF Upgrade!OtherAnswers
<1>2. hWire' \in Seq(Upgrade!Lines) /\ Len(hWire') = 4
  BY <1>1, OtherResponseIs
<1>3. Upgrade!UpgradeTypes'
  BY <1>1, <1>2 DEF Upgrade!UpgradeInv, Upgrade!UpgradeTypes
<1>4. Upgrade!ServerInv'
  BY <1>1 DEF Upgrade!UpgradeInv, Upgrade!ServerInv
<1>5. Upgrade!ClientInv'
  BY <1>1 DEF Upgrade!UpgradeInv, Upgrade!ClientInv, Upgrade!OtherResponse
<1>6. Upgrade!UncutInv'
  BY <1>1 DEF Upgrade!UncutInv
<1> QED  BY <1>3, <1>4, <1>5, <1>6 DEF Upgrade!UpgradeInv

\* A response: its lines.
LEMMA ResponseIs ==
    ASSUME NEW f \in [Upgrade!Fields -> Upgrade!Words]
    PROVE  /\ Upgrade!Response(f) \in Seq(Upgrade!Lines) /\ Len(Upgrade!Response(f)) = 5
           /\ Upgrade!Response(f)[1].name = "first"
           /\ f.protocolVer = "" => Upgrade!Response(f)[1].words = <<"101", "Switching", "Protocols">>
           /\ f.protocolVer # "" =>
                Upgrade!Response(f)[1].words = <<f.protocolVer, "101", "Switching", "Protocols">>
           /\ Upgrade!Response(f)[2] = Upgrade!Line("connection", <<f.connection>>)
           /\ Upgrade!Response(f)[3] = Upgrade!Line("upgrade", <<f.upgrade>>)
           /\ Upgrade!Response(f)[4] = Upgrade!Line("accept", <<f.accept>>)
           /\ Upgrade!Response(f)[5] = Upgrade!Line("end", <<>>)
<1> DEFINE names == Upgrade!Fields \cup {"first", "other", "end"}
           ws == (IF f.protocolVer = "" THEN <<>> ELSE <<f.protocolVer>>)
                   \o <<"101", "Switching", "Protocols">>
<1>1. /\ {"101", "Switching", "Protocols"} \subseteq Upgrade!Words
      /\ {"first", "connection", "upgrade", "accept", "end"} \subseteq names
      /\ {"protocolVer", "connection", "upgrade", "accept"} \subseteq Upgrade!Fields
  BY DEF Upgrade!Words, Upgrade!Fields
<1>2. f.protocolVer = "" => ws = <<"101", "Switching", "Protocols">>
  <2>1. <<>> \o <<"101", "Switching", "Protocols">> = <<"101", "Switching", "Protocols">>
    OBVIOUS
  <2> QED  BY <2>1
<1>3. f.protocolVer # "" => ws = <<f.protocolVer, "101", "Switching", "Protocols">>
  <2> DEFINE a == f.protocolVer
             x == <<a>>
             y == <<"101", "Switching", "Protocols">>
             z == <<a, "101", "Switching", "Protocols">>
  <2>1. /\ x \in Seq(Upgrade!Words) /\ Len(x) = 1 /\ x[1] = a
        /\ y \in Seq(Upgrade!Words) /\ Len(y) = 3
        /\ y[1] = "101" /\ y[2] = "Switching" /\ y[3] = "Protocols"
        /\ z \in Seq(Upgrade!Words) /\ Len(z) = 4
        /\ z[1] = a /\ z[2] = "101" /\ z[3] = "Switching" /\ z[4] = "Protocols"
    BY <1>1
  <2> HIDE DEF a, x, y, z
  <2>2. /\ x \o y \in Seq(Upgrade!Words) /\ Len(x \o y) = 4
        /\ (x \o y)[1] = x[1] /\ (x \o y)[2] = y[1] /\ (x \o y)[3] = y[2] /\ (x \o y)[4] = y[3]
    <3>1. x \in Seq(Upgrade!Words) /\ y \in Seq(Upgrade!Words)
      BY <2>1
    <3>2. /\ x \o y \in Seq(Upgrade!Words) /\ Len(x \o y) = Len(x) + Len(y)
          /\ \A i \in 1..Len(x) : (x \o y)[i] = x[i]
          /\ \A i \in 1..Len(y) : (x \o y)[Len(x) + i] = y[i]
      BY <3>1
    <3>3. Len(x) = 1 /\ Len(y) = 3
      BY <2>1
    <3>4. /\ 1 \in 1..Len(x) /\ 1 \in 1..Len(y) /\ 2 \in 1..Len(y) /\ 3 \in 1..Len(y)
          /\ Len(x) + 1 = 2 /\ Len(x) + 2 = 3 /\ Len(x) + 3 = 4 /\ Len(x) + Len(y) = 4
      BY <3>3
    <3>5. (x \o y)[Len(x) + 1] = y[1] /\ (x \o y)[Len(x) + 2] = y[2] /\ (x \o y)[Len(x) + 3] = y[3]
      BY <3>2, <3>4
    <3> QED  BY <3>2, <3>4, <3>5
  <2>3. \A i \in 1..4 : (x \o y)[i] = z[i]
    <3>1. \A i \in 1..4 : i = 1 \/ i = 2 \/ i = 3 \/ i = 4
      OBVIOUS
    <3> QED  BY <2>1, <2>2, <3>1
  <2>4. x \o y = z
    BY <2>1, <2>2, <2>3, SameSequence
  <2> QED  BY <2>4 DEF a, x, y, z
<1>4. ws \in Seq(Upgrade!Words) /\ ws # <<>>
  <2> HIDE DEF ws
  <2>1. /\ <<"101", "Switching", "Protocols">> \in Seq(Upgrade!Words)
        /\ <<f.protocolVer, "101", "Switching", "Protocols">> \in Seq(Upgrade!Words)
    BY <1>1
  <2>2. /\ <<"101", "Switching", "Protocols">> # <<>>
        /\ <<f.protocolVer, "101", "Switching", "Protocols">> # <<>>
    OBVIOUS
  <2>3. CASE f.protocolVer = ""
    BY <1>2, <2>1, <2>2, <2>3
  <2>4. CASE f.protocolVer # ""
    BY <1>3, <2>1, <2>2, <2>4
  <2> QED  BY <2>3, <2>4
<1>5. Upgrade!Response(f) =
        << Upgrade!Line("first", ws), Upgrade!Line("connection", <<f.connection>>),
           Upgrade!Line("upgrade", <<f.upgrade>>), Upgrade!Line("accept", <<f.accept>>),
           Upgrade!Line("end", <<>>) >>
  BY DEF Upgrade!Response
<1> HIDE DEF ws
<1>6. /\ Upgrade!Line("first", ws) \in Upgrade!Lines
      /\ Upgrade!Line("first", ws).name = "first" /\ Upgrade!Line("first", ws).words = ws
  <2>1. "first" \in names /\ ws \in Seq(Upgrade!Words) /\ ws # <<>>
    BY <1>1, <1>4
  <2> QED  BY <2>1, LineIs
<1>7. \A x \in {"connection", "upgrade", "accept"} : Upgrade!Line(x, <<f[x]>>) \in Upgrade!Lines
  <2> SUFFICES ASSUME NEW x \in {"connection", "upgrade", "accept"}
               PROVE  Upgrade!Line(x, <<f[x]>>) \in Upgrade!Lines
    OBVIOUS
  <2>1. x \in names /\ <<f[x]>> \in Seq(Upgrade!Words) /\ <<f[x]>> # <<>>
    BY <1>1
  <2> QED  BY <2>1, LineIs
<1>8. Upgrade!Line("end", <<>>) \in Upgrade!Lines
  <2>1. "end" \in names /\ <<>> \in Seq(Upgrade!Words)
    BY <1>1
  <2> QED  BY <2>1, LineIs
<1>9. Upgrade!Response(f) \in Seq(Upgrade!Lines) /\ Len(Upgrade!Response(f)) = 5
  BY <1>5, <1>6, <1>7, <1>8
<1>10. /\ Upgrade!Response(f)[1] = Upgrade!Line("first", ws)
       /\ Upgrade!Response(f)[2] = Upgrade!Line("connection", <<f.connection>>)
       /\ Upgrade!Response(f)[3] = Upgrade!Line("upgrade", <<f.upgrade>>)
       /\ Upgrade!Response(f)[4] = Upgrade!Line("accept", <<f.accept>>)
       /\ Upgrade!Response(f)[5] = Upgrade!Line("end", <<>>)
  BY <1>5
<1> QED  BY <1>2, <1>3, <1>6, <1>9, <1>10

\* The beginning of a sequence of lines, and the rest of it.
LEMMA TwoSegments ==
    ASSUME NEW lines \in Seq(Upgrade!Lines), Len(lines) <= 6, NEW n \in 1..Len(lines)
    PROVE  /\ SubSeq(lines, 1, n) \in Seq(Upgrade!Lines) /\ Len(SubSeq(lines, 1, n)) = n
           /\ n <= 6 /\ n \in Nat
           /\ \A i \in 1..n : SubSeq(lines, 1, n)[i] = lines[i] /\ i \in DOMAIN lines
           /\ SubSeq(lines, n + 1, Len(lines)) \in Seq(Upgrade!Lines)
           /\ Len(SubSeq(lines, n + 1, Len(lines))) <= 6
           /\ \A i \in DOMAIN SubSeq(lines, n + 1, Len(lines)) :
                \E j \in DOMAIN lines : SubSeq(lines, n + 1, Len(lines))[i] = lines[j]
           /\ n = Len(lines) => SubSeq(lines, 1, n) = lines
<1>1. Len(lines) \in Nat /\ DOMAIN lines = 1..Len(lines) /\ n \in Nat /\ n >= 1 /\ n <= Len(lines)
  OBVIOUS
<1>2. /\ SubSeq(lines, 1, n) \in Seq(Upgrade!Lines) /\ Len(SubSeq(lines, 1, n)) = n
      /\ \A i \in 1..n : SubSeq(lines, 1, n)[i] = lines[i] /\ i \in DOMAIN lines
  BY <1>1
<1> DEFINE rest == SubSeq(lines, n + 1, Len(lines))
           size == Len(lines) - n
<1>3. /\ rest \in Seq(Upgrade!Lines) /\ Len(rest) = Len(lines) - n
      /\ \A i \in 1..Len(rest) : rest[i] = lines[n + i] /\ n + i \in 1..Len(lines)
  <2>1. size \in Nat /\ n + size <= Len(lines) /\ n + size = Len(lines)
    BY <1>1
  <2> HIDE DEF size
  <2>2. /\ SubSeq(lines, n + 1, n + size) \in Seq(Upgrade!Lines)
        /\ Len(SubSeq(lines, n + 1, n + size)) = size
        /\ \A i \in 1..size : SubSeq(lines, n + 1, n + size)[i] = lines[n + i]
    BY <1>1, <2>1
  <2>3. \A i \in 1..size : n + i \in 1..Len(lines)
    BY <1>1, <2>1
  <2> QED  BY <2>1, <2>2, <2>3 DEF size
<1>4. \A i \in DOMAIN rest : \E j \in DOMAIN lines : rest[i] = lines[j]
  <2> HIDE DEF rest
  <2>1. DOMAIN rest = 1..Len(rest)
    BY <1>3
  <2> QED  BY <1>1, <1>3, <2>1
<1>5. n = Len(lines) => SubSeq(lines, 1, n) = lines
  BY <1>1
<1>6. Len(rest) <= 6 /\ n <= 6
  BY <1>1, <1>3
<1> QED  BY <1>1, <1>2, <1>3, <1>4, <1>5, <1>6

\* The request of this library's client, whole, as the server reads it.
LEMMA OwnRequestIsRead ==
    ASSUME who.colon \in BOOLEAN
    PROVE  LET r == Upgrade!Request(Upgrade!InitParam(Upgrade!Blank))
               p == Upgrade!ParseRequest(Upgrade!Blank, r)
           IN  /\ Upgrade!Whole(r) /\ Upgrade!Acceptable(p)
               /\ p["protocolVer"] = IF who.colon THEN "" ELSE "HTTP/1.1"
               /\ p["connection"] = "Upgrade" /\ p["upgrade"] = "websocket"
<1> DEFINE own == Upgrade!InitParam(Upgrade!Blank)
           r == Upgrade!Request(own)
           p == Upgrade!ParseRequest(Upgrade!Blank, r)
<1>1. /\ own["protocolVer"] = "HTTP/1.1" /\ own["connection"] = "Upgrade"
      /\ own["upgrade"] = "websocket" /\ own["version"] = "13" /\ own["key"] = "random"
  <2>1. Upgrade!Blank \in [Upgrade!Fields -> Upgrade!Words]
    BY AskedIs
  <2> QED  BY <2>1 DEF Upgrade!InitParam, Upgrade!Fields
<1>2. own \in [Upgrade!Fields -> Upgrade!Words]
  BY AskedIs
<1> HIDE DEF own
<1>3. r \in Seq(Upgrade!Lines) /\ Len(r) = 6
  BY <1>2, RequestIs
<1>4. /\ r[1] = [name |-> "first", words |-> <<"GET", Upgrade!Target, own.protocolVer>>]
      /\ r[2] = [name |-> "connection", words |-> <<own.connection>>]
      /\ r[3] = [name |-> "upgrade", words |-> <<own.upgrade>>]
      /\ r[4] = [name |-> "version", words |-> <<own.version>>]
      /\ r[5] = [name |-> "key", words |-> <<own.key>>]
      /\ r[6] = [name |-> "end", words |-> <<>>]
  BY DEF Upgrade!Request, Upgrade!Line
<1> HIDE DEF r
<1>5. DOMAIN r = 1..6 /\ \A j \in 1..6 : j = 1 \/ j = 2 \/ j = 3 \/ j = 4 \/ j = 5 \/ j = 6
  BY <1>3
<1>6. Upgrade!Named(r, "first") # {} /\ Upgrade!LastWords(r, "first") = r[1].words
  <2>1. 1 \in DOMAIN r /\ r[1].name = "first" /\ \A j \in DOMAIN r : r[j].name = "first" => j = 1
    BY <1>4, <1>5
  <2> QED  BY <1>3, <2>1, OnlyLine
<1>7. Upgrade!Named(r, "connection") # {} /\ Upgrade!LastWords(r, "connection") = r[2].words
  <2>1. 2 \in DOMAIN r /\ r[2].name = "connection"
        /\ \A j \in DOMAIN r : r[j].name = "connection" => j = 2
    BY <1>4, <1>5
  <2> QED  BY <1>3, <2>1, OnlyLine
<1>8. Upgrade!Named(r, "upgrade") # {} /\ Upgrade!LastWords(r, "upgrade") = r[3].words
  <2>1. 3 \in DOMAIN r /\ r[3].name = "upgrade" /\ \A j \in DOMAIN r : r[j].name = "upgrade" => j = 3
    BY <1>4, <1>5
  <2> QED  BY <1>3, <2>1, OnlyLine
<1>9. Upgrade!Named(r, "version") # {} /\ Upgrade!LastWords(r, "version") = r[4].words
  <2>1. 4 \in DOMAIN r /\ r[4].name = "version" /\ \A j \in DOMAIN r : r[j].name = "version" => j = 4
    BY <1>4, <1>5
  <2> QED  BY <1>3, <2>1, OnlyLine
<1>10. Upgrade!Named(r, "key") # {} /\ Upgrade!LastWords(r, "key") = r[5].words
  <2>1. 5 \in DOMAIN r /\ r[5].name = "key" /\ \A j \in DOMAIN r : r[j].name = "key" => j = 5
    BY <1>4, <1>5
  <2> QED  BY <1>3, <2>1, OnlyLine
<1>11. /\ p["protocolVer"] = IF who.colon THEN Upgrade!Blank["protocolVer"]
                             ELSE Upgrade!Word(r[1].words, 3)
       /\ p["connection"] = r[2].words[1] /\ p["upgrade"] = r[3].words[1]
       /\ p["version"] = r[4].words[1] /\ p["key"] = r[5].words[1]
  <2>0. Upgrade!Blank \in [Upgrade!Fields -> Upgrade!Words]
    BY AskedIs
  <2>1. Len(r) <= 6
    BY <1>3
  <2>2. /\ \A x \in {"connection", "upgrade", "version", "key"} :
             p[x] = IF Upgrade!Named(r, x) # {} THEN Upgrade!LastWords(r, x)[1] ELSE Upgrade!Blank[x]
        /\ p["protocolVer"] = IF Upgrade!Named(r, "first") # {} /\ ~who.colon
                              THEN Upgrade!Word(Upgrade!LastWords(r, "first"), 3)
                              ELSE Upgrade!Blank["protocolVer"]
    BY <1>3, <2>0, <2>1, ParseRequestIs
  <2> HIDE DEF p
  <2> QED  BY <1>6, <1>7, <1>8, <1>9, <1>10, <2>2
<1> HIDE DEF p
<1>12. Upgrade!Whole(r)
  BY <1>4, <1>5 DEF Upgrade!Whole
<1>13. Upgrade!Word(r[1].words, 3) = "HTTP/1.1" /\ Upgrade!Blank["protocolVer"] = ""
  <2>1. "protocolVer" \in Upgrade!Fields
    BY DEF Upgrade!Fields
  <2>2. Upgrade!Word(r[1].words, 3) = "HTTP/1.1"
    BY <1>1, <1>4 DEF Upgrade!Word
  <2> QED  BY <2>1, <2>2, AskedIs
<1>14. /\ p["connection"] = "Upgrade" /\ p["upgrade"] = "websocket" /\ p["version"] = "13"
       /\ p["key"] = "random"
  BY <1>1, <1>4, <1>11
<1>15. Upgrade!Acceptable(p)
  BY <1>14 DEF Upgrade!Acceptable
<1> QED  BY <1>11, <1>12, <1>13, <1>14, <1>15 DEF r, p, own

\* What a request of n lines, or of which n lines have come, makes of the fields.
LEMMA WhatServerReads ==
    ASSUME Upgrade!UpgradeTypes, Upgrade!ServerInv, step = "requested", NEW n \in 1..Len(hWire)
    PROVE  LET lines == SubSeq(hWire, 1, n)
               f == IF Upgrade!Whole(lines) THEN Upgrade!ParseRequest(hServer.f, lines) ELSE hServer.f
           IN  /\ f \in [Upgrade!Fields -> Upgrade!Words] /\ f["accept"] = ""
               /\ \A x \in {"connection", "version", "key"} : f[x] \in {"", Upgrade!Asked[x]}
<1> DEFINE lines == SubSeq(hWire, 1, n)
           p == Upgrade!ParseRequest(hServer.f, lines)
           three == {"connection", "version", "key"}
<1>1. /\ hWire \in Seq(Upgrade!Lines) /\ Len(hWire) <= 6
      /\ hServer.f \in [Upgrade!Fields -> Upgrade!Words] /\ hServer.f["accept"] = ""
      /\ \A x \in three : hServer.f[x] \in {"", Upgrade!Asked[x]}
      /\ \A i \in DOMAIN hWire : hWire[i].name \in three => hWire[i].words = <<Upgrade!Asked[hWire[i].name]>>
  BY DEF Upgrade!UpgradeTypes, Upgrade!ServerInv
<1>2. /\ lines \in Seq(Upgrade!Lines) /\ Len(lines) = n /\ Len(lines) <= 6
      /\ \A i \in 1..n : lines[i] = hWire[i] /\ i \in DOMAIN hWire
  BY <1>1, TwoSegments
<1> HIDE DEF lines
<1>3. p \in [Upgrade!Fields -> Upgrade!Words] /\ p["accept"] = hServer.f["accept"]
  BY <1>1, <1>2, ParseRequestIs
<1>4. \A x \in three : p[x] = IF Upgrade!Named(lines, x) # {} THEN Upgrade!LastWords(lines, x)[1]
                              ELSE hServer.f[x]
  <2>1. hServer.f \in [Upgrade!Fields -> Upgrade!Words] /\ lines \in Seq(Upgrade!Lines)
    BY <1>1, <1>2
  <2>2. Len(lines) <= 6
    BY <1>2
  <2>3. \A x \in {"connection", "upgrade", "version", "key"} :
          p[x] = IF Upgrade!Named(lines, x) # {} THEN Upgrade!LastWords(lines, x)[1] ELSE hServer.f[x]
    BY <2>1, <2>2, ParseRequestIs
  <2> HIDE DEF p
  <2> QED  BY <2>3
<1> HIDE DEF p
<1>5. \A x \in three : p[x] \in {"", Upgrade!Asked[x]}
  <2> SUFFICES ASSUME NEW x \in three PROVE p[x] \in {"", Upgrade!Asked[x]}
    OBVIOUS
  <2>1. CASE Upgrade!Named(lines, x) # {}
    <3>1. PICK i \in DOMAIN lines : lines[i].name = x /\ Upgrade!LastWords(lines, x) = lines[i].words
      BY <1>2, <2>1, LastIsNamed
    <3>2. DOMAIN lines = 1..n
      BY <1>2
    <3>3. i \in DOMAIN hWire /\ lines[i] = hWire[i]
      BY <1>2, <3>2
    <3>4. hWire[i].name = x /\ hWire[i].words = <<Upgrade!Asked[hWire[i].name]>>
      BY <1>1, <3>1, <3>3
    <3>5. Upgrade!LastWords(lines, x)[1] = Upgrade!Asked[x]
      BY <3>1, <3>3, <3>4
    <3> QED  BY <1>4, <2>1, <3>5
  <2>2. CASE Upgrade!Named(lines, x) = {}
    BY <1>1, <1>4, <2>2
  <2> QED  BY <2>1, <2>2
<1>6. CASE Upgrade!Whole(lines)
  BY <1>1, <1>3, <1>5, <1>6 DEF lines, p
<1>7. CASE ~Upgrade!Whole(lines)
  BY <1>1, <1>7 DEF lines, p
<1> QED  BY <1>6, <1>7

\* The server reads a segment of a request.
LEMMA OnRequestKeeps ==
    ASSUME Upgrade!UpgradeInv, NEW n \in 1..Len(hWire), Upgrade!OnRequest(n)
    PROVE  Upgrade!UpgradeInv'
<1> DEFINE lines == SubSeq(hWire, 1, n)
           f == IF Upgrade!Whole(lines) THEN Upgrade!ParseRequest(hServer.f, lines) ELSE hServer.f
           g == [f EXCEPT !.accept = Upgrade!Appended(@, Upgrade!Accept(f.key))]
<1>1. /\ step = "requested" /\ who.server = "library" /\ UNCHANGED <<who, client>>
      /\ cut' = cut \cup (IF n < Len(hWire) THEN {"request"} ELSE {})
      /\ IF Upgrade!Whole(lines) /\ Upgrade!Acceptable(f)
         THEN /\ hServer' = [f |-> g, bIsConnect |-> TRUE]
              /\ hWire' = Upgrade!Response(g) /\ step' = "answered"
         ELSE /\ hServer' = [hServer EXCEPT !.f = f]
              /\ hWire' = SubSeq(hWire, n + 1, Len(hWire)) /\ step' = step
  BY DEF Upgrade!OnRequest
<1>2. /\ f \in [Upgrade!Fields -> Upgrade!Words] /\ f["accept"] = ""
      /\ \A x \in {"connection", "version", "key"} : f[x] \in {"", Upgrade!Asked[x]}
  BY <1>1, WhatServerReads DEF Upgrade!UpgradeInv
<1>3. /\ hWire \in Seq(Upgrade!Lines) /\ Len(hWire) <= 6 /\ ~hServer.bIsConnect
      /\ hServer \in [f : [Upgrade!Fields -> Upgrade!Words], bIsConnect : BOOLEAN]
      /\ who \in [client : Clients, server : Servers, colon : BOOLEAN]
      /\ client \in [f : [Upgrade!Fields -> Upgrade!Words], bIsConnect : BOOLEAN]
      /\ ~client.bIsConnect
  BY <1>1 DEF Upgrade!UpgradeInv, Upgrade!UpgradeTypes, Upgrade!ServerInv, Upgrade!ClientInv
<1>4. Upgrade!Asked' = Upgrade!Asked
  BY <1>1 DEF Upgrade!Asked, Upgrade!InitParam, Upgrade!OtherClient, Upgrade!Blank
<1>5. cut' = {} => cut = {} /\ n = Len(hWire)
  <2>1. cut' = {} => cut = {} /\ ~(n < Len(hWire))
    BY <1>1
  <2>2. Len(hWire) \in Nat
    BY <1>3
  <2> QED  BY <2>1, <2>2
<1>6. who.client = "library" /\ cut' = {} =>
        /\ Upgrade!Whole(lines) /\ Upgrade!Acceptable(f)
        /\ f["protocolVer"] = IF who.colon THEN "" ELSE "HTTP/1.1"
        /\ f["connection"] = "Upgrade" /\ f["upgrade"] = "websocket"
  <2> SUFFICES ASSUME who.client = "library", cut' = {}
               PROVE  /\ Upgrade!Whole(lines) /\ Upgrade!Acceptable(f)
                      /\ f["protocolVer"] = IF who.colon THEN "" ELSE "HTTP/1.1"
                      /\ f["connection"] = "Upgrade" /\ f["upgrade"] = "websocket"
    OBVIOUS
  <2> DEFINE r == Upgrade!Request(Upgrade!InitParam(Upgrade!Blank))
  <2>1. hWire = r /\ hServer.f = Upgrade!Blank
    BY <1>1, <1>5 DEF Upgrade!UpgradeInv, Upgrade!UncutInv
  <2>2. lines = hWire
    BY <1>3, <1>5, TwoSegments
  <2>3. who.colon \in BOOLEAN
    BY <1>3, Kinds
  <2> HIDE DEF lines, r
  <2>4. Upgrade!Whole(r) /\ f = Upgrade!ParseRequest(Upgrade!Blank, r)
    BY <2>1, <2>2, <2>3, OwnRequestIsRead DEF r
  <2> QED  BY <2>1, <2>2, <2>3, <2>4, OwnRequestIsRead DEF r
<1> HIDE DEF f, lines
<1>7. CASE Upgrade!Whole(lines) /\ Upgrade!Acceptable(f)
  <2>1. /\ f["connection"] = "Upgrade" /\ f["version"] = "13" /\ f["key"] # ""
        /\ f["upgrade"] = "websocket"
    BY <1>7 DEF Upgrade!Acceptable
  <2>2. who.client = "library"
    <3>1. who.client \in {"library", "old", "keep-alive"}
      BY <1>3, Kinds
    <3>2. Upgrade!Asked["version"] = "13" /\ Upgrade!Asked["connection"] = "Upgrade"
      BY <1>2, <2>1
    <3> QED  BY <3>1, <3>2, AskedIs
  <2>3. f["key"] = "random"
    BY <1>2, <2>1, AskedIs
  <2>4. g = [f EXCEPT !["accept"] = Upgrade!Accept("random")]
    <3>1. Upgrade!Appended(f["accept"], Upgrade!Accept(f["key"])) = Upgrade!Accept("random")
      BY <1>2, <2>3 DEF Upgrade!Appended
    <3> QED  BY <3>1
  <2> HIDE DEF g
  <2>5. Upgrade!Accept("random") = "sha(random)" /\ "sha(random)" \in Upgrade!Words
        /\ {"accept", "protocolVer", "connection", "upgrade"} \subseteq Upgrade!Fields
    BY DEF Upgrade!Accept, Upgrade!Words, Upgrade!Fields
  <2>6. /\ g \in [Upgrade!Fields -> Upgrade!Words] /\ g["accept"] = Upgrade!Accept("random")
        /\ g["connection"] = f["connection"] /\ g["upgrade"] = f["upgrade"]
        /\ g["protocolVer"] = f["protocolVer"]
    BY <1>2, <2>4, <2>5
  <2>7. /\ hServer' = [f |-> g, bIsConnect |-> TRUE] /\ hWire' = Upgrade!Response(g)
        /\ step' = "answered"
    BY <1>1, <1>7
  <2>8. Upgrade!UpgradeTypes'
    <3>0. g \in [Upgrade!Fields -> Upgrade!Words]
      BY <2>6
    <3>1. Upgrade!Response(g) \in Seq(Upgrade!Lines) /\ Len(Upgrade!Response(g)) = 5
      BY <3>0, ResponseIs
    <3>2. hWire' \in Seq(Upgrade!Lines) /\ Len(hWire') <= 6
      BY <2>7, <3>1
    <3> QED  BY <1>1, <1>3, <2>7, <3>0, <3>2 DEF Upgrade!UpgradeTypes
  <2>9. Upgrade!ServerInv'
    BY <1>1, <2>2, <2>6, <2>7 DEF Upgrade!ServerInv
  <2>10. Upgrade!ClientInv'
    BY <1>1, <1>3, <2>7 DEF Upgrade!UpgradeInv, Upgrade!ClientInv
  <2>11. Upgrade!UncutInv'
    <3> DEFINE own == Upgrade!InitParam(Upgrade!Blank)
               h == [own EXCEPT !.protocolVer = IF who.colon THEN "" ELSE @,
                                !.accept = Upgrade!Accept("random")]
    <3>1. cut' = {} => Upgrade!Response(g) = Upgrade!Response(h)
      <4> SUFFICES ASSUME cut' = {} PROVE Upgrade!Response(g) = Upgrade!Response(h)
        OBVIOUS
      <4>1. /\ own \in [Upgrade!Fields -> Upgrade!Words] /\ own["protocolVer"] = "HTTP/1.1"
            /\ own["connection"] = "Upgrade" /\ own["upgrade"] = "websocket"
        BY AskedIs DEF Upgrade!InitParam, Upgrade!Fields
      <4> HIDE DEF own
      <4>2. /\ h["protocolVer"] = IF who.colon THEN "" ELSE "HTTP/1.1"
            /\ h["connection"] = "Upgrade" /\ h["upgrade"] = "websocket"
            /\ h["accept"] = Upgrade!Accept("random")
        BY <2>5, <4>1
      <4> HIDE DEF h
      <4>3. /\ g["protocolVer"] = h["protocolVer"] /\ g["connection"] = h["connection"]
            /\ g["upgrade"] = h["upgrade"] /\ g["accept"] = h["accept"]
        BY <1>6, <2>2, <2>6, <4>2
      <4> QED  BY <4>3 DEF Upgrade!Response
    <3>2. ~client'.bIsConnect
      BY <1>1, <1>3
    <3> QED  BY <1>1, <2>2, <2>7, <3>1, <3>2 DEF Upgrade!UncutInv
  <2> QED  BY <2>8, <2>9, <2>10, <2>11 DEF Upgrade!UpgradeInv
<1>8. CASE ~(Upgrade!Whole(lines) /\ Upgrade!Acceptable(f))
  <2>1. /\ hServer' = [hServer EXCEPT !.f = f] /\ step' = "requested"
        /\ hWire' = SubSeq(hWire, n + 1, Len(hWire))
    BY <1>1, <1>8
  <2>2. /\ hServer' \in [f : [Upgrade!Fields -> Upgrade!Words], bIsConnect : BOOLEAN]
        /\ hServer'.f = f /\ ~hServer'.bIsConnect
    BY <1>2, <1>3, <2>1
  <2>3. /\ hWire' \in Seq(Upgrade!Lines) /\ Len(hWire') <= 6
        /\ \A i \in DOMAIN hWire' : \E j \in DOMAIN hWire : hWire'[i] = hWire[j]
    <3> DEFINE rest == SubSeq(hWire, n + 1, Len(hWire))
    <3>1. /\ rest \in Seq(Upgrade!Lines) /\ Len(rest) <= 6
          /\ \A i \in DOMAIN rest : \E j \in DOMAIN hWire : rest[i] = hWire[j]
      BY <1>3, TwoSegments
    <3>2. hWire' = rest
      BY <2>1
    <3> HIDE DEF rest
    <3> QED  BY <3>1, <3>2
  <2>4. Upgrade!UpgradeTypes'
    BY <1>1, <1>3, <2>1, <2>2, <2>3 DEF Upgrade!UpgradeTypes
  <2>5. Upgrade!ServerInv'
    <3>1. \A i \in DOMAIN hWire' : hWire'[i].name \in {"connection", "version", "key"} =>
            hWire'[i].words = <<Upgrade!Asked[hWire'[i].name]>>
      BY <1>1, <2>3 DEF Upgrade!UpgradeInv, Upgrade!ServerInv
    <3> QED  BY <1>2, <1>4, <2>1, <2>2, <3>1 DEF Upgrade!ServerInv
  <2>6. Upgrade!ClientInv'
    BY <1>1, <1>3, <2>1 DEF Upgrade!UpgradeInv, Upgrade!ClientInv
  <2>7. Upgrade!UncutInv'
    BY <1>1, <1>6, <1>8 DEF Upgrade!UncutInv
  <2> QED  BY <2>4, <2>5, <2>6, <2>7 DEF Upgrade!UpgradeInv
<1> QED  BY <1>7, <1>8

\* The response of this library's server to its client, whole, as the client
\* reads it.
LEMMA OwnResponseIsRead ==
    ASSUME who.colon \in BOOLEAN, NEW f \in [Upgrade!Fields -> Upgrade!Words]
    PROVE  LET r == Upgrade!Response([Upgrade!InitParam(Upgrade!Blank) EXCEPT
                                        !.protocolVer = IF who.colon THEN "" ELSE @,
                                        !.accept = Upgrade!Accept("random")])
           IN  Upgrade!Whole(r) /\ (Upgrade!Upgraded(Upgrade!ParseResponse(f, r)) <=> ~who.colon)
<1> DEFINE own == Upgrade!InitParam(Upgrade!Blank)
           h == [own EXCEPT !.protocolVer = IF who.colon THEN "" ELSE @,
                            !.accept = Upgrade!Accept("random")]
           r == Upgrade!Response(h)
           p == Upgrade!ParseResponse(f, r)
<1>1. /\ own["protocolVer"] = "HTTP/1.1" /\ own["upgrade"] = "websocket"
  <2>1. Upgrade!Blank \in [Upgrade!Fields -> Upgrade!Words]
    BY AskedIs
  <2> QED  BY <2>1 DEF Upgrade!InitParam, Upgrade!Fields
<1>2. own \in [Upgrade!Fields -> Upgrade!Words]
  BY AskedIs
<1> HIDE DEF own
<1>3. /\ h \in [Upgrade!Fields -> Upgrade!Words] /\ h["upgrade"] = "websocket"
      /\ h["accept"] = "sha(random)" /\ h["protocolVer"] = IF who.colon THEN "" ELSE "HTTP/1.1"
  <2>1. /\ Upgrade!Accept("random") = "sha(random)" /\ {"sha(random)", ""} \subseteq Upgrade!Words
        /\ {"accept", "protocolVer", "upgrade"} \subseteq Upgrade!Fields
    BY DEF Upgrade!Accept, Upgrade!Words, Upgrade!Fields
  <2> QED  BY <1>1, <1>2, <2>1
<1> HIDE DEF h
<1>4. r \in Seq(Upgrade!Lines) /\ Len(r) = 5 /\ r[1].name = "first"
  BY <1>3, ResponseIs
<1>15. h.protocolVer = "" => r[1].words = <<"101", "Switching", "Protocols">>
  BY <1>3, ResponseIs
<1>17. h.protocolVer # "" => r[1].words = <<h.protocolVer, "101", "Switching", "Protocols">>
  BY <1>3, ResponseIs
<1>16. /\ r[2] = Upgrade!Line("connection", <<h.connection>>)
      /\ r[3] = Upgrade!Line("upgrade", <<h.upgrade>>)
      /\ r[4] = Upgrade!Line("accept", <<h.accept>>)
      /\ r[5] = Upgrade!Line("end", <<>>)
  BY <1>3, ResponseIs
<1> HIDE DEF r
<1>5. /\ r[2].name = "connection" /\ r[3].name = "upgrade" /\ r[3].words = <<h.upgrade>>
      /\ r[4].name = "accept" /\ r[4].words = <<h.accept>> /\ r[5].name = "end"
  BY <1>16 DEF Upgrade!Line
<1>6. DOMAIN r = 1..5 /\ \A j \in 1..5 : j = 1 \/ j = 2 \/ j = 3 \/ j = 4 \/ j = 5
  BY <1>4
<1>7. Upgrade!Named(r, "first") # {} /\ Upgrade!LastWords(r, "first") = r[1].words
  <2>1. 1 \in DOMAIN r /\ r[1].name = "first" /\ \A j \in DOMAIN r : r[j].name = "first" => j = 1
    BY <1>4, <1>5, <1>6
  <2> QED  BY <1>4, <2>1, OnlyLine
<1>8. Upgrade!Named(r, "upgrade") # {} /\ Upgrade!LastWords(r, "upgrade") = r[3].words
  <2>1. 3 \in DOMAIN r /\ r[3].name = "upgrade" /\ \A j \in DOMAIN r : r[j].name = "upgrade" => j = 3
    BY <1>4, <1>5, <1>6
  <2> QED  BY <1>4, <2>1, OnlyLine
<1>9. Upgrade!Named(r, "accept") # {} /\ Upgrade!LastWords(r, "accept") = r[4].words
  <2>1. 4 \in DOMAIN r /\ r[4].name = "accept" /\ \A j \in DOMAIN r : r[j].name = "accept" => j = 4
    BY <1>4, <1>5, <1>6
  <2> QED  BY <1>4, <2>1, OnlyLine
<1>10. /\ p["upgrade"] = r[3].words[1] /\ p["accept"] = r[4].words[1]
       /\ Len(r[1].words) >= 2 => p["code"] = r[1].words[2]
  <2>1. Len(r) <= 6
    BY <1>4
  <2>2. /\ \A x \in {"connection", "upgrade", "accept"} :
             p[x] = IF Upgrade!Named(r, x) # {} THEN Upgrade!LastWords(r, x)[1] ELSE f[x]
        /\ p["code"] = IF Upgrade!Named(r, "first") # {} /\ Len(Upgrade!LastWords(r, "first")) >= 2
                       THEN Upgrade!LastWords(r, "first")[2] ELSE f["code"]
    BY <1>4, <2>1, ParseResponseIs
  <2> HIDE DEF p
  <2> QED  BY <1>7, <1>8, <1>9, <2>2
<1> HIDE DEF p
<1>11. p["upgrade"] = "websocket" /\ p["accept"] = "sha(random)"
  <2>1. r[3].words[1] = h["upgrade"] /\ r[4].words[1] = h["accept"]
    BY <1>5
  <2>2. p["upgrade"] = r[3].words[1] /\ p["accept"] = r[4].words[1]
    BY <1>10
  <2> QED  BY <1>3, <2>1, <2>2
<1>12. p["code"] = IF who.colon THEN "Switching" ELSE "101"
  <2>1. CASE who.colon
    <3>1. r[1].words = <<"101", "Switching", "Protocols">>
      <4>1. h["protocolVer"] = ""
        <5>1. h["protocolVer"] = IF who.colon THEN "" ELSE "HTTP/1.1"
          BY <1>3
        <5> QED  BY <2>1, <5>1
      <4> QED  BY <1>15, <4>1
    <3>2. Len(r[1].words) >= 2 /\ r[1].words[2] = "Switching"
      BY <3>1
    <3> QED  BY <1>10, <2>1, <3>2
  <2>2. CASE ~who.colon
    <3>1. r[1].words = <<"HTTP/1.1", "101", "Switching", "Protocols">>
      <4>1. h["protocolVer"] = "HTTP/1.1" /\ h["protocolVer"] # ""
        BY <1>3, <2>2
      <4> QED  BY <1>17, <4>1
    <3>2. Len(r[1].words) >= 2 /\ r[1].words[2] = "101"
      BY <3>1
    <3> QED  BY <1>10, <2>2, <3>2
  <2> QED  BY <2>1, <2>2
<1>13. Upgrade!Whole(r)
  BY <1>5, <1>6 DEF Upgrade!Whole
<1>14. Upgrade!Upgraded(p) <=> ~who.colon
  BY <1>11, <1>12 DEF Upgrade!Upgraded
<1> QED  BY <1>13, <1>14 DEF p, r, h, own

\* A response to another protocol or a refusal connects no client.
LEMMA OtherResponseIsRefused ==
    ASSUME who.server \in {"other", "refusing"}, NEW f \in [Upgrade!Fields -> Upgrade!Words],
           NEW n \in 1..Len(Upgrade!OtherResponse),
           Upgrade!Whole(SubSeq(Upgrade!OtherResponse, 1, n))
    PROVE  ~Upgrade!Upgraded(Upgrade!ParseResponse(f, SubSeq(Upgrade!OtherResponse, 1, n)))
<1> DEFINE r == Upgrade!OtherResponse
           lines == SubSeq(r, 1, n)
           p == Upgrade!ParseResponse(f, r)
<1>1. /\ r \in Seq(Upgrade!Lines) /\ Len(r) = 4 /\ r[1].name = "first" /\ r[4].name = "end"
      /\ r[1].words = <<"HTTP/1.1", IF who.server = "refusing" THEN "400" ELSE "101">>
      /\ r[2].name \in {"upgrade", "other"} /\ r[3].name = "accept"
      /\ who.server = "other" => r[2].name = "upgrade" /\ r[2].words = <<"h2c">>
  BY OtherResponseIs
<1>2. lines = r
  <2> HIDE DEF r
  <2>1. /\ lines \in Seq(Upgrade!Lines) /\ Len(lines) = n /\ n \in Nat /\ n <= 4
        /\ \A i \in 1..n : lines[i] = r[i]
        /\ n = Len(r) => lines = r
    <3>1. r \in Seq(Upgrade!Lines) /\ Len(r) <= 6 /\ n \in 1..Len(r)
      BY <1>1 DEF r
    <3>2. n \in Nat /\ n <= 4
      BY <1>1, <3>1
    <3> QED  BY <3>1, <3>2, TwoSegments
  <2> HIDE DEF lines
  <2>2. PICK i \in DOMAIN lines : lines[i].name = "end"
    BY DEF Upgrade!Whole, lines, r
  <2>3. i \in 1..n /\ r[i].name = "end"
    BY <2>1, <2>2
  <2>4. i = 4
    BY <1>1, <2>1, <2>3
  <2> QED  BY <1>1, <2>1, <2>3, <2>4
<1> HIDE DEF lines, r
<1>3. DOMAIN r = 1..4 /\ \A j \in 1..4 : j = 1 \/ j = 2 \/ j = 3 \/ j = 4
  BY <1>1
<1>4. Len(r) <= 6
  BY <1>1
<1>5. CASE who.server = "other"
  <2>1. 2 \in DOMAIN r /\ r[2].name = "upgrade" /\ \A j \in DOMAIN r : r[j].name = "upgrade" => j = 2
    BY <1>1, <1>3, <1>5
  <2>2. Upgrade!Named(r, "upgrade") # {} /\ Upgrade!LastWords(r, "upgrade") = r[2].words
    BY <1>1, <2>1, OnlyLine
  <2>3. \A x \in {"connection", "upgrade", "accept"} :
          p[x] = IF Upgrade!Named(r, x) # {} THEN Upgrade!LastWords(r, x)[1] ELSE f[x]
    BY <1>1, <1>4, ParseResponseIs
  <2> HIDE DEF p
  <2>4. p["upgrade"] = "h2c"
    BY <1>1, <1>5, <2>2, <2>3
  <2>5. ~Upgrade!Upgraded(p)
    BY <2>4 DEF Upgrade!Upgraded
  <2> QED  BY <1>2, <2>5 DEF p, lines, r
<1>6. CASE who.server = "refusing"
  <2>1. 1 \in DOMAIN r /\ r[1].name = "first" /\ \A j \in DOMAIN r : r[j].name = "first" => j = 1
    BY <1>1, <1>3
  <2>2. Upgrade!Named(r, "first") # {} /\ Upgrade!LastWords(r, "first") = r[1].words
    BY <1>1, <2>1, OnlyLine
  <2>3. p["code"] = IF Upgrade!Named(r, "first") # {} /\ Len(Upgrade!LastWords(r, "first")) >= 2
                    THEN Upgrade!LastWords(r, "first")[2] ELSE f["code"]
    BY <1>1, <1>4, ParseResponseIs
  <2> HIDE DEF p
  <2>4. Len(r[1].words) >= 2 /\ r[1].words[2] = "400"
    BY <1>1, <1>6
  <2>5. p["code"] = "400"
    BY <2>2, <2>3, <2>4
  <2>6. ~Upgrade!Upgraded(p)
    BY <2>5 DEF Upgrade!Upgraded
  <2> QED  BY <1>2, <2>6 DEF p, lines, r
<1> QED  BY <1>5, <1>6

\* The client reads a segment of a response.
LEMMA OnResponseKeeps ==
    ASSUME Upgrade!UpgradeInv, NEW n \in 1..Len(hWire), Upgrade!OnResponse(n)
    PROVE  Upgrade!UpgradeInv'
<1> DEFINE lines == SubSeq(hWire, 1, n)
           f == IF Upgrade!Whole(lines) THEN Upgrade!ParseResponse(client.f, lines) ELSE client.f
           taken == Upgrade!Whole(lines) /\ Upgrade!Upgraded(f)
<1>1. /\ step = "answered" /\ who.client = "library" /\ ~client.bIsConnect
      /\ client' = [f |-> f, bIsConnect |-> taken]
      /\ step' = IF taken THEN "answered" ELSE "closing"
      /\ hWire' = SubSeq(hWire, n + 1, Len(hWire))
      /\ cut' = cut \cup (IF n < Len(hWire) THEN {"response"} ELSE {})
      /\ UNCHANGED <<who, hServer>>
  BY DEF Upgrade!OnResponse
<1>2. /\ hWire \in Seq(Upgrade!Lines) /\ Len(hWire) <= 6
      /\ hServer \in [f : [Upgrade!Fields -> Upgrade!Words], bIsConnect : BOOLEAN]
      /\ who \in [client : Clients, server : Servers, colon : BOOLEAN]
      /\ client.f \in [Upgrade!Fields -> Upgrade!Words]
  BY DEF Upgrade!UpgradeInv, Upgrade!UpgradeTypes
<1>3. f \in [Upgrade!Fields -> Upgrade!Words]
  <2>1. lines \in Seq(Upgrade!Lines) /\ Len(lines) = n /\ n <= 6
    BY <1>2, TwoSegments
  <2> HIDE DEF lines
  <2>2. Len(lines) <= 6
    BY <2>1
  <2>3. Upgrade!ParseResponse(client.f, lines) \in [Upgrade!Fields -> Upgrade!Words]
    BY <1>2, <2>1, <2>2, ParseResponseIs
  <2> QED  BY <1>2, <2>3
<1>4. taken \in BOOLEAN
  BY DEF Upgrade!Whole, Upgrade!Upgraded
<1>5. taken /\ who.server # "library" => who.server \in {"proper", "silent"}
  <2> SUFFICES ASSUME taken, who.server \in {"other", "refusing"} PROVE FALSE
    BY <1>2, Kinds
  <2>1. hWire = Upgrade!OtherResponse
    BY <1>1 DEF Upgrade!UpgradeInv, Upgrade!ClientInv
  <2>2. ~Upgrade!Upgraded(Upgrade!ParseResponse(client.f, SubSeq(Upgrade!OtherResponse, 1, n)))
    BY <1>2, <2>1, OtherResponseIsRefused
  <2> QED  BY <2>1, <2>2
<1>6. taken => f["accept"] # ""
  BY DEF Upgrade!Upgraded
<1>7. who.server = "library" /\ cut' = {} => hServer.bIsConnect /\ (taken <=> ~who.colon)
  <2> SUFFICES ASSUME who.server = "library", cut' = {}
               PROVE  hServer.bIsConnect /\ (taken <=> ~who.colon)
    OBVIOUS
  <2> DEFINE r == Upgrade!Response([Upgrade!InitParam(Upgrade!Blank) EXCEPT
                                      !.protocolVer = IF who.colon THEN "" ELSE @,
                                      !.accept = Upgrade!Accept("random")])
  <2>1. cut = {} /\ n = Len(hWire)
    <3>1. cut = {} /\ ~(n < Len(hWire))
      BY <1>1
    <3>2. Len(hWire) \in Nat
      BY <1>2
    <3> QED  BY <3>1, <3>2
  <2>2. hServer.bIsConnect /\ hWire = r
    BY <1>1, <2>1 DEF Upgrade!UpgradeInv, Upgrade!UncutInv
  <2>3. lines = hWire
    BY <1>2, <2>1, TwoSegments
  <2>4. who.colon \in BOOLEAN
    BY <1>2, Kinds
  <2>5. Upgrade!Whole(r) /\ (Upgrade!Upgraded(Upgrade!ParseResponse(client.f, r)) <=> ~who.colon)
    BY <1>2, <2>4, OwnResponseIsRead
  <2> HIDE DEF r, lines
  <2>6. taken <=> ~who.colon
    BY <2>2, <2>3, <2>5
  <2> QED  BY <2>2, <2>6
<1> HIDE DEF f, taken
<1>8. client'.f = f /\ client'.bIsConnect = taken
  BY <1>1
<1>9. Upgrade!UpgradeTypes'
  <2>1. hWire' \in Seq(Upgrade!Lines) /\ Len(hWire') <= 6
    <3> DEFINE rest == SubSeq(hWire, n + 1, Len(hWire))
    <3>1. rest \in Seq(Upgrade!Lines) /\ Len(rest) <= 6
      BY <1>2, TwoSegments
    <3> QED  BY <1>1, <3>1
  <2>2. client' \in [f : [Upgrade!Fields -> Upgrade!Words], bIsConnect : BOOLEAN]
    BY <1>1, <1>3, <1>4
  <2>3. step' \in {"answered", "closing"}
    BY <1>1
  <2> QED  BY <1>1, <1>2, <2>1, <2>2, <2>3 DEF Upgrade!UpgradeTypes
<1>10. Upgrade!ServerInv'
  <2>1. step' \in {"answered", "closing"}
    BY <1>1
  <2>2. hServer.bIsConnect => who.client = "library" /\ hServer.f.accept = Upgrade!Accept("random")
    BY DEF Upgrade!UpgradeInv, Upgrade!ServerInv
  <2> QED  BY <1>1, <2>1, <2>2 DEF Upgrade!ServerInv
<1>11. Upgrade!ClientInv'
  BY <1>1, <1>5, <1>6, <1>8 DEF Upgrade!ClientInv
<1>12. Upgrade!UncutInv'
  BY <1>1, <1>7, <1>8 DEF Upgrade!UncutInv
<1> QED  BY <1>9, <1>10, <1>11, <1>12 DEF Upgrade!UpgradeInv

\* A step of the upgrade, or none.
LEMMA UpgradeStep ==
    ASSUME Upgrade!UpgradeInv, [Upgrade!Next]_upgrade
    PROVE  Upgrade!UpgradeInv'
<1>1. CASE UNCHANGED upgrade
  <2>1. UNCHANGED <<who, step, hWire, hServer, client, cut>>
    BY <1>1 DEF upgrade, Upgrade!vars
  <2>2. Upgrade!Asked' = Upgrade!Asked
    BY <2>1 DEF Upgrade!Asked, Upgrade!InitParam, Upgrade!OtherClient, Upgrade!Blank
  <2>3. Upgrade!UpgradeTypes'
    BY <2>1 DEF Upgrade!UpgradeInv, Upgrade!UpgradeTypes
  <2>4. Upgrade!ServerInv'
    BY <2>1, <2>2 DEF Upgrade!UpgradeInv, Upgrade!ServerInv
  <2>5. Upgrade!ClientInv'
    BY <2>1 DEF Upgrade!UpgradeInv, Upgrade!ClientInv, Upgrade!OtherResponse
  <2>6. Upgrade!UncutInv'
    BY <2>1 DEF Upgrade!UpgradeInv, Upgrade!UncutInv, Upgrade!Request, Upgrade!Target
  <2> QED  BY <2>3, <2>4, <2>5, <2>6 DEF Upgrade!UpgradeInv
<1>2. CASE Upgrade!DoHandShake
  BY <1>2, DoHandShakeKeeps
<1>3. CASE Upgrade!OtherAnswers
  BY <1>3, OtherAnswersKeeps
<1>4. ASSUME NEW n \in 1..Len(hWire), Upgrade!OnRequest(n) PROVE Upgrade!UpgradeInv'
  BY <1>4, OnRequestKeeps
<1>5. ASSUME NEW n \in 1..Len(hWire), Upgrade!OnResponse(n) PROVE Upgrade!UpgradeInv'
  BY <1>5, OnResponseKeeps
<1> QED  BY <1>1, <1>2, <1>3, <1>4, <1>5 DEF Upgrade!Next

\* What the invariant says.
LEMMA UpgradeInvSays == ASSUME Upgrade!UpgradeInv PROVE UpgradeAgrees
<1>1. Upgrade!ServerAnswersItsClient
  BY DEF Upgrade!UpgradeInv, Upgrade!ServerInv, Upgrade!ServerAnswersItsClient
<1>2. Upgrade!ClientConnectsTo101
  BY DEF Upgrade!UpgradeInv, Upgrade!ClientInv, Upgrade!ClientConnectsTo101
<1>3. Upgrade!TwoEndsAgree
  <2> SUFFICES ASSUME who.client = "library", who.server = "library", cut = {},
                      step \in {"answered", "closing"}, hWire = <<>>
               PROVE  hServer.bIsConnect /\ (client.bIsConnect <=> ~who.colon)
    BY DEF Upgrade!TwoEndsAgree
  <2>1. hServer.bIsConnect
    BY DEF Upgrade!UpgradeInv, Upgrade!UncutInv
  <2>2. CASE client.bIsConnect
    BY <2>1, <2>2 DEF Upgrade!UpgradeInv, Upgrade!UncutInv
  <2>3. CASE ~client.bIsConnect
    <3> DEFINE h == [Upgrade!InitParam(Upgrade!Blank) EXCEPT
                       !.protocolVer = IF who.colon THEN "" ELSE @,
                       !.accept = Upgrade!Accept("random")]
    <3>1. Upgrade!Response(h) # <<>>
      BY DEF Upgrade!Response
    <3>2. step = "closing"
      BY <2>3, <3>1 DEF Upgrade!UpgradeInv, Upgrade!UncutInv
    <3> QED  BY <2>1, <2>3, <3>2 DEF Upgrade!UpgradeInv, Upgrade!UncutInv
  <2> QED  BY <2>2, <2>3
<1> QED  BY <1>1, <1>2, <1>3 DEF UpgradeAgrees

\* Over every segmentation of request and response: the server takes only a
\* client of version 13 for connected and answers with the accept value of its
\* key, once; the client connects only to an answer of 101 with an accept value;
\* and two ends of this library whose handshake is not cut agree, unless the path
\* has a colon (wsProtocol.cc, NetCore.cc).
THEOREM UpgradeEndsAgree == MCSpec => []UpgradeAgrees
<1>1. MCInit => Upgrade!UpgradeInv
  BY UpgradeInit DEF MCInit
<1>2. Upgrade!UpgradeInv /\ [MCNext]_all => Upgrade!UpgradeInv'
  <2>1. [MCNext]_all => [Upgrade!Next]_upgrade
    BY DEF MCNext, Ended, all
  <2> QED  BY <2>1, UpgradeStep
<1>3. MCSpec => MCInit /\ [][MCNext]_all
  BY DEF MCSpec
<1>4. Upgrade!UpgradeInv => UpgradeAgrees
  BY UpgradeInvSays
<1> QED  BY <1>1, <1>2, <1>3, <1>4, PTL

-----------------------------------------------------------------------------
(* The types of the systems: DtlsHandshake and WsClientLife *)

\* The types of DtlsHandshake, of its invariant.
LEMMA DtlsIsTyped == Dtls!DtlsInv => Dtls!TypeOK
<1> SUFFICES ASSUME Dtls!DtlsInv PROVE Dtls!TypeOK
  OBVIOUS
<1>1. /\ dtlsStatus_ \in {"Init", "ClientHello", "ClientCertificate", "ClientDone"}
      /\ dtlsConnect_ = (dtlsStatus_ = "ClientDone")
  BY DEF Dtls!DtlsInv, Dtls!DtlsTypes, Dtls!StatusInv
<1>2. /\ retryTime \in 0..Retries /\ arqTimeout_ \in 1..DtlsMost
      /\ arqTimer_.state \in {"stopped", "active", "closing", "closed"}
      /\ arqTimer_.due \in 0..DtlsMost
      /\ dServer \in {"wait1", "wait5", "done"} /\ wbio_ \subseteq {"f6"}
  BY DEF Dtls!DtlsInv, Dtls!DtlsTypes
<1>3. dSsl.left \in 0..dSsl.of
  <2>1. dSsl.left \in 0..DtlsMost /\ dSsl.of \in 0..DtlsMost /\ dSsl.left <= dSsl.of
    BY DEF Dtls!DtlsInv, Dtls!DtlsTypes
  <2>2. DtlsMost \in Nat
    BY DtlsBounds
  <2> QED  BY <2>1, <2>2
<1>4. Len(dTold) <= 1
  <2>1. dTold = <<>> \/ dTold = <<"done">> \/ dTold = <<"timeout">>
    BY DEF Dtls!DtlsInv, Dtls!ToldInv
  <2> QED  BY <2>1
<1> QED  BY <1>1, <1>2, <1>3, <1>4 DEF Dtls!TypeOK

\* The handles that are closing, and those whose callbacks are run, after a fault too.
Closings == closing \in Seq(Handles) /\ running \in Seq(Handles)

\* No step closes anything else.
LEMMA ClosingsKept ==
    ASSUME Closings, [Life!Next]_life
    PROVE  Closings'
<1>1. /\ "tcp" \in Handles /\ "timer" \in Handles
      /\ \A s \in Seq(Handles), h \in Handles : <<h>> \o s \in Seq(Handles)
      /\ \A s \in Seq(Handles) : s # <<>> => Tail(s) \in Seq(Handles)
      /\ <<>> \in Seq(Handles)
  BY DEF Handles
<1>2. closing \in Seq(Handles) /\ running \in Seq(Handles)
  BY DEF Closings
<1> USE DEF Closings
<1>3. CASE Life!Connect \/ Life!OnConnect \/ Life!Answer \/ Life!SendFrame \/ Life!OnTimer
  BY <1>2, <1>3 DEF Life!Connect, Life!OnConnect, Life!Answer, Life!SendFrame, Life!OnTimer,
     Life!handles
<1>4. ASSUME NEW n \in 1..Len(wire), Life!OnHandshake(n) PROVE Closings'
  BY <1>1, <1>2, <1>4 DEF Life!OnHandshake
<1>5. ASSUME NEW n \in 1..Len(wire), Life!OnFrames(n) PROVE Closings'
  BY <1>2, <1>5 DEF Life!OnFrames, Life!handles
<1>6. CASE Life!OnEof \/ Life!Close
  BY <1>1, <1>2, <1>6 DEF Life!OnEof, Life!Close, Life!TcpClose
<1>7. CASE Life!CloseWs
  BY <1>1, <1>2, <1>7 DEF Life!CloseWs
<1>8. CASE Life!EndPoll
  BY <1>1, <1>2, <1>8 DEF Life!EndPoll
<1>9. CASE Life!TimerClosed
  BY <1>1, <1>2, <1>9 DEF Life!TimerClosed, Life!TcpClose
<1>10. CASE Life!SocketClosed
  BY <1>1, <1>2, <1>10 DEF Life!SocketClosed
<1>11. CASE UNCHANGED life
  BY <1>2, <1>11 DEF life
<1> QED  BY <1>3, <1>4, <1>5, <1>6, <1>7, <1>8, <1>9, <1>10, <1>11 DEF Life!Next

\* The types of WsClientLife, of its invariant: what is on its way are tokens.
LEMMA LifeIsTyped == Life!LifeInv /\ Closings => Life!TypeOK
<1> SUFFICES ASSUME Life!LifeInv, Closings PROVE Life!TypeOK
  OBVIOUS
<1>1. /\ tcp \in {"none", "connecting", "failed", "open", "aborting", "closing", "deleted"}
      /\ pingTimer_ \in {"idle", "active", "closing", "deleted"}
      /\ object = IF tcp = "deleted" THEN "deleted" ELSE "alive"
      /\ told \in Seq({"connected", "refused", "closed"})
      /\ wire \in Seq(Nat) /\ sent \in 0..MaxFrames
  BY DEF Life!LifeInv, Life!LifeTypes
<1>2. /\ Len(wire) <= sent + 2
      /\ \A i \in DOMAIN wire : wire[i] = Life!Token(sent + 2 - Len(wire) + i)
  BY DEF Life!LifeInv, Life!StreamInv
<1>3. MaxFrames \in Nat /\ Len(wire) \in Nat /\ DOMAIN wire = 1..Len(wire)
  BY <1>1, LifeBounds
<1>4. \A k \in 1..(sent + 2) : Life!Token(k) \in 0..(MaxFrames + 1)
  BY <1>1, <1>3 DEF Life!Token, Life!Head1, Life!Tail1
<1>5. \A i \in 1..Len(wire) : wire[i] \in 0..(MaxFrames + 1)
  <2> SUFFICES ASSUME NEW i \in 1..Len(wire) PROVE wire[i] \in 0..(MaxFrames + 1)
    OBVIOUS
  <2>1. sent + 2 - Len(wire) + i \in 1..(sent + 2)
    BY <1>1, <1>2, <1>3
  <2> QED  BY <1>2, <1>3, <1>4, <2>1
<1>6. wire \in Seq(0..(MaxFrames + 1))
  <2> DEFINE S == 0..(MaxFrames + 1)
  <2>1. \A i \in 1..Len(wire) : wire[i] \in S
    BY <1>5
  <2> HIDE DEF S
  <2>2. [i \in 1..Len(wire) |-> wire[i]] \in Seq(S)
    BY <1>3, <2>1
  <2>3. wire = [i \in 1..Len(wire) |-> wire[i]]
    BY <1>1
  <2> QED  BY <2>2, <2>3 DEF S
<1> QED  BY <1>1, <1>6 DEF Life!TypeOK, Closings, Handles

-----------------------------------------------------------------------------
(* The types of HandshakeCodec *)

\* The sizes of a key and of a digest with what is around them.
KeySizes(k)    == Len(k.key) = KeySize /\ Len(k.random0) + Len(k.random1) = Block - KeySize - 4
DigestSizes(d) == /\ Len(d.digest) = DigestSize
                  /\ Len(d.random0) + Len(d.random1) = Block - DigestSize - 4

\* The client's own have them.
LEMMA OwnSizes ==
    /\ \A k : Handshake!Own(k) => KeySizes(k)
    /\ \A d : \A dg \in Digests : Handshake!OwnDigest(d, dg) => DigestSizes(d)
<1>1. ASSUME NEW k, Handshake!Own(k) PROVE KeySizes(k)
  <2>1. PICK o \in Offsets : k = Handshake!NewKey("client", o)
    BY <1>1 DEF Handshake!Own
  <2> DEFINE n == Handshake!KeyOffset(o)
  <2>2. n \in Nat /\ n < Block - KeySize - 4
    BY OffsetFacts
  <2> HIDE DEF n
  <2> DEFINE last == Block - n - KeySize - 4
  <2>5. last \in Nat /\ n + last = Block - KeySize - 4
    BY <2>2, Sizes
  <2> HIDE DEF last
  <2>6. \A part \in Nat, size \in Nat : Len(Handshake!Bytes("client", part, size)) = size
    BY BytesAre
  <2>3. /\ Len(Handshake!Bytes("client", Handshake!Random0, n)) = n
        /\ Len(Handshake!Bytes("client", Handshake!KeyPart, KeySize)) = KeySize
        /\ Len(Handshake!Bytes("client", Handshake!Random1, last)) = last
    <3>1. /\ Handshake!Random0 \in Nat /\ Handshake!KeyPart \in Nat /\ Handshake!Random1 \in Nat
          /\ KeySize \in Nat
      BY Sizes DEF Handshake!Random0, Handshake!KeyPart, Handshake!Random1
    <3> QED  BY <2>2, <2>5, <2>6, <3>1
  <2>4. /\ k.key = Handshake!Bytes("client", Handshake!KeyPart, KeySize)
        /\ k.random0 = Handshake!Bytes("client", Handshake!Random0, n)
        /\ k.random1 = Handshake!Bytes("client", Handshake!Random1, last)
    BY <2>1 DEF Handshake!NewKey, n, last
  <2> QED  BY <2>3, <2>4, <2>5 DEF KeySizes
<1>2. ASSUME NEW d, NEW dg \in Digests, Handshake!OwnDigest(d, dg) PROVE DigestSizes(d)
  <2>1. PICK o \in Offsets : d = Filled("client", o, dg)
    BY <1>2 DEF Handshake!OwnDigest, Filled
  <2>2. DigestBlockOk("client", o, o, dg)
    BY <1>2, DigestBlockIs
  <2>3. d.digest = dg /\ Len(dg) = DigestSize
    BY <2>1, <2>2 DEF DigestBlockOk, Digests
  <2>4. Len(d.random0) + Len(d.random1) = Block - 4 - DigestSize
    BY <2>1, <2>2 DEF DigestBlockOk
  <2>5. Block - 4 - DigestSize = Block - DigestSize - 4
    BY Sizes
  <2> QED  BY <2>3, <2>4, <2>5 DEF DigestSizes
<1> QED  BY <1>1, <1>2

\* What is taken out of a block, whatever it holds, has them.
LEMMA ParsedSizes ==
    ASSUME NEW b \in Seq(Nat), Len(b) = Block
    PROVE  KeySizes(Handshake!ParseKey(b)) /\ DigestSizes(Handshake!ParseDigest(b))
<1>0. Block \in Nat /\ KeySize \in Nat /\ DigestSize \in Nat
      /\ Block > KeySize + 4 /\ Block > DigestSize + 4
  BY Sizes
<1>1. ASSUME NEW at \in Nat, NEW size \in Nat, at + size <= Block
      PROVE  Handshake!Slice(b, at, size) \in Seq(Nat) /\ Len(Handshake!Slice(b, at, size)) = size
  BY <1>1, Cut DEF Handshake!Slice
<1>2. ASSUME NEW f \in Seq(Nat), Len(f) = 4
      PROVE  /\ Handshake!KeyOffset(f) \in Nat /\ Handshake!KeyOffset(f) < Block - KeySize - 4
             /\ Handshake!DigestOffset(f) \in Nat
             /\ Handshake!DigestOffset(f) < Block - DigestSize - 4
  <2>1. f[1] \in Nat /\ f[2] \in Nat /\ f[3] \in Nat /\ f[4] \in Nat
    <3>1. 1 \in 1..Len(f) /\ 2 \in 1..Len(f) /\ 3 \in 1..Len(f) /\ 4 \in 1..Len(f)
      BY <1>2
    <3>2. \A i \in 1..Len(f) : f[i] \in Nat
      OBVIOUS
    <3> QED  BY <3>1, <3>2
  <2>5. \A i, j, k, l \in Nat : i + j + k + l \in Nat
    OBVIOUS
  <2>2. Handshake!Sum4(f) \in Nat
    BY <2>1, <2>5 DEF Handshake!Sum4
  <2>3. \A s \in Nat, t \in Nat : t > 0 => s % t \in Nat /\ s % t < t
    OBVIOUS
  <2>4. /\ Block - KeySize - 4 \in Nat /\ Block - KeySize - 4 > 0
        /\ Block - DigestSize - 4 \in Nat /\ Block - DigestSize - 4 > 0
    BY <1>0
  <2> QED  BY <2>2, <2>3, <2>4 DEF Handshake!KeyOffset, Handshake!DigestOffset
<1>3. KeySizes(Handshake!ParseKey(b))
  <2> DEFINE f == Handshake!Slice(b, Block - 4, 4)
             n == Handshake!KeyOffset(f)
             last == Block - n - KeySize - 4
  <2>1. f \in Seq(Nat) /\ Len(f) = 4
    <3>1. Block - 4 \in Nat /\ (Block - 4) + 4 <= Block
      BY <1>0
    <3> QED  BY <1>1, <3>1
  <2>2. Handshake!ParseKey(b) =
          [offset |-> f, random0 |-> Handshake!Slice(b, 0, n), key |-> Handshake!Slice(b, n, KeySize),
           random1 |-> Handshake!Slice(b, n + KeySize, last)]
    BY DEF Handshake!ParseKey
  <2> HIDE DEF f
  <2>3. n \in Nat /\ n < Block - KeySize - 4
    BY <1>2, <2>1
  <2> HIDE DEF n
  <2>4. /\ last \in Nat /\ n + KeySize \in Nat /\ 0 + n <= Block /\ n + KeySize <= Block
        /\ (n + KeySize) + last <= Block /\ n + last = Block - KeySize - 4
    BY <1>0, <2>3
  <2> HIDE DEF last
  <2>5. /\ Len(Handshake!Slice(b, 0, n)) = n /\ Len(Handshake!Slice(b, n, KeySize)) = KeySize
        /\ Len(Handshake!Slice(b, n + KeySize, last)) = last
    BY <1>0, <1>1, <2>3, <2>4
  <2> QED  BY SMTT(40), <2>2, <2>4, <2>5 DEF KeySizes
<1>4. DigestSizes(Handshake!ParseDigest(b))
  <2> DEFINE f == Handshake!Slice(b, 0, 4)
             n == Handshake!DigestOffset(f)
             last == Block - 4 - n - DigestSize
  <2>1. f \in Seq(Nat) /\ Len(f) = 4
    <3>1. 0 + 4 <= Block
      BY <1>0
    <3> QED  BY <1>1, <3>1
  <2>2. Handshake!ParseDigest(b) =
          [offset |-> f, random0 |-> Handshake!Slice(b, 4, n),
           digest |-> Handshake!Slice(b, 4 + n, DigestSize),
           random1 |-> Handshake!Slice(b, 4 + n + DigestSize, last)]
    BY DEF Handshake!ParseDigest
  <2> HIDE DEF f
  <2>3. n \in Nat /\ n < Block - DigestSize - 4
    BY <1>2, <2>1
  <2> HIDE DEF n
  <2>4. /\ last \in Nat /\ 4 + n \in Nat /\ 4 + n + DigestSize \in Nat /\ 4 + n <= Block
        /\ 4 + n + DigestSize <= Block /\ (4 + n + DigestSize) + last <= Block
        /\ n + last = Block - DigestSize - 4
    BY <1>0, <2>3
  <2> HIDE DEF last
  <2>5. /\ Len(Handshake!Slice(b, 4, n)) = n
        /\ Len(Handshake!Slice(b, 4 + n, DigestSize)) = DigestSize
        /\ Len(Handshake!Slice(b, 4 + n + DigestSize, last)) = last
    BY <1>0, <1>1, <2>3, <2>4
  <2>6. /\ Handshake!ParseDigest(b).digest = Handshake!Slice(b, 4 + n, DigestSize)
        /\ Handshake!ParseDigest(b).random0 = Handshake!Slice(b, 4, n)
        /\ Handshake!ParseDigest(b).random1 = Handshake!Slice(b, 4 + n + DigestSize, last)
    BY <2>2
  <2> QED  BY <2>4, <2>5, <2>6 DEF DigestSizes
<1> QED  BY <1>3, <1>4

\* process_s0s1s2 takes its key and digest from inside what a server sent.
LEMMA ProcessSizes ==
    ASSUME Handshake!HandshakeInv, Handshake!ProcessS0S1S2, KeySizes(key), DigestSizes(digest)
    PROVE  KeySizes(key') /\ DigestSizes(digest')
<1>1. CASE s0s1s2[1] # 3
  BY <1>1 DEF Handshake!ProcessS0S1S2, KeySizes, DigestSizes
<1>2. CASE s0s1s2[1] = 3
  <2>0. rStep = "answered" /\ schema \in {0, 1}
    BY DEF Handshake!ProcessS0S1S2, Handshake!HandshakeInv
  <2> DEFINE rest == Handshake!Bytes("s2", 0, 8 + 2 * Block)
             made == Handshake!Bytes("server", Handshake!DigestPart, DigestSize)
  <2>1. PICK v \in {3, 6}, k \in Offsets, d \in Offsets :
          s0s1s2 = <<v>> \o Handshake!C1S1("server", schema, Handshake!NewKey("server", k),
                                             Handshake!NewDigest("server", d), TRUE) \o rest
    BY <2>0 DEF Handshake!HandshakeInv, Handshake!AnsweredInv
  <2> DEFINE m == Handshake!C1S1("server", schema, Handshake!NewKey("server", k),
                                   Filled("server", d, made), TRUE)
  <2>2. m \in Seq(Nat) /\ Len(m) = 8 + 2 * Block
    <3>1. "server" \in {"client", "server"} /\ made \in Digests
      BY DigestsAre
    <3>2. MessageOk("server", d, k, made, schema)
      BY <2>0, <3>1, MessageIs
    <3> QED  BY <3>2 DEF MessageOk
  <2>3. s0s1s2 = (<<v>> \o m) \o rest
    BY <2>1, NewIsFilled
  <2> HIDE DEF m
  <2>4. rest \in Seq(Nat) /\ Len(rest) = 8 + 2 * Block
    <3> DEFINE n == 8 + 2 * Block
               z == 0
    <3>1. n \in Nat /\ z \in Nat /\ "s2" \in {"client", "server", "s2"}
      BY Sizes
    <3> HIDE DEF n, z
    <3>2. Handshake!Bytes("s2", z, n) \in Seq(Nat) /\ Len(Handshake!Bytes("s2", z, n)) = n
      BY <3>1, BytesAre
    <3> QED  BY <3>2 DEF n, z
  <2> HIDE DEF rest
  <2>5. s0s1s2 \in Seq(Nat) /\ Len(s0s1s2) = 1 + Len(m) + Len(rest)
    <3> DEFINE h == <<v>>
    <3>1. h \in Seq(Nat) /\ Len(h) = 1
      OBVIOUS
    <3>2. \A s, t \in Seq(Nat) : s \o t \in Seq(Nat) /\ Len(s \o t) = Len(s) + Len(t)
      OBVIOUS
    <3> HIDE DEF h
    <3>3. h \o m \in Seq(Nat) /\ Len(h \o m) = 1 + Len(m)
      BY <2>2, <3>1, <3>2
    <3>4. (h \o m) \o rest \in Seq(Nat) /\ Len((h \o m) \o rest) = Len(h \o m) + Len(rest)
      BY <2>4, <3>2, <3>3
    <3> QED  BY <2>3, <3>3, <3>4 DEF h
  <2>6. /\ Block \in Nat /\ 9 \in Nat /\ 9 + Block + Block \in Nat
        /\ 9 + Block <= Len(s0s1s2) /\ 9 + Block + Block + Block <= Len(s0s1s2)
    BY <2>2, <2>4, <2>5, Sizes
  <2> DEFINE x == Handshake!Slice(s0s1s2, 9, Block)
             y == Handshake!Slice(s0s1s2, 9 + Block + Block, Block)
  <2>7. x \in Seq(Nat) /\ Len(x) = Block /\ y \in Seq(Nat) /\ Len(y) = Block
    BY <2>5, <2>6, Cut DEF Handshake!Slice
  <2>8. digest' = Handshake!ParseDigest(x) /\ key' = Handshake!ParseKey(y)
    BY <1>2 DEF Handshake!ProcessS0S1S2
  <2> HIDE DEF x, y
  <2> QED  BY <2>7, <2>8, ParsedSizes
<1> QED  BY <1>1, <1>2

\* Both, in every state.
HandshakeSizes == KeySizes(key) /\ DigestSizes(digest)

\* Initially.
LEMMA SizesInitially == Handshake!HandshakeInv /\ rStep = "new" => HandshakeSizes
<1> SUFFICES ASSUME Handshake!HandshakeInv, rStep = "new" PROVE HandshakeSizes
  OBVIOUS
<1>1. Handshake!Own(key) /\ Handshake!OwnDigest(digest, Handshake!Bytes("client", Handshake!DigestPart, DigestSize))
  BY DEF Handshake!HandshakeInv, Handshake!OwnInv
<1>2. KeySizes(key)
  BY <1>1, OwnSizes
<1>3. DigestSizes(digest)
  <2> DEFINE made == Handshake!Bytes("client", Handshake!DigestPart, DigestSize)
  <2>1. made \in Digests /\ Handshake!OwnDigest(digest, made)
    BY <1>1, DigestsAre
  <2> HIDE DEF made
  <2> QED  BY <2>1, OwnSizes
<1> QED  BY <1>2, <1>3 DEF HandshakeSizes

\* And after every step.
LEMMA SizesKept ==
    ASSUME Handshake!HandshakeInv, HandshakeSizes, [Handshake!Next]_shake
    PROVE  HandshakeSizes'
<1>1. CASE Handshake!CreateC0C1
  <2>1. Handshake!OwnDigest(digest, Handshake!Bytes("client", Handshake!DigestPart, DigestSize))
    BY <1>1 DEF Handshake!CreateC0C1, Handshake!HandshakeInv, Handshake!OwnInv
  <2>2. PICK o \in Offsets :
          digest = Filled("client", o, Handshake!Bytes("client", Handshake!DigestPart, DigestSize))
    BY <2>1 DEF Handshake!OwnDigest, Filled
  <2>3. key' = key /\ digest' = [digest EXCEPT !.digest = Handshake!Hmac]
    BY <1>1 DEF Handshake!CreateC0C1
  <2>4. digest' = Filled("client", o, Handshake!Hmac) /\ digest'.offset = o
    BY <2>2, <2>3, FilledAgain
  <2>5. Handshake!OwnDigest(digest', Handshake!Hmac)
    BY <2>4 DEF Handshake!OwnDigest, Filled
  <2>6. DigestSizes(digest')
    BY <2>5, OwnSizes, DigestsAre
  <2> QED  BY <2>3, <2>6 DEF HandshakeSizes
<1>2. CASE \E v \in {3, 6}, k, d \in Offsets : Handshake!ServerAnswers(v, k, d)
  BY <1>2 DEF Handshake!ServerAnswers, HandshakeSizes
<1>3. CASE Handshake!ProcessS0S1S2
  BY <1>3, ProcessSizes DEF HandshakeSizes
<1>4. CASE Handshake!CreateC2
  BY <1>4 DEF Handshake!CreateC2, HandshakeSizes
<1>5. CASE UNCHANGED shake
  BY <1>5 DEF shake, HandshakeSizes
<1> QED  BY <1>1, <1>2, <1>3, <1>4, <1>5 DEF Handshake!Next

\* The types of HandshakeCodec, of its invariant and the sizes.
LEMMA HandshakeIsTyped == Handshake!HandshakeInv /\ HandshakeSizes => Handshake!TypeOK
BY DEF Handshake!HandshakeInv, HandshakeSizes, KeySizes, DigestSizes, Handshake!TypeOK

-----------------------------------------------------------------------------
(* The types of WsHandshake *)

\* The words each field may hold, as TypeOK has them, and the lines that bring no
\* others to the end that reads them.
Spoken ==
    [protocolVer |-> {"", "HTTP/1.1"},
     connection  |-> {"", "Upgrade", "keep-alive, Upgrade"},
     upgrade     |-> {"", "websocket", "WebSocket", "h2c"},
     version     |-> {"", "13", "8"},
     key         |-> {"", "random"},
     accept      |-> {"", "sha(random)"},
     code        |-> {"", "101", "400", "Switching"}]

LineSpoken(l, at) ==
    /\ l.name \in Upgrade!Fields => l.words[1] \in Spoken[l.name]
    /\ l.name = "first" /\ at = "requested" => Upgrade!Word(l.words, 3) \in Spoken["protocolVer"]
    /\ l.name = "first" /\ at = "answered" /\ Len(l.words) >= 2 => l.words[2] \in Spoken["code"]

FieldsSpoken(f) == \A x \in Upgrade!Fields : f[x] \in Spoken[x]
LinesSpoken(lines, at) == \A i \in DOMAIN lines : LineSpoken(lines[i], at)

SpokenInv ==
    /\ FieldsSpoken(hServer.f) /\ FieldsSpoken(client.f) /\ LinesSpoken(hWire, step)
    /\ cut \in SUBSET {"request", "response"}

\* The fields one by one.
LEMMA SpokenIs ==
    /\ Upgrade!Fields = {"protocolVer", "connection", "upgrade", "version", "key", "accept", "code"}
    /\ Spoken["protocolVer"] = {"", "HTTP/1.1"}
    /\ Spoken["connection"] = {"", "Upgrade", "keep-alive, Upgrade"}
    /\ Spoken["upgrade"] = {"", "websocket", "WebSocket", "h2c"}
    /\ Spoken["version"] = {"", "13", "8"} /\ Spoken["key"] = {"", "random"}
    /\ Spoken["accept"] = {"", "sha(random)"}
    /\ Spoken["code"] = {"", "101", "400", "Switching"}
BY DEF Spoken, Upgrade!Fields

\* Lines one by one.
LEMMA LineIsSpoken ==
    ASSUME NEW l, NEW at
    PROVE  /\ l.name \in {"end", "other"} => LineSpoken(l, at)
           /\ l.name \in Upgrade!Fields /\ l.words[1] \in Spoken[l.name] => LineSpoken(l, at)
           /\ l.name = "first" /\ at = "requested"
                /\ Upgrade!Word(l.words, 3) \in Spoken["protocolVer"] => LineSpoken(l, at)
           /\ l.name = "first" /\ at = "answered" /\ l.words[2] \in Spoken["code"] =>
                LineSpoken(l, at)
<1>1. "first" \notin Upgrade!Fields /\ "end" \notin Upgrade!Fields /\ "other" \notin Upgrade!Fields
  BY DEF Upgrade!Fields
<1>2. "requested" # "answered" /\ "first" # "end" /\ "first" # "other"
  OBVIOUS
<1> QED  BY <1>1, <1>2 DEF LineSpoken

\* What is blank, what a client asks for.
LEMMA AskedIsSpoken ==
    /\ FieldsSpoken(Upgrade!Blank) /\ FieldsSpoken(Upgrade!InitParam(Upgrade!Blank))
    /\ FieldsSpoken(Upgrade!Asked)
<1>1. Upgrade!Blank \in [Upgrade!Fields -> Upgrade!Words] /\ \A x \in Upgrade!Fields : Upgrade!Blank[x] = ""
  BY AskedIs
<1>2. FieldsSpoken(Upgrade!Blank)
  BY <1>1, SpokenIs DEF FieldsSpoken
<1> DEFINE own == Upgrade!InitParam(Upgrade!Blank)
<1>3. own = [Upgrade!Blank EXCEPT !["protocolVer"] = "HTTP/1.1", !["connection"] = "Upgrade",
               !["upgrade"] = "websocket", !["version"] = "13", !["key"] = "random"]
  BY DEF Upgrade!InitParam
<1>4. own \in [Upgrade!Fields -> Upgrade!Words]
  BY AskedIs
<1>5. FieldsSpoken(own)
  <2>1. /\ own["protocolVer"] = "HTTP/1.1" /\ own["connection"] = "Upgrade"
        /\ own["upgrade"] = "websocket" /\ own["version"] = "13" /\ own["key"] = "random"
        /\ own["accept"] = "" /\ own["code"] = ""
    BY <1>1, <1>3, SpokenIs
  <2> HIDE DEF own
  <2>2. /\ own["protocolVer"] \in Spoken["protocolVer"] /\ own["connection"] \in Spoken["connection"]
        /\ own["upgrade"] \in Spoken["upgrade"] /\ own["version"] \in Spoken["version"]
        /\ own["key"] \in Spoken["key"] /\ own["accept"] \in Spoken["accept"]
        /\ own["code"] \in Spoken["code"]
    BY <2>1, SpokenIs
  <2>3. Upgrade!Fields =
          {"protocolVer", "connection", "upgrade", "version", "key", "accept", "code"}
    BY SpokenIs
  <2> QED  BY <2>2, <2>3 DEF FieldsSpoken
<1> HIDE DEF own
<1>6. CASE who.client = "library"
  BY <1>2, <1>5, <1>6 DEF Upgrade!Asked, own
<1>7. CASE who.client = "old"
  <2>1. Upgrade!Asked = [own EXCEPT !["version"] = "8"]
    BY <1>7 DEF Upgrade!Asked, Upgrade!OtherClient, own
  <2>2. \A x \in Upgrade!Fields : Upgrade!Asked[x] = IF x = "version" THEN "8" ELSE own[x]
    BY <1>4, <2>1
  <2>3. FieldsSpoken(Upgrade!Asked)
    BY <1>5, <2>2, SpokenIs DEF FieldsSpoken
  <2> QED  BY <1>2, <1>5, <2>3 DEF own
<1>8. CASE who.client \notin {"library", "old"}
  <2>1. Upgrade!Asked = [own EXCEPT !["connection"] = "keep-alive, Upgrade"]
    BY <1>8 DEF Upgrade!Asked, Upgrade!OtherClient, own
  <2>2. \A x \in Upgrade!Fields :
          Upgrade!Asked[x] = IF x = "connection" THEN "keep-alive, Upgrade" ELSE own[x]
    BY <1>4, <2>1
  <2>3. FieldsSpoken(Upgrade!Asked)
    BY <1>5, <2>2, SpokenIs DEF FieldsSpoken
  <2> QED  BY <1>2, <1>5, <2>3 DEF own
<1> QED  BY <1>6, <1>7, <1>8

\* A request brings the words of its fields.
LEMMA RequestIsSpoken ==
    ASSUME NEW f \in [Upgrade!Fields -> Upgrade!Words], FieldsSpoken(f)
    PROVE  LinesSpoken(Upgrade!Request(f), "requested")
<1>1. /\ Upgrade!Request(f)[1] = [name |-> "first", words |-> <<"GET", Upgrade!Target, f["protocolVer"]>>]
      /\ Upgrade!Request(f)[2] = [name |-> "connection", words |-> <<f["connection"]>>]
      /\ Upgrade!Request(f)[3] = [name |-> "upgrade", words |-> <<f["upgrade"]>>]
      /\ Upgrade!Request(f)[4] = [name |-> "version", words |-> <<f["version"]>>]
      /\ Upgrade!Request(f)[5] = [name |-> "key", words |-> <<f["key"]>>]
      /\ Upgrade!Request(f)[6] = [name |-> "end", words |-> <<>>]
  BY DEF Upgrade!Request, Upgrade!Line
<1>2. DOMAIN Upgrade!Request(f) = 1..6
  <2>1. Upgrade!Request(f) \in Seq(Upgrade!Lines) /\ Len(Upgrade!Request(f)) = 6
    BY RequestIs
  <2> QED  BY <2>1
<1> DEFINE r == Upgrade!Request(f)
<1> HIDE DEF r
<1>3. Upgrade!Word(r[1].words, 3) = f["protocolVer"]
  BY <1>1 DEF Upgrade!Word, r
<1>4. \A x \in {"protocolVer", "connection", "upgrade", "version", "key"} : f[x] \in Spoken[x]
  BY SpokenIs DEF FieldsSpoken
<1>5. \A i \in 1..6 : i = 1 \/ i = 2 \/ i = 3 \/ i = 4 \/ i = 5 \/ i = 6
  OBVIOUS
<1>9. /\ r[1].name = "first" /\ r[2].name = "connection" /\ r[3].name = "upgrade"
      /\ r[4].name = "version" /\ r[5].name = "key" /\ r[6].name = "end"
      /\ r[2].words[1] = f["connection"] /\ r[3].words[1] = f["upgrade"]
      /\ r[4].words[1] = f["version"] /\ r[5].words[1] = f["key"]
  BY <1>1 DEF r
<1>10. {"connection", "upgrade", "version", "key"} \subseteq Upgrade!Fields
  BY SpokenIs
<1>6. LineSpoken(r[1], "requested")
  BY <1>3, <1>4, <1>9, LineIsSpoken
<1>7. LineSpoken(r[2], "requested") /\ LineSpoken(r[3], "requested")
      /\ LineSpoken(r[4], "requested") /\ LineSpoken(r[5], "requested")
  BY <1>4, <1>9, <1>10, LineIsSpoken
<1>8. LineSpoken(r[6], "requested")
  BY <1>9, LineIsSpoken
<1> QED  BY <1>2, <1>5, <1>6, <1>7, <1>8 DEF LinesSpoken, r

\* So does a response.
LEMMA ResponseIsSpoken ==
    ASSUME NEW f \in [Upgrade!Fields -> Upgrade!Words], FieldsSpoken(f)
    PROVE  LinesSpoken(Upgrade!Response(f), "answered")
<1> DEFINE r == Upgrade!Response(f)
<1>1. r \in Seq(Upgrade!Lines) /\ Len(r) = 5
  BY ResponseIs
<1>8. /\ r[1].name = "first"
      /\ f["protocolVer"] = "" => r[1].words = <<"101", "Switching", "Protocols">>
      /\ f["protocolVer"] # "" => r[1].words = <<f["protocolVer"], "101", "Switching", "Protocols">>
  BY ResponseIs
<1>9. /\ r[2] = Upgrade!Line("connection", <<f["connection"]>>)
      /\ r[3] = Upgrade!Line("upgrade", <<f["upgrade"]>>)
      /\ r[4] = Upgrade!Line("accept", <<f["accept"]>>)
      /\ r[5] = Upgrade!Line("end", <<>>)
  BY ResponseIs
<1> HIDE DEF r
<1>2. DOMAIN r = 1..5 /\ \A i \in 1..5 : i = 1 \/ i = 2 \/ i = 3 \/ i = 4 \/ i = 5
  BY <1>1
<1>3. \A x \in {"protocolVer", "connection", "upgrade", "accept"} : f[x] \in Spoken[x]
  BY SpokenIs DEF FieldsSpoken
<1>4. r[1].words[2] \in Spoken["code"]
  <2>1. r[1].words[2] \in {"Switching", "101"}
    <3>1. CASE f["protocolVer"] = ""
      <4>1. r[1].words = <<"101", "Switching", "Protocols">>
        BY ONLY <1>8, <3>1
      <4> QED  BY ONLY <4>1
    <3>2. CASE f["protocolVer"] # ""
      <4> DEFINE word == f["protocolVer"]
      <4>1. r[1].words = <<word, "101", "Switching", "Protocols">>
        BY ONLY <1>8, <3>2
      <4> HIDE DEF word
      <4> QED  BY ONLY <4>1
    <3> QED  BY <3>1, <3>2
  <2> QED  BY <2>1, SpokenIs
<1>5. LineSpoken(r[1], "answered")
  BY <1>4, <1>8, LineIsSpoken
<1>10. /\ r[2].name = "connection" /\ r[3].name = "upgrade" /\ r[4].name = "accept"
       /\ r[5].name = "end" /\ r[2].words[1] = f["connection"] /\ r[3].words[1] = f["upgrade"]
       /\ r[4].words[1] = f["accept"]
  BY <1>9 DEF Upgrade!Line
<1>11. {"connection", "upgrade", "accept"} \subseteq Upgrade!Fields
  BY SpokenIs
<1>6. LineSpoken(r[2], "answered") /\ LineSpoken(r[3], "answered") /\ LineSpoken(r[4], "answered")
  BY <1>3, <1>10, <1>11, LineIsSpoken
<1>7. LineSpoken(r[5], "answered")
  BY <1>10, LineIsSpoken
<1> QED  BY <1>2, <1>5, <1>6, <1>7 DEF LinesSpoken, r

\* And that of another server.
LEMMA OtherResponseIsSpoken == LinesSpoken(Upgrade!OtherResponse, "answered")
<1> DEFINE r == Upgrade!OtherResponse
<1>1. /\ r \in Seq(Upgrade!Lines) /\ Len(r) = 4 /\ r[1].name = "first" /\ r[4].name = "end"
      /\ r[1].words = <<"HTTP/1.1", IF who.server = "refusing" THEN "400" ELSE "101">>
  BY OtherResponseIs
<1>2. /\ r[2].name = "other" \/ (r[2].name = "upgrade" /\ r[2].words[1] \in {"h2c", "WebSocket"})
      /\ r[3].name = "accept" /\ r[3].words[1] = "sha(random)"
  BY DEF Upgrade!OtherResponse, Upgrade!Line, Upgrade!Accept
<1> HIDE DEF r
<1>3. DOMAIN r = 1..4 /\ \A i \in 1..4 : i = 1 \/ i = 2 \/ i = 3 \/ i = 4
  BY <1>1
<1>4. r[1].words[2] \in {"400", "101"}
  BY <1>1
<1>5. LineSpoken(r[1], "answered")
  BY <1>1, <1>4, SpokenIs DEF LineSpoken
<1>6. LineSpoken(r[2], "answered") /\ LineSpoken(r[3], "answered")
  BY <1>2, SpokenIs DEF LineSpoken
<1>7. LineSpoken(r[4], "answered")
  BY <1>1, SpokenIs DEF LineSpoken
<1> QED  BY <1>3, <1>5, <1>6, <1>7 DEF LinesSpoken, r

\* The words of the last line of a name are words of its field.
LEMMA LastIsSpoken ==
    ASSUME NEW lines \in Seq(Upgrade!Lines), Len(lines) <= 6, NEW name,
           Upgrade!Named(lines, name) # {}, NEW at, LinesSpoken(lines, at)
    PROVE  /\ name \in Upgrade!Fields => Upgrade!LastWords(lines, name)[1] \in Spoken[name]
           /\ name = "first" /\ at = "requested" =>
                Upgrade!Word(Upgrade!LastWords(lines, name), 3) \in Spoken["protocolVer"]
           /\ name = "first" /\ at = "answered" /\ Len(Upgrade!LastWords(lines, name)) >= 2 =>
                Upgrade!LastWords(lines, name)[2] \in Spoken["code"]
<1>1. PICK i \in DOMAIN lines :
        lines[i].name = name /\ Upgrade!LastWords(lines, name) = lines[i].words
  BY LastIsNamed
<1>2. LineSpoken(lines[i], at)
  BY DEF LinesSpoken
<1> QED  BY <1>1, <1>2 DEF LineSpoken

\* What the server makes of a request.
LEMMA RequestReadIsSpoken ==
    ASSUME NEW f \in [Upgrade!Fields -> Upgrade!Words], FieldsSpoken(f),
           NEW lines \in Seq(Upgrade!Lines), Len(lines) <= 6, LinesSpoken(lines, "requested")
    PROVE  FieldsSpoken(Upgrade!ParseRequest(f, lines))
<1> DEFINE p == Upgrade!ParseRequest(f, lines)
           four == {"connection", "upgrade", "version", "key"}
<1>1. /\ p["accept"] = f["accept"]
      /\ \A x \in four :
           p[x] = IF Upgrade!Named(lines, x) # {} THEN Upgrade!LastWords(lines, x)[1] ELSE f[x]
      /\ p["protocolVer"] = IF Upgrade!Named(lines, "first") # {} /\ ~who.colon
                            THEN Upgrade!Word(Upgrade!LastWords(lines, "first"), 3)
                            ELSE f["protocolVer"]
  BY ParseRequestIs
<1>2. p["code"] = f["code"]
  <2>1. "code" \in Upgrade!Fields
    BY SpokenIs
  <2>2. Upgrade!Headers(f, lines, four)["code"] = f["code"]
    BY <2>1 DEF Upgrade!Headers
  <2> QED  BY <2>2 DEF Upgrade!ParseRequest
<1> HIDE DEF p
<1>3. four \cup {"protocolVer", "accept", "code"} = Upgrade!Fields
  BY SpokenIs
<1>4. \A x \in Upgrade!Fields : f[x] \in Spoken[x]
  BY DEF FieldsSpoken
<1>5. \A x \in four : p[x] \in Spoken[x]
  <2> SUFFICES ASSUME NEW x \in four PROVE p[x] \in Spoken[x]
    OBVIOUS
  <2>1. x \in Upgrade!Fields
    BY <1>3
  <2>2. Upgrade!Named(lines, x) # {} => Upgrade!LastWords(lines, x)[1] \in Spoken[x]
    BY <2>1, LastIsSpoken
  <2> QED  BY <1>1, <1>4, <2>1, <2>2
<1>6. p["protocolVer"] \in Spoken["protocolVer"]
  <2>1. Upgrade!Named(lines, "first") # {} =>
          Upgrade!Word(Upgrade!LastWords(lines, "first"), 3) \in Spoken["protocolVer"]
    BY LastIsSpoken
  <2>2. f["protocolVer"] \in Spoken["protocolVer"]
    BY <1>3, <1>4
  <2> QED  BY <1>1, <2>1, <2>2
<1>7. p["accept"] \in Spoken["accept"] /\ p["code"] \in Spoken["code"]
  BY <1>1, <1>2, <1>3, <1>4
<1>8. \A x \in Upgrade!Fields : p[x] \in Spoken[x]
  BY <1>3, <1>5, <1>6, <1>7
<1> QED  BY <1>8 DEF FieldsSpoken, p

\* What the client makes of a response.
LEMMA ResponseReadIsSpoken ==
    ASSUME NEW f \in [Upgrade!Fields -> Upgrade!Words], FieldsSpoken(f),
           NEW lines \in Seq(Upgrade!Lines), Len(lines) <= 6, LinesSpoken(lines, "answered")
    PROVE  FieldsSpoken(Upgrade!ParseResponse(f, lines))
<1> DEFINE p == Upgrade!ParseResponse(f, lines)
           three == {"connection", "upgrade", "accept"}
<1>1. /\ \A x \in three :
           p[x] = IF Upgrade!Named(lines, x) # {} THEN Upgrade!LastWords(lines, x)[1] ELSE f[x]
      /\ p["code"] = IF Upgrade!Named(lines, "first") # {} /\ Len(Upgrade!LastWords(lines, "first")) >= 2
                     THEN Upgrade!LastWords(lines, "first")[2] ELSE f["code"]
  BY ParseResponseIs
<1>2. \A x \in {"protocolVer", "version", "key"} : p[x] = f[x]
  <2> SUFFICES ASSUME NEW x \in {"protocolVer", "version", "key"} PROVE p[x] = f[x]
    OBVIOUS
  <2>1. x \in Upgrade!Fields
    BY SpokenIs
  <2>2. Upgrade!Headers(f, lines, three)[x] = f[x]
    BY <2>1 DEF Upgrade!Headers
  <2>3. x \in DOMAIN Upgrade!Headers(f, lines, three) /\ x # "code"
    BY <2>1 DEF Upgrade!Headers
  <2> DEFINE h == Upgrade!Headers(f, lines, three)
             v == IF Upgrade!Named(lines, "first") # {} /\ Len(Upgrade!LastWords(lines, "first")) >= 2
                  THEN Upgrade!LastWords(lines, "first")[2] ELSE h["code"]
  <2>4. p = [h EXCEPT !["code"] = v]
    BY DEF Upgrade!ParseResponse
  <2> HIDE DEF h, v, p
  <2>5. x \in DOMAIN h /\ h[x] = f[x]
    BY <2>2, <2>3 DEF h
  <2> QED  BY <2>3, <2>4, <2>5
<1> HIDE DEF p
<1>3. three \cup {"protocolVer", "version", "key", "code"} = Upgrade!Fields
  BY SpokenIs
<1>4. \A x \in Upgrade!Fields : f[x] \in Spoken[x]
  BY DEF FieldsSpoken
<1>5. \A x \in three : p[x] \in Spoken[x]
  <2> SUFFICES ASSUME NEW x \in three PROVE p[x] \in Spoken[x]
    OBVIOUS
  <2>1. x \in Upgrade!Fields
    BY <1>3
  <2>2. Upgrade!Named(lines, x) # {} => Upgrade!LastWords(lines, x)[1] \in Spoken[x]
    BY <2>1, LastIsSpoken
  <2> QED  BY <1>1, <1>4, <2>1, <2>2
<1>6. p["code"] \in Spoken["code"]
  <2>1. Upgrade!Named(lines, "first") # {} /\ Len(Upgrade!LastWords(lines, "first")) >= 2 =>
          Upgrade!LastWords(lines, "first")[2] \in Spoken["code"]
    BY LastIsSpoken
  <2>2. f["code"] \in Spoken["code"]
    BY <1>3, <1>4
  <2> QED  BY <1>1, <2>1, <2>2
<1>7. \A x \in {"protocolVer", "version", "key"} : p[x] \in Spoken[x]
  BY <1>2, <1>3, <1>4
<1>8. \A x \in Upgrade!Fields : p[x] \in Spoken[x]
  BY <1>3, <1>5, <1>6, <1>7
<1> QED  BY <1>8 DEF FieldsSpoken, p

\* Initially all is blank.
LEMMA SpokenInitially == Upgrade!Init => SpokenInv
<1> SUFFICES ASSUME Upgrade!Init PROVE SpokenInv
  OBVIOUS
<1>1. hServer.f = Upgrade!Blank /\ client.f = Upgrade!Blank
  BY DEF Upgrade!Init, Upgrade!Blank
<1>2. hWire = <<>> /\ cut = {}
  BY DEF Upgrade!Init
<1>3. LinesSpoken(hWire, step)
  BY <1>2 DEF LinesSpoken
<1> QED  BY <1>1, <1>2, <1>3, AskedIsSpoken DEF SpokenInv

\* A segment, and what is left on its way, bring what the whole brings.
LEMMA SegmentIsSpoken ==
    ASSUME NEW s \in Seq(Upgrade!Lines), Len(s) <= 6, NEW n \in 1..Len(s), NEW at,
           LinesSpoken(s, at)
    PROVE  /\ SubSeq(s, 1, n) \in Seq(Upgrade!Lines) /\ Len(SubSeq(s, 1, n)) <= 6
           /\ LinesSpoken(SubSeq(s, 1, n), at)
           /\ LinesSpoken(SubSeq(s, n + 1, Len(s)), at)
<1> DEFINE lines == SubSeq(s, 1, n)
           rest == SubSeq(s, n + 1, Len(s))
<1>1. /\ lines \in Seq(Upgrade!Lines) /\ Len(lines) = n /\ n <= 6 /\ n \in Nat
      /\ \A j \in 1..n : lines[j] = s[j] /\ j \in DOMAIN s
      /\ \A j \in DOMAIN rest : \E k \in DOMAIN s : rest[j] = s[k]
  BY TwoSegments
<1> HIDE DEF lines, rest
<1>2. DOMAIN lines = 1..n /\ Len(lines) <= 6
  BY <1>1
<1>3. \A k \in DOMAIN s : LineSpoken(s[k], at)
  BY DEF LinesSpoken
<1>4. LinesSpoken(lines, at)
  BY <1>1, <1>2, <1>3 DEF LinesSpoken
<1>5. LinesSpoken(rest, at)
  BY <1>1, <1>3 DEF LinesSpoken
<1> QED  BY <1>1, <1>2, <1>4, <1>5 DEF lines, rest

\* Whoever reads what is left, or nobody.
LEMMA NobodyReads ==
    ASSUME NEW lines, NEW at, LinesSpoken(lines, at)
    PROVE  LinesSpoken(lines, "closing")
<1>1. "closing" # "requested" /\ "closing" # "answered"
  OBVIOUS
<1> QED  BY <1>1 DEF LinesSpoken, LineSpoken

\* No step brings another word.
LEMMA SpokenKept ==
    ASSUME Upgrade!UpgradeInv, SpokenInv, [Upgrade!Next]_upgrade
    PROVE  SpokenInv'
<1>0. /\ FieldsSpoken(hServer.f) /\ FieldsSpoken(client.f) /\ LinesSpoken(hWire, step)
      /\ cut \in SUBSET {"request", "response"}
      /\ hWire \in Seq(Upgrade!Lines) /\ Len(hWire) <= 6
      /\ hServer \in [f : [Upgrade!Fields -> Upgrade!Words], bIsConnect : BOOLEAN]
      /\ client \in [f : [Upgrade!Fields -> Upgrade!Words], bIsConnect : BOOLEAN]
  BY DEF SpokenInv, Upgrade!UpgradeInv, Upgrade!UpgradeTypes
<1>1. CASE UNCHANGED upgrade
  BY <1>0, <1>1 DEF upgrade, SpokenInv
<1>2. CASE Upgrade!DoHandShake
  <2>1. step' = "requested" /\ UNCHANGED <<hServer, cut>> /\ step = "new"
    BY <1>2 DEF Upgrade!DoHandShake
  <2>2. client.f = Upgrade!Blank
    BY <2>1 DEF Upgrade!UpgradeInv, Upgrade!ClientInv
  <2>3. hWire' = Upgrade!Request(Upgrade!Asked)
    BY <1>2, <2>2 DEF Upgrade!DoHandShake, Upgrade!Asked
  <2>4. LinesSpoken(hWire', "requested")
    <3>1. Upgrade!Asked \in [Upgrade!Fields -> Upgrade!Words] /\ FieldsSpoken(Upgrade!Asked)
      BY AskedIs, AskedIsSpoken
    <3>2. LinesSpoken(Upgrade!Request(Upgrade!Asked), "requested")
      BY <3>1, RequestIsSpoken
    <3> QED  BY <2>3, <3>2
  <2>5. client'.f \in {client.f, Upgrade!InitParam(Upgrade!Blank)}
    BY <1>0, <1>2, <2>2 DEF Upgrade!DoHandShake
  <2>6. FieldsSpoken(client'.f)
    BY <1>0, <2>5, AskedIsSpoken
  <2> QED  BY <1>0, <2>1, <2>4, <2>6 DEF SpokenInv
<1>3. CASE Upgrade!OtherAnswers
  <2>1. /\ step' = "answered" /\ hWire' = Upgrade!OtherResponse
        /\ UNCHANGED <<hServer, client, cut>>
    BY <1>3 DEF Upgrade!OtherAnswers
  <2> QED  BY <1>0, <2>1, OtherResponseIsSpoken DEF SpokenInv
<1>4. ASSUME NEW n \in 1..Len(hWire), Upgrade!OnRequest(n) PROVE SpokenInv'
  <2> DEFINE lines == SubSeq(hWire, 1, n)
             f == IF Upgrade!Whole(lines) THEN Upgrade!ParseRequest(hServer.f, lines) ELSE hServer.f
             g == [f EXCEPT !.accept = Upgrade!Appended(@, Upgrade!Accept(f.key))]
  <2>1. /\ step = "requested" /\ UNCHANGED client
        /\ cut' = cut \cup (IF n < Len(hWire) THEN {"request"} ELSE {})
        /\ IF Upgrade!Whole(lines) /\ Upgrade!Acceptable(f)
           THEN /\ hServer' = [f |-> g, bIsConnect |-> TRUE]
                /\ hWire' = Upgrade!Response(g) /\ step' = "answered"
           ELSE /\ hServer' = [hServer EXCEPT !.f = f]
                /\ hWire' = SubSeq(hWire, n + 1, Len(hWire)) /\ step' = step
    BY <1>4 DEF Upgrade!OnRequest
  <2>2. /\ lines \in Seq(Upgrade!Lines) /\ Len(lines) <= 6 /\ LinesSpoken(lines, "requested")
        /\ LinesSpoken(SubSeq(hWire, n + 1, Len(hWire)), "requested")
    BY <1>0, <2>1, SegmentIsSpoken
  <2> HIDE DEF lines
  <2>3. /\ f \in [Upgrade!Fields -> Upgrade!Words] /\ f["accept"] = ""
        /\ f["key"] \in {"", Upgrade!Asked["key"]}
    BY <2>1, WhatServerReads DEF Upgrade!UpgradeInv, lines
  <2>4. FieldsSpoken(f)
    <3>1. hServer.f \in [Upgrade!Fields -> Upgrade!Words] /\ FieldsSpoken(hServer.f)
      BY <1>0
    <3>2. FieldsSpoken(Upgrade!ParseRequest(hServer.f, lines))
      BY <2>2, <3>1, RequestReadIsSpoken
    <3> QED  BY <3>1, <3>2
  <2> HIDE DEF f
  <2>5. cut' \in SUBSET {"request", "response"}
    BY <1>0, <2>1
  <2>6. CASE Upgrade!Whole(lines) /\ Upgrade!Acceptable(f)
    <3>1. f["key"] = "random"
      <4>1. f["key"] # ""
        BY <2>6 DEF Upgrade!Acceptable
      <4>2. Upgrade!Asked["key"] = "random"
        BY AskedIs
      <4> QED  BY <2>3, <4>1, <4>2
    <3>2. g = [f EXCEPT !["accept"] = "sha(random)"]
      BY <2>3, <3>1 DEF Upgrade!Appended, Upgrade!Accept
    <3> HIDE DEF g
    <3>3. g \in [Upgrade!Fields -> Upgrade!Words]
      BY <2>3, <3>2 DEF Upgrade!Words
    <3>4. FieldsSpoken(g)
      <4>1. \A x \in Upgrade!Fields : g[x] = IF x = "accept" THEN "sha(random)" ELSE f[x]
        BY <2>3, <3>2
      <4>2. \A x \in Upgrade!Fields : f[x] \in Spoken[x]
        BY <2>4 DEF FieldsSpoken
      <4>3. "sha(random)" \in Spoken["accept"]
        BY SpokenIs
      <4> QED  BY <4>1, <4>2, <4>3 DEF FieldsSpoken
    <3>5. LinesSpoken(Upgrade!Response(g), "answered")
      BY <3>3, <3>4, ResponseIsSpoken
    <3>6. hServer'.f = g /\ hWire' = Upgrade!Response(g) /\ step' = "answered" /\ client' = client
      BY <2>1, <2>6
    <3> QED  BY <1>0, <2>5, <3>4, <3>5, <3>6 DEF SpokenInv
  <2>7. CASE ~(Upgrade!Whole(lines) /\ Upgrade!Acceptable(f))
    <3>1. /\ hServer'.f = f /\ step' = "requested" /\ client' = client
          /\ hWire' = SubSeq(hWire, n + 1, Len(hWire))
      BY <1>0, <2>1, <2>7
    <3> QED  BY <1>0, <2>2, <2>4, <2>5, <3>1 DEF SpokenInv
  <2> QED  BY <2>6, <2>7
<1>5. ASSUME NEW n \in 1..Len(hWire), Upgrade!OnResponse(n) PROVE SpokenInv'
  <2> DEFINE lines == SubSeq(hWire, 1, n)
             f == IF Upgrade!Whole(lines) THEN Upgrade!ParseResponse(client.f, lines) ELSE client.f
             taken == Upgrade!Whole(lines) /\ Upgrade!Upgraded(f)
  <2>1. /\ step = "answered" /\ UNCHANGED hServer
        /\ client' = [f |-> f, bIsConnect |-> taken]
        /\ step' = IF taken THEN "answered" ELSE "closing"
        /\ hWire' = SubSeq(hWire, n + 1, Len(hWire))
        /\ cut' = cut \cup (IF n < Len(hWire) THEN {"response"} ELSE {})
    BY <1>5 DEF Upgrade!OnResponse
  <2>2. /\ lines \in Seq(Upgrade!Lines) /\ Len(lines) <= 6 /\ LinesSpoken(lines, "answered")
        /\ LinesSpoken(SubSeq(hWire, n + 1, Len(hWire)), "answered")
    BY <1>0, <2>1, SegmentIsSpoken
  <2> HIDE DEF lines
  <2>3. FieldsSpoken(f)
    <3>1. client.f \in [Upgrade!Fields -> Upgrade!Words] /\ FieldsSpoken(client.f)
      BY <1>0
    <3>2. FieldsSpoken(Upgrade!ParseResponse(client.f, lines))
      BY <2>2, <3>1, ResponseReadIsSpoken
    <3> QED  BY <3>1, <3>2
  <2> HIDE DEF f, taken
  <2>4. client'.f = f /\ cut' \in SUBSET {"request", "response"} /\ hServer' = hServer
    BY <1>0, <2>1
  <2>5. LinesSpoken(hWire', step')
    <3>1. step' = "answered" \/ step' = "closing"
      BY <2>1
    <3>2. LinesSpoken(hWire', "answered")
      BY <2>1, <2>2
    <3> QED  BY <3>1, <3>2, NobodyReads
  <2> QED  BY <1>0, <2>3, <2>4, <2>5 DEF SpokenInv
<1> QED  BY <1>1, <1>2, <1>3, <1>4, <1>5 DEF Upgrade!Next

\* The types of WsHandshake, of its invariant and the words.
LEMMA UpgradeIsTyped == Upgrade!UpgradeInv /\ SpokenInv => Upgrade!TypeOK
<1> SUFFICES ASSUME Upgrade!UpgradeInv, SpokenInv PROVE Upgrade!TypeOK
  OBVIOUS
<1>1. step \in {"new", "requested", "answered", "closing"}
  BY DEF Upgrade!UpgradeInv, Upgrade!UpgradeTypes
<1>2. \A end \in {hServer, client} : FieldsSpoken(end.f)
  BY DEF SpokenInv
<1>3. \A end \in {hServer, client} :
        /\ end.f["protocolVer"] \in {"", "HTTP/1.1"}
        /\ end.f["connection"] \in {"", "Upgrade", "keep-alive, Upgrade"}
        /\ end.f["upgrade"] \in {"", "websocket", "WebSocket", "h2c"}
        /\ end.f["version"] \in {"", "13", "8"} /\ end.f["key"] \in {"", "random"}
        /\ end.f["accept"] \in {"", Upgrade!Accept("random")}
        /\ end.f["code"] \in {"", "101", "400", "Switching"}
  <2> SUFFICES ASSUME NEW f, FieldsSpoken(f)
               PROVE  /\ f["protocolVer"] \in {"", "HTTP/1.1"}
                      /\ f["connection"] \in {"", "Upgrade", "keep-alive, Upgrade"}
                      /\ f["upgrade"] \in {"", "websocket", "WebSocket", "h2c"}
                      /\ f["version"] \in {"", "13", "8"} /\ f["key"] \in {"", "random"}
                      /\ f["accept"] \in {"", Upgrade!Accept("random")}
                      /\ f["code"] \in {"", "101", "400", "Switching"}
    BY <1>2
  <2>1. /\ f["protocolVer"] \in Spoken["protocolVer"] /\ f["connection"] \in Spoken["connection"]
        /\ f["upgrade"] \in Spoken["upgrade"] /\ f["version"] \in Spoken["version"]
        /\ f["key"] \in Spoken["key"] /\ f["accept"] \in Spoken["accept"]
        /\ f["code"] \in Spoken["code"]
    BY SpokenIs DEF FieldsSpoken
  <2>2. Upgrade!Accept("random") = "sha(random)"
    BY DEF Upgrade!Accept
  <2> QED  BY <2>1, <2>2, SpokenIs
<1>4. cut \subseteq {"request", "response"}
  BY DEF SpokenInv
<1> QED  BY <1>1, <1>3, <1>4 DEF Upgrade!TypeOK

-----------------------------------------------------------------------------
(* All of them *)

\* What each of the systems is known to keep.
TransportsInv ==
    /\ IInv /\ Handshake!HandshakeInv /\ HandshakeSizes /\ Upgrade!UpgradeInv /\ SpokenInv
    /\ Life!LifeInv /\ Closings /\ Tls!TlsInv /\ Dtls!DtlsInv

\* One step of any of them keeps what is known of all.
LEMMA TransportsStep == ASSUME TransportsInv, [MCNext]_all PROVE TransportsInv'
<1>1. /\ [Next]_vars /\ [Handshake!Next]_shake /\ [Upgrade!Next]_upgrade
      /\ [Life!Next]_life /\ [Tls!Next]_tls /\ [Dtls!Next]_dtls
  BY DEF MCNext, Ended, all
<1>2. IInv'
  BY <1>1, SenderStep DEF TransportsInv
<1>3. Handshake!HandshakeInv' /\ HandshakeSizes'
  BY <1>1, HandshakeStep, SizesKept DEF TransportsInv
<1>4. Upgrade!UpgradeInv' /\ SpokenInv'
  BY <1>1, UpgradeStep, SpokenKept DEF TransportsInv
<1>5. Life!LifeInv' /\ Closings'
  BY <1>1, LifeStep, ClosingsKept DEF TransportsInv
<1>6. Tls!TlsInv' /\ Dtls!DtlsInv'
  BY <1>1, TlsKept, DtlsStep DEF TransportsInv
<1> QED  BY <1>2, <1>3, <1>4, <1>5, <1>6 DEF TransportsInv

\* The types of all the systems of MCTransports, for any sizes, kinds and bounds:
\* whatever offsets a server takes, process_s0s1s2 cuts a key and a digest of their
\* own sizes out of S0 S1 S2, the fields of a WebSocket handshake hold only words that some end
\* says in that field, no message of TLS is left decrypted in whole, retryTime stays
\* within its limit, and the chunk sender's start never passes the end of its message.
THEOREM TransportsAreTyped == MCSpec => []TypesOK
<1>1. MCInit => TransportsInv
  <2> SUFFICES ASSUME MCInit PROVE TransportsInv
    OBVIOUS
  <2>1. Init /\ Handshake!Init /\ Upgrade!Init /\ Life!Init /\ Tls!Init /\ Dtls!Init
    BY DEF MCInit
  <2>2. rStep = "new" /\ closing = <<>> /\ running = <<>>
    BY <2>1 DEF Handshake!Init, Life!Init
  <2>3. Closings
    BY <2>2 DEF Closings
  <2>4. Handshake!HandshakeInv /\ HandshakeSizes
    BY <2>1, <2>2, HandshakeInit, SizesInitially
  <2> QED
    BY <2>1, <2>3, <2>4, InitIInv, UpgradeInit, SpokenInitially, LifeInit, TlsInitially, DtlsInit
       DEF TransportsInv
<1>2. TransportsInv /\ [MCNext]_all => TransportsInv'
  BY TransportsStep
<1>3. MCSpec => MCInit /\ [][MCNext]_all
  BY DEF MCSpec
<1>4. TransportsInv => TypesOK
  <2> SUFFICES ASSUME TransportsInv PROVE TypesOK
    OBVIOUS
  <2>1. TypeOK
    BY DEF TransportsInv, IInv
  <2>2. Handshake!TypeOK /\ Upgrade!TypeOK /\ Life!TypeOK
    BY HandshakeIsTyped, UpgradeIsTyped, LifeIsTyped DEF TransportsInv
  <2>3. Tls!TypeOK /\ Dtls!TypeOK
    BY DtlsIsTyped DEF TransportsInv, Tls!TlsInv
  <2> QED  BY <2>1, <2>2, <2>3 DEF TypesOK
<1> QED  BY <1>1, <1>2, <1>3, <1>4, PTL
=============================================================================
