---------------------------- MODULE TlsTransport ----------------------------
(***************************************************************************)
(* SecurityTransport (net/app_protocol/tls.cc), OpenSSL between two memory *)
(* BIOs, in both of its roles, with the TcpSocketConn that owns the server *)
(* (net/NetCore.cc) and TCP, which cuts the stream into any segments,      *)
(* between them.                                                           *)
(*                                                                         *)
(* OpenSSL is external: its records are runs of units, so that a segment   *)
(* may end inside one; it consumes its read BIO record by record, keeps an *)
(* incomplete one to itself, and fails for ever at a record out of turn.   *)
(* disorder names how segments and writes fell; faults, what the process   *)
(* does not survive.                                                       *)
(***************************************************************************)
EXTENDS Naturals, Sequences, SequencesExt

CONSTANTS
  Payload,      (* Bytes of a message.                                     *)
  MaxRecord,    (* Bytes a record carries at most, in units one more.      *)
  MaxMessages,  (* Messages the two ends send.  Bounds the model.          *)
  MaxQueued     (* Writes the kernel takes in part.  Bounds the model.     *)

BoundsAssumption ==
  /\ Payload \in Nat \ {0} /\ MaxRecord \in Nat \ {0}
  /\ MaxMessages \in Nat /\ MaxQueued \in Nat

Ends == {"client", "server"}
Peer(e) == IF e = "client" THEN "server" ELSE "client"

VARIABLES
  version,      (* What is negotiated: "1.2" or "1.3".                     *)
  created,      (* The server's init found certificate and key: ssl_ is    *)
                (* not NULL.                                               *)
  bConencted_,  (* Per end; so spelt in the code.                          *)
  ssl,          (* Per end: OpenSSL's own state.                           *)
  rbio_,        (* Per end: units OpenSSL has not looked at.               *)
  wire,         (* Per end: units on their way to it.                      *)
  closed,       (* Per end: its owner has closed the connection.           *)
  sent, queued, (* Messages sent, per end; writes taken in part.           *)
  got,          (* Per end: bytes handed to the owner.                     *)
  disorder, faults

vars == <<version, created, bConencted_, ssl, rbio_, wire, closed, sent, queued, got,
          disorder, faults>>

-----------------------------------------------------------------------------
Least(a, b) == IF a < b THEN a ELSE b

(* What SSL_write takes of a message, and the records it makes of it.  The *)
(* server's context has SSL_MODE_ENABLE_PARTIAL_WRITE, so its SSL_write    *)
(* returns after the first record, and writeData does not look at what it  *)
(* returned.                                                               *)
Took(e) == IF e = "client" THEN Payload ELSE Least(Payload, MaxRecord)

Records(e) == ((Took(e) - 1) \div MaxRecord) + 1

(* Records.  seq is the sequence number a record is protected with, n the  *)
(* bytes the owner gave before those it carries.                           *)
Record(kind, seq, n, size) ==
  [i \in 1 .. size |-> [kind |-> kind, seq |-> seq, n |-> n, i |-> i, of |-> size]]

DataRecords(e, seq, n) ==
  [k \in 1 .. Took(e) + Records(e) |->
     LET r == (k - 1) \div (MaxRecord + 1)
     IN  [kind |-> "app", seq |-> seq + r, n |-> n + r * MaxRecord,
          i |-> ((k - 1) % (MaxRecord + 1)) + 1,
          of |-> Least(MaxRecord, Took(e) - r * MaxRecord) + 1]]

Clear == [kind |-> "clear", seq |-> 0, n |-> 0, i |-> 1, of |-> 1]
Zero  == [kind |-> "zero",  seq |-> 0, n |-> 0, i |-> 0, of |-> 1]

IsWhole(s) == s # << >> /\ Len(s) >= s[1].of
InTurn(s, seq) == \A j \in 1 .. s[1].of : s[j].seq = seq /\ s[j].i = j
IsBad(s, seq) == s # << >> /\ (s[1].i # 1 \/ (IsWhole(s) /\ ~InTurn(s, seq)))

(* What a stage of the handshake answers a record of the peer's with, and  *)
(* the stage it leads to.                                                  *)
Flight(stage, kind) ==
  CASE stage = "wait_ch" /\ kind = "ch" -> [out |-> "sh", next |-> "wait_fin"]
    [] stage = "wait_sh" /\ kind = "sh" ->
         [out |-> "fin", next |-> IF version = "1.3" THEN "done" ELSE "wait_sfin"]
    [] stage = "wait_fin" /\ kind = "fin" ->
         [out |-> IF version = "1.3" THEN "ticket" ELSE "sfin", next |-> "done"]
    [] stage = "wait_sfin" /\ kind = "sfin" -> [out |-> "nothing", next |-> "done"]
    [] OTHER -> [out |-> "nothing", next |-> "failed"]

(* One record of SSL_do_handshake: x.in is what there is to read, x.out    *)
(* what is in the write BIO.  A second finds that the first was not the    *)
(* last; no end gets two flights of the other's at once.                   *)
HandshakeStep(x) ==
  IF x.stage \in {"done", "failed"} THEN x
  ELSE IF IsBad(x.in, x.seqIn) THEN [x EXCEPT !.stage = "failed"]
  ELSE IF ~IsWhole(x.in) THEN x
  ELSE LET f == Flight(x.stage, x.in[1].kind)
       IN  [x EXCEPT !.stage = f.next,
                     !.in = SubSeq(x.in, x.in[1].of + 1, Len(x.in)),
                     !.seqIn = @ + 1,
                     !.seqOut = IF f.out = "nothing" THEN @ ELSE @ + 1,
                     !.out = IF f.out = "nothing" THEN @ ELSE Record(f.out, x.seqOut, 0, 2)]

(* SSL_read of at most max bytes.  A ticket is passed over.  What a record *)
(* has beyond max stays in OpenSSL.                                        *)
AfterTicket(x) ==
  IF IsWhole(x.in) /\ InTurn(x.in, x.seqIn) /\ x.in[1].kind = "ticket"
  THEN [x EXCEPT !.in = SubSeq(x.in, x.in[1].of + 1, Len(x.in)), !.seqIn = @ + 1]
  ELSE x

Decrypt(x) ==
  IF x.plain # << >> \/ ~IsWhole(x.in) \/ IsBad(x.in, x.seqIn) THEN x
  ELSE [x EXCEPT !.in = SubSeq(x.in, x.in[1].of + 1, Len(x.in)),
                 !.seqIn = @ + 1,
                 !.plain = [j \in 1 .. x.in[1].of - 1 |-> x.in[1].n + j]]

-----------------------------------------------------------------------------
Fresh(stage) == [stage |-> stage, part |-> << >>, seqIn |-> 1, seqOut |-> 1, plain |-> << >>]

(* The constructor, and init of the server; TcpSocketConn::connectServer   *)
(* does not look at what it returned.                                      *)
Init ==
  /\ version \in {"1.2", "1.3"}
  /\ created \in BOOLEAN
  /\ bConencted_ = [e \in Ends |-> FALSE]
  /\ ssl = [e \in Ends |-> Fresh(IF e = "client" THEN "new" ELSE "wait_ch")]
  /\ rbio_ = [e \in Ends |-> << >>]
  /\ wire = [e \in Ends |-> << >>]
  /\ closed = [e \in Ends |-> FALSE]
  /\ sent = [e \in Ends |-> 0] /\ queued = 0
  /\ got = [e \in Ends |-> << >>]
  /\ disorder = {} /\ faults = {}

(* End e has read a segment of n units and hands out, the write BIO's own  *)
(* memory, to onTlsWriteData; BIO_reset then clears it, so what the kernel *)
(* did not take at once is sent as zeros.                                  *)
Exchange(e, n, out) ==
  LET rest == SubSeq(wire[e], n + 1, Len(wire[e]))
  IN  \/ /\ wire' = [wire EXCEPT ![e] = rest, ![Peer(e)] = @ \o out]
         /\ UNCHANGED queued
      \/ /\ out # << >> /\ queued < MaxQueued
         /\ queued' = queued + 1
         /\ \E taken \in 0 .. Len(out) - 1 :
              wire' = [wire EXCEPT ![e] = rest,
                         ![Peer(e)] = @ \o SubSeq(out, 1, taken)
                                        \o [j \in 1 .. Len(out) - taken |-> Zero]]

Queued == IF queued' > queued THEN {"write_queued"} ELSE {}

(* init of the client: SSL_connect writes its first flight.                *)
Connect ==
  /\ faults = {}
  /\ ssl["client"].stage = "new"
  /\ ssl' = [ssl EXCEPT !["client"].stage = "wait_sh", !["client"].seqOut = 2]
  /\ Exchange("client", 0, Record("ch", 1, 0, 2))
  /\ disorder' = disorder \cup Queued
  /\ UNCHANGED <<version, created, bConencted_, rbio_, closed, sent, got, faults>>

(* What readData makes of x, the state SSL_do_handshake left, on its three *)
(* branches: the bytes send_bio_data sends, what it leaves in the read BIO *)
(* (nothing, once it has sent), and bConencted_.  Two after a mutant:      *)
(* flights are sent only at the end; the read BIO is reset in any case.    *)
FlushedAtEnd(x) == IF x.stage = "done" THEN x.out ELSE << >>
Flushed(x) == x.out

NothingLeft(x) == << >>
LeftInBio(x) == IF x.stage = "done" /\ x.out = << >> THEN x.in ELSE << >>

IsDone(x) == x.stage = "done"

(* readData before the handshake is done.  send_bio_data resets both BIOs, *)
(* so what came behind the last record of the handshake is thrown away,    *)
(* if there is anything to send, and else not looked at.                   *)
ReadHandshake(e, n) ==
  /\ ~bConencted_[e]
  /\ \E y \in {HandshakeStep([stage |-> ssl[e].stage, out |-> << >>,
                              in |-> ssl[e].part \o rbio_[e] \o SubSeq(wire[e], 1, n),
                              seqIn |-> ssl[e].seqIn, seqOut |-> ssl[e].seqOut])} :
     \E x \in {HandshakeStep(y)} :
      /\ ssl' = [ssl EXCEPT ![e].stage = x.stage, ![e].seqIn = x.seqIn, ![e].seqOut = x.seqOut,
                            ![e].part = IF x.stage = "done" THEN << >> ELSE x.in]
      /\ rbio_' = [rbio_ EXCEPT ![e] = LeftInBio(x)]
      /\ bConencted_' = [bConencted_ EXCEPT ![e] = IsDone(x)]
      /\ Exchange(e, n, Flushed(x))
      /\ disorder' = disorder \cup Queued
           \cup (IF x.stage = "done" /\ x.in # << >> THEN {"data_with_handshake"} ELSE {})
      /\ UNCHANGED <<closed, got>>

(* What OpenSSL has once it has looked at a segment of n units.            *)
ReadBio(e, n) ==
  Decrypt(AfterTicket([in |-> ssl[e].part \o rbio_[e] \o SubSeq(wire[e], 1, n),
                       seqIn |-> ssl[e].seqIn, plain |-> ssl[e].plain]))

(* readData once it is done: the segment is added to the read BIO and      *)
(* SSL_read is called once, with the segment's own length.                 *)
ReadApplication(e, n) ==
  /\ bConencted_[e]
  /\ \E x \in {ReadBio(e, n)} : \E r \in {Least(n, Len(x.plain))} :
     \E bad \in {r = 0 /\ IsBad(x.in, x.seqIn)} :
      /\ Exchange(e, n, << >>)
      /\ got' = [got EXCEPT ![e] = @ \o SubSeq(x.plain, 1, r)]
      /\ ssl' = [ssl EXCEPT ![e].seqIn = x.seqIn,
                            ![e].plain = SubSeq(x.plain, r + 1, Len(x.plain)),
                            ![e].part  = IF r = 0 THEN x.in ELSE << >>,
                            ![e].stage = IF bad THEN "failed" ELSE @]
      /\ rbio_' = [rbio_ EXCEPT ![e] = IF r = 0 THEN << >> ELSE x.in]
      /\ bConencted_' = [bConencted_ EXCEPT ![e] = ~bad]
      /\ closed' = [closed EXCEPT ![e] = bad]
      /\ disorder' = disorder
           \cup (IF r > 0 /\ x.in # << >> THEN {"coalesced"} ELSE {})
           \cup (IF r < Len(x.plain) THEN {"short_segment"} ELSE {})

(* TcpSocketConn::onMessage, readData; without ssl_ nothing is survived.   *)
OnMessage(e, n) ==
  /\ faults = {} /\ ~closed[e]
  /\ n \in 1 .. Len(wire[e])
  /\ IF e = "server" /\ ~created
     THEN /\ faults' = {"null_ssl"}
          /\ UNCHANGED <<bConencted_, ssl, rbio_, wire, closed, queued, got, disorder>>
     ELSE /\ ReadHandshake(e, n) \/ ReadApplication(e, n)
          /\ UNCHANGED faults
  /\ UNCHANGED <<version, created, sent>>

(* writeData of the client's owner, who waits for onTlsConnectStatus(1),   *)
(* and TcpSocketConn::sendData of the server's, whom nobody tells: before  *)
(* the handshake is done the data are sent as they are.                    *)
SendData(e) ==
  /\ faults = {} /\ ~closed[e]
  /\ sent["client"] + sent["server"] < MaxMessages
  /\ IF bConencted_[e]
     THEN /\ sent' = [sent EXCEPT ![e] = @ + 1]
          /\ ssl' = [ssl EXCEPT ![e].seqOut = @ + Records(e)]
          /\ Exchange(e, 0, DataRecords(e, ssl[e].seqOut, sent[e] * Payload))
          /\ disorder' = disorder \cup Queued
     ELSE /\ e = "server" /\ ~bConencted_[e] /\ "sent_in_the_clear" \notin disorder
          /\ wire' = [wire EXCEPT ![Peer(e)] = Append(@, Clear)]
          /\ disorder' = disorder \cup {"sent_in_the_clear"}
          /\ UNCHANGED <<sent, ssl, queued>>
  /\ UNCHANGED <<version, created, bConencted_, rbio_, closed, got, faults>>

Next ==
  \/ Connect
  \/ \E e \in Ends : SendData(e) \/ \E n \in 1 .. Len(wire[e]) : OnMessage(e, n)

(* TCP brings what is on its way, and the loop hands it on.                *)
Fairness == \A e \in Ends : WF_vars(\E n \in 1 .. Len(wire[e]) : OnMessage(e, n))

Spec == Init /\ [][Next]_vars /\ Fairness

-----------------------------------------------------------------------------
TypeOK ==
  /\ bConencted_ \in [Ends -> BOOLEAN] /\ closed \in [Ends -> BOOLEAN]
  /\ \A e \in Ends :
       /\ ssl[e].stage \in {"new", "wait_ch", "wait_sh", "wait_fin", "wait_sfin", "done", "failed"}
       /\ bConencted_[e] <=> ssl[e].stage = "done"
       /\ ssl[e].plain # << >> => Len(ssl[e].plain) < Least(Payload, MaxRecord)
       /\ IsWhole(ssl[e].part) => ssl[e].stage = "failed"
  /\ queued \in 0 .. MaxQueued

(* The bytes SSL_write has taken of an end's first messages: of each the   *)
(* first, by their places among all that the end was given.                *)
Byte(e, k) == k + ((k - 1) \div Took(e)) * (Payload - Took(e))
Bytes(e, count) == [k \in 1 .. count |-> Byte(e, k)]
Taken(e) == Bytes(e, sent[e] * Took(e))

(* What an end is handed is what the other's SSL_write took, from its      *)
(* beginning and without a gap, whatever the segments and writes: all of a *)
(* client's messages, of a server's no more than the first record          *)
(* (readData, SSL_read; writeData, SSL_write).                             *)
InOrder == \A e \in Ends : IsPrefix(got[e], Taken(Peer(e)))

(* When everything has arrived, everything that was taken is handed up,    *)
(* unless a segment held more than one record, or less than the plaintext  *)
(* of the record it ended, or the end of the handshake and more (readData  *)
(* calls SSL_read once per segment, and not at all in the handshake's      *)
(* last).                                                                  *)
NothingHeldBack ==
  \A e \in Ends :
    faults = {} /\ wire[e] = << >> /\ disorder = {} => got[e] = Taken(Peer(e))

(* A connection that is not written to in the clear and whose writes the   *)
(* kernel takes whole fails only at a server of TLS 1.3, whose client's    *)
(* data came with the end of its handshake and were thrown away            *)
(* (send_bio_data resets the read BIO).                                    *)
FailsOnlyByReset ==
  \A e \in Ends :
    ssl[e].stage = "failed" /\ disorder \cap {"write_queued", "sent_in_the_clear"} = {} =>
      e = "server" /\ version = "1.3" /\ "data_with_handshake" \in disorder

(* A handshake that has begun ends at both ends, however it is cut, if the *)
(* server's init succeeded (init, readData, send_bio_data).                *)
HandshakeEnds ==
  ssl["client"].stage # "new" ~>
    \/ ~created \/ disorder # {}
    \/ bConencted_["client"] /\ bConencted_["server"]

-----------------------------------------------------------------------------
(* What the safety properties rest on, inductive.                          *)

(* The bytes in the first c data records of an end, and those its owner    *)
(* gave before the next.                                                   *)
From(e, c)  == (c \div Records(e)) * Took(e) + (c % Records(e)) * MaxRecord
Given(e, c) == (c \div Records(e)) * Payload + (c % Records(e)) * MaxRecord

(* The records an end writes: their sizes, where each begins in its        *)
(* stream, and the units of each.                                          *)
Size(e, seq)  == IF seq <= 2 THEN 2 ELSE From(e, seq - 2) - From(e, seq - 3) + 1
Start(e, seq) == IF seq <= 2 THEN 2 * seq - 1 ELSE seq + 2 + From(e, seq - 3)

KindOf(e, seq) ==
  CASE seq = 1 -> IF e = "client" THEN "ch" ELSE "sh"
    [] seq = 2 -> IF e = "client" THEN "fin" ELSE IF version = "1.3" THEN "ticket" ELSE "sfin"
    [] OTHER   -> "app"

UnitOf(e, seq, i) ==
  [kind |-> KindOf(e, seq), seq |-> seq, n |-> IF seq <= 2 THEN 0 ELSE Given(e, seq - 3),
   i |-> i, of |-> Size(e, seq)]

(* What e's peer may find: units of records before number next, and what   *)
(* stands where one was lost.                                              *)
AnyUnit ==
  [kind : {"clear", "zero", "ch", "sh", "fin", "sfin", "ticket", "app"},
   seq : Nat, n : Nat, i : Nat, of : Nat \ {0}]

Units(e, next) ==
  {u \in AnyUnit :
     \/ u \in {Clear, Zero}
     \/ u.seq \in 1 .. next - 1 /\ u.i \in 1 .. Size(e, u.seq) /\ u = UnitOf(e, u.seq, u.i)}

Stages == {"new", "wait_ch", "wait_sh", "wait_fin", "wait_sfin", "done", "failed"}

ShapeInv ==
  /\ version \in {"1.2", "1.3"}
  /\ ssl \in [Ends -> [stage : Stages, part : Seq(AnyUnit), seqIn : Nat \ {0},
                       seqOut : Nat \ {0}, plain : Seq(Nat)]]
  /\ rbio_ \in [Ends -> Seq(AnyUnit)] /\ wire \in [Ends -> Seq(AnyUnit)]
  /\ sent \in [Ends -> Nat] /\ got \in [Ends -> Seq(Nat)]

UnitsInv ==
  \A e \in Ends :
    /\ ssl[e].part \in Seq(Units(Peer(e), ssl[Peer(e)].seqOut))
    /\ rbio_[e] \in Seq(Units(Peer(e), ssl[Peer(e)].seqOut))
    /\ wire[e] \in Seq(Units(Peer(e), ssl[Peer(e)].seqOut))

(* The records an end has read and written, by its stage; the first two    *)
(* carry no data.                                                          *)
Count(next) == IF next <= 2 THEN 0 ELSE next - 3

AtStage(e, stage, seqIn, seqOut) ==
  \/ stage = "new"       /\ e = "client" /\ seqIn = 1 /\ seqOut = 1
  \/ stage = "wait_ch"   /\ e = "server" /\ seqIn = 1 /\ seqOut = 1
  \/ stage = "wait_sh"   /\ e = "client" /\ seqIn = 1 /\ seqOut = 2
  \/ stage = "wait_fin"  /\ e = "server" /\ seqIn = 2 /\ seqOut = 2
  \/ stage = "wait_sfin" /\ e = "client" /\ seqIn = 2 /\ seqOut = 3 /\ version = "1.2"
  \/ stage = "done" /\ seqOut >= 3
       /\ (seqIn >= 3 \/ (e = "client" /\ version = "1.3" /\ seqIn = 2))
  \/ stage = "failed"

StageInv ==
  \A e \in Ends :
    /\ AtStage(e, ssl[e].stage, ssl[e].seqIn, ssl[e].seqOut)
    /\ sent[e] * Records(e) = Count(ssl[e].seqOut)
    /\ ssl[e].seqIn <= ssl[Peer(e)].seqOut

(* What has been decrypted, handed up or not, is what the records read     *)
(* carried, byte by byte.                                                  *)
Carried(e, next) == Bytes(e, From(e, Count(next)))

HandedInv == \A e \in Ends : got[e] \o ssl[e].plain = Carried(Peer(e), ssl[e].seqIn)

(* As long as no write was taken in part, or sent in the clear, an end     *)
(* that has thrown nothing away has before it what its peer wrote, from    *)
(* the next record on; only a server of TLS 1.3 throws anything away, and  *)
(* nothing else fails.                                                     *)
Spoilt == disorder \cap {"write_queued", "sent_in_the_clear"} # {}
Reset  == version = "1.3" /\ "data_with_handshake" \in disorder

Before(e) == ssl[e].part \o rbio_[e] \o wire[e]

(* The units of s stand in p's stream from position a + 1 on.              *)
InPlace(p, s, a) ==
  \A j \in 1 .. Len(s) : s[j].seq # 0 /\ Start(p, s[j].seq) + s[j].i = a + j

StreamInv ==
  ~Spoilt =>
    /\ \A e \in Ends : ~(e = "server" /\ Reset) =>
         /\ Len(Before(e)) = Start(Peer(e), ssl[Peer(e)].seqOut)
                               - Start(Peer(e), ssl[e].seqIn)
         /\ InPlace(Peer(e), Before(e), Start(Peer(e), ssl[e].seqIn))
    /\ Reset => ssl["server"].stage \in {"done", "failed"} /\ ssl["server"].seqIn >= 3
    /\ \A e \in Ends : ssl[e].stage = "failed" => e = "server" /\ Reset /\ closed[e]

(* Nothing is left over unless a segment did not fit its records.          *)
SlackInv ==
  disorder = {} => \A e \in Ends : rbio_[e] = << >> /\ ssl[e].plain = << >>

TlsInv == TypeOK /\ ShapeInv /\ UnitsInv /\ StageInv /\ HandedInv /\ StreamInv /\ SlackInv
=============================================================================
