---------------------------- MODULE MCTransports ----------------------------
(***************************************************************************)
(* How a connection of this library is opened, secured, used and ended,    *)
(* for TLC: the chunks of ChunkSender, the handshake of RTMP               *)
(* (HandshakeCodec), that of WebSocket and the life of its client          *)
(* (WsHandshake, WsClientLife), TLS and DTLS.  They share no state, so a   *)
(* behaviour runs one of them, system; the variables of the others stay as *)
(* they are initially.                                                     *)
(***************************************************************************)
EXTENDS ChunkSender

CONSTANTS
    Block, KeySize, DigestSize, Offsets,                          \* HandshakeCodec
    Clients, Servers,                                             \* WsHandshake
    MaxFrames, MaxCloses,                                         \* WsClientLife
    Payload, MaxRecord, MaxMessages, MaxQueued,                   \* TlsTransport
    DtlsStart, DtlsMost, Retries, MaxLost, MaxRepeated, MaxWrites \* DtlsHandshake

VARIABLES
    system,
    rStep, schema, key, digest, c0c1, joined, s0s1s2, served, verdict, c2,
    who, step, hWire, hServer, client, cut,
    object, tcp, pingTimer_, bIsConnect, closing, running, wire, answer, sent,
    closes, told, delivered, disorder, faults,
    version, created, bConencted_, ssl, rbio_, tWire, tClosed, tSent, queued, got,
    tDisorder, tFaults,
    dtlsStatus_, dtlsConnect_, retryTime, arqTimeout_, arqTimer_, dSsl, dServer, wbio_,
    net, dTold, deleted, lost, repeated, dWrites, dFaults

Handshake == INSTANCE HandshakeCodec WITH step <- rStep

Upgrade == INSTANCE WsHandshake WITH wire <- hWire, server <- hServer

Life == INSTANCE WsClientLife

Tls == INSTANCE TlsTransport WITH
    wire <- tWire, closed <- tClosed, sent <- tSent, disorder <- tDisorder,
    faults <- tFaults

Dtls == INSTANCE DtlsHandshake WITH
    ssl <- dSsl, server <- dServer, told <- dTold, writes <- dWrites, faults <- dFaults

ASSUME HandshakeAssumption == Handshake!SizesAssumption /\ Handshake!OffsetsAssumption
ASSUME WebSocketAssumption == Upgrade!KindsAssumption /\ Life!BoundsAssumption
ASSUME SecurityAssumption ==
    Tls!BoundsAssumption /\ Dtls!TimesAssumption /\ Dtls!BoundsAssumption

\* Offset fields: every rest that matters to a block of 12 bytes, each of the
\* four bytes, a sum beyond the block, and the largest.
AllOffsets ==
    {[i \in 1..4 |-> IF i = 1 + (v % 4) THEN v ELSE 0] : v \in {0, 1, 2, 3, 4, 7}}
      \cup {<<255, 255, 255, 255>>}

shake   == <<rStep, schema, key, digest, c0c1, joined, s0s1s2, served, verdict, c2>>
upgrade == <<who, step, hWire, hServer, client, cut>>
life    == <<object, tcp, pingTimer_, bIsConnect, closing, running, wire, answer, sent,
             closes, told, delivered, disorder, faults>>
tls     == <<version, created, bConencted_, ssl, rbio_, tWire, tClosed, tSent, queued,
             got, tDisorder, tFaults>>
dtls    == <<dtlsStatus_, dtlsConnect_, retryTime, arqTimeout_, arqTimer_, dSsl, dServer,
             wbio_, net, dTold, deleted, lost, repeated, dWrites, dFaults>>
all == <<system, vars, shake, upgrade, life, tls, dtls>>

\* What a system's initial states leave open is open where that system runs.
AnyOf(S) == CHOOSE x \in S : TRUE

MCInit ==
    /\ system \in {"chunks", "handshake", "upgrade", "life", "tls", "dtls"}
    /\ Init /\ Handshake!Init /\ Upgrade!Init /\ Life!Init /\ Tls!Init /\ Dtls!Init
    /\ system # "handshake" =>
         /\ schema = 0
         /\ key = Handshake!NewKey("client", AnyOf(Offsets))
         /\ digest = Handshake!NewDigest("client", AnyOf(Offsets))
    /\ system # "upgrade" =>
         who = [client |-> AnyOf(Clients), server |-> AnyOf(Servers), colon |-> FALSE]
    /\ system # "tls" => version = "1.2" /\ created

\* ChunkSender never stops; the others may.
Ended == system # "chunks" /\ UNCHANGED all

MCNext ==
    \/ /\ system = "chunks" /\ Next
       /\ UNCHANGED <<system, shake, upgrade, life, tls, dtls>>
    \/ /\ system = "handshake" /\ Handshake!Next
       /\ UNCHANGED <<system, vars, upgrade, life, tls, dtls>>
    \/ /\ system = "upgrade" /\ Upgrade!Next
       /\ UNCHANGED <<system, vars, shake, life, tls, dtls>>
    \/ /\ system = "life" /\ Life!Next
       /\ UNCHANGED <<system, vars, shake, upgrade, tls, dtls>>
    \/ /\ system = "tls" /\ Tls!Next
       /\ UNCHANGED <<system, vars, shake, upgrade, life, dtls>>
    \/ /\ system = "dtls" /\ Dtls!Next
       /\ UNCHANGED <<system, vars, shake, upgrade, life, tls>>
    \/ Ended

MCSpec ==
    MCInit /\ [][MCNext]_all /\ Life!Fairness /\ Tls!Fairness /\ Dtls!Fairness

-----------------------------------------------------------------------------
\* The type invariants of all of them.
TypesOK ==
    /\ TypeOK /\ Handshake!TypeOK /\ Upgrade!TypeOK
    /\ Life!TypeOK /\ Tls!TypeOK /\ Dtls!TypeOK

\* The two ends of the handshake agree (rtmp_stack_handshake.cc): general_c0c1
\* fills C0 C1 at every position of key and digest, a server finds the digest
\* where the client put it, over all else, and C2 answers S1.
HandshakeAgrees ==
    Handshake!MessagesFill /\ Handshake!ServerFindsDigest /\ Handshake!C2IsS1

\* The key that process_s0s1s2 reads is the server's (rtmp_stack_handshake.cc).
KeyIsServers == Handshake!KeyIsServers

\* The two ends of an upgrade agree (wsProtocol.cc): the server accepts its own
\* client and answers with the key's digest, the client takes only a 101 with an
\* upgrade for one, and both are connected or none.
UpgradeAgrees ==
    Upgrade!ServerAnswersItsClient /\ Upgrade!ClientConnectsTo101 /\ Upgrade!TwoEndsAgree

\* A request or response in two segments is kept: "wait other data" (NetCore.cc).
WaitsForOtherData == Upgrade!WaitsForOtherData

\* WebSocketClient (NetCore.cc): closed once, by closeWs, it is safe; each
\* undefined behaviour has its cause in what came before it; the user is told of
\* each end once, and handed no frame before the response.
ClientIsSafe ==
    /\ Life!OrderlyCloseIsSafe /\ Life!FaultsHaveTheirCause
    /\ Life!ToldOnce /\ Life!FramesAfterResponse

\* SecurityTransport (tls.cc): what is handed up is a prefix of what SSL_write
\* took, of a server's message no more than a record; nothing is held back, and
\* no connection fails, but for what disorder explains.
TlsSurvives == Tls!InOrder /\ Tls!NothingHeldBack /\ Tls!FailsOnlyByReset

\* DtlsClient and DtlsServer (Dtls.cc): a client that is told that it is done
\* has a server that is, with the same keys; one under way has a timer and gives
\* up for a reason; it closes its timer twice only for a late answer.
DtlsAgrees ==
    /\ Dtls!EndsAgree /\ Dtls!NeverStalls
    /\ Dtls!TimeoutHasCause /\ Dtls!FaultsExplained

\* What was begun ends: the close of a WebSocketClient with its deletion, the
\* handshake of TLS at both ends, that of DTLS with the owner told how.
BegunEnds == Life!CloseCompletes /\ Tls!HandshakeEnds /\ Dtls!ClientIsTold
=============================================================================
