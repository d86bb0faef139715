----------------------------- MODULE MCNetwork -----------------------------
(***************************************************************************)
(* What the network code of src/net keeps between two callbacks, for TLC:  *)
(* the posts of AsyncPost, the buffers of DataBuffers, the table of        *)
(* SocketServer, and HTTP at both ends.  They share no state, so a         *)
(* behaviour runs one of them, system; the variables of the others stay as *)
(* they are initially.                                                     *)
(***************************************************************************)
EXTENDS AsyncPost

CONSTANTS
    Bytes, MaxPush, RingLen, MaxRing, CacheLen, Slack, MaxCache,  \* DataBuffers
    Addrs, MaxConns, ServerCloses, MaxSends,                      \* SocketServer
    RequestPieces, MaxRequests,                                   \* HttpServer
    ResponsePieces                                                \* HttpClient

VARIABLES
    system,
    length_, buf_, r_Pos_, w_Pos_, ringGiven, ringTaken, ringHeld,
    nbytes, bytes, length, cacheGiven, cacheTaken,
    ws, clientMap, peer, selfkey, object, tcp, peerGone, wsConnected, closing, running,
    posted, worker, sends, closes, reported, crossed, disorder, faults,
    sent, wire, ahead, httpConn, writer, responses, total, hDisorder,
    status, response, cWire, answered, cAhead, parser, segments, delivered, stale, cDisorder

Buffers == INSTANCE DataBuffers

Server == INSTANCE SocketServer WITH MaxCloses <- ServerCloses

Http == INSTANCE HttpServer WITH MaxPieces <- RequestPieces, disorder <- hDisorder

Client == INSTANCE HttpClient WITH
    MaxPieces <- ResponsePieces, wire <- cWire, ahead <- cAhead, disorder <- cDisorder

ASSUME BuffersAssumption == Buffers!LengthsAssumption
ASSUME ServerAssumption == Server!AddrsAssumption /\ Server!BoundsAssumption
ASSUME HttpAssumption == Http!BoundsAssumption /\ Client!MaxPiecesAssumption

ring   == <<length_, buf_, r_Pos_, w_Pos_, ringGiven, ringTaken, ringHeld>>
cache  == <<nbytes, bytes, length, cacheGiven, cacheTaken>>
server == <<ws, clientMap, peer, selfkey, object, tcp, peerGone, wsConnected, closing,
            running, posted, worker, sends, closes, reported, crossed, disorder, faults>>
http   == <<sent, wire, ahead, httpConn, writer, responses, total, hDisorder>>
client == <<status, response, cWire, answered, cAhead, parser, segments, delivered, stale, cDisorder>>
all    == <<system, vars, ring, cache, server, http, client>>

MCInit ==
    /\ system \in {"posts", "ring", "cache", "server", "http", "client"}
    /\ Init /\ Buffers!Init /\ Http!Init
    /\ Server!Init /\ (system # "server" => ~ws)
    /\ Client!Init
    /\ system # "client" => response = [framing |-> "eof", pieces |-> 0, blank |-> FALSE]

MCNext ==
    \/ /\ system = "posts" /\ Next
       /\ UNCHANGED <<system, ring, cache, server, http, client>>
    \/ /\ system = "ring" /\ Buffers!RingNext
       /\ UNCHANGED <<system, vars, cache, server, http, client>>
    \/ /\ system = "cache" /\ Buffers!CacheNext
       /\ UNCHANGED <<system, vars, ring, server, http, client>>
    \/ /\ system = "server" /\ Server!Next
       /\ UNCHANGED <<system, vars, ring, cache, http, client>>
    \/ /\ system = "http" /\ Http!Next
       /\ UNCHANGED <<system, vars, ring, cache, server, client>>
    \/ /\ system = "client" /\ Client!Next
       /\ UNCHANGED <<system, vars, ring, cache, server, http>>

MCSpec ==
    MCInit /\ [][MCNext]_all
           /\ Fairness /\ Server!Fairness /\ Http!Fairness /\ Client!Fairness

-----------------------------------------------------------------------------
\* The type invariants of all of them.
TypesOK ==
    /\ TypeOK /\ Buffers!TypeOK
    /\ Server!TypeOK /\ Http!TypeOK /\ Client!TypeOK

\* DataRingBuf and DataCacheBuf (DataBuf.cc) are queues of bytes, through every
\* wrap, move and reallocation, but for what a ring loses when it is filled; its
\* positions meet only then, and an empty one takes any piece up to its length.
BuffersImplementQueues ==
    /\ Buffers!RingImplementsQueue /\ Buffers!CacheImplementsQueue
    /\ [](Buffers!LosesOnlyWhenFull /\ Buffers!EmptyIsReset)

\* TcpServer and TcpSocketConn (NetCore.cc): the table has the connections that
\* are open, an answer goes to the connection it is for, a close is reported
\* once, and each undefined behaviour has its cause in what came before it.
TableHolds ==
    /\ Server!TableIsExact /\ Server!AnswersReachSender
    /\ Server!CloseReportedOnce /\ Server!FaultsExplained

\* HTTP (NetCore.cc, http_conn.cc): the server answers a first request when all
\* of it has been read and with its own body, and no byte of a later body is lost
\* or doubled; the client is handed a body once and whole, or else a part of it,
\* never before its end, and other bytes only after a tail.
BodiesSurvive ==
    /\ Http!FirstAnswered /\ Http!AnsweredWhenRead /\ Http!BodiesNeverReset
    /\ Client!WholeBodyOnce /\ Client!PartOfBody
    /\ Client!StaleNeedsTail /\ Client!NothingEarly

\* A connection whose peer is gone is deleted, and a body that has an end of its
\* own is handed up (TcpSocketConn::onMessage, HttpClient::onMessage).
LoopServes == Server!GoneIsDeleted /\ Client!BodyDelivered
=============================================================================
