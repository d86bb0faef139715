---------------------------- MODULE WsHandshake ----------------------------
(***************************************************************************)
(* The opening handshake of a WebSocket (net/app_protocol/wsProtocol.cc    *)
(* and its callers in net/NetCore.cc): the request of a WebSocketClient or *)
(* of another client, read by this library's server, and the response of   *)
(* this server or of another, read by this library's client.  TCP cuts     *)
(* both between any two lines.                                             *)
(*                                                                         *)
(* A request or response is a sequence of lines: a name and the words of   *)
(* the line.  "first" is the request or status line, "end" the blank one.  *)
(***************************************************************************)
EXTENDS Naturals, Sequences

CONSTANTS
  Clients,     (* Kinds of client: of AllClients.                          *)
  Servers      (* Kinds of server: of AllServers.                          *)

(* The library's client; one that names its version 8; one that sends the  *)
(* Connection header of a browser that keeps connections.                  *)
AllClients == {"library", "old", "keep-alive"}

(* The library's server; others that answer 101 with or without an Upgrade *)
(* header, with another protocol, or that refuse.                          *)
AllServers == {"library", "proper", "silent", "other", "refusing"}

KindsAssumption == Clients \subseteq AllClients /\ Servers \subseteq AllServers

VARIABLES
  who,          (* The two ends, and whether the path has a colon in it.   *)
  step,         (* "new", "requested", "answered", "closing".              *)
  wire,         (* Lines on their way to the end that waits for them.      *)
  server,       (* Fields of WebSocketProtocolServer.                      *)
  client,       (* Fields of WebSocketProtocolClient.                      *)
  cut           (* History: what arrived in more than one segment.         *)

vars == <<who, step, wire, server, client, cut>>

Fields == {"protocolVer", "connection", "upgrade", "version", "key", "accept", "code"}

Init ==
  /\ who \in [client : Clients, server : Servers, colon : BOOLEAN]
  /\ step = "new"
  /\ wire = << >>
  /\ server = [f |-> [x \in Fields |-> ""], bIsConnect |-> FALSE]
  /\ client = [f |-> [x \in Fields |-> ""], bIsConnect |-> FALSE]
  /\ cut = {}

Line(name, words) == [name |-> name, words |-> words]

(* The accept value of a key: shacalc of the key and the GUID.  Clients    *)
(* make one key here.                                                      *)
Accept(key) == IF key = "random" THEN "sha(random)" ELSE "sha(another)"

(* std::string::append.                                                    *)
Appended(value, more) == IF value = "" THEN more ELSE value \o more

-----------------------------------------------------------------------------
(* parse_line and parse_attribute, line by line: of lines with one name    *)
(* the last counts.  A line with a colon is a header, even a request line; *)
(* a header no branch names is skipped.                                    *)
Named(lines, name) == {i \in DOMAIN lines : lines[i].name = name}

LastWords(lines, name) ==
  lines[CHOOSE i \in Named(lines, name) : \A j \in Named(lines, name) : j <= i].words

Headers(f, lines, known) ==
  [x \in Fields |-> IF x \in known /\ Named(lines, x) # {} THEN LastWords(lines, x)[1] ELSE f[x]]

Word(words, i) == IF i <= Len(words) THEN words[i] ELSE ""

ParseRequest(f, lines) ==
  [Headers(f, lines, {"connection", "upgrade", "version", "key"}) EXCEPT
     !.protocolVer = IF Named(lines, "first") # {} /\ ~who.colon
                     THEN Word(LastWords(lines, "first"), 3) ELSE @]

ParseResponse(f, lines) ==
  [Headers(f, lines, {"connection", "upgrade", "accept"}) EXCEPT
     !.code = IF Named(lines, "first") # {} /\ Len(LastWords(lines, "first")) >= 2
              THEN LastWords(lines, "first")[2] ELSE @]

Whole(lines) == \E i \in DOMAIN lines : lines[i].name = "end"

(* Mutant: any answer will do.                                             *)
AnyCode(f) == f.upgrade \in {"websocket", "WebSocket"} /\ f.accept # ""

(* doHandShake's check.                                                    *)
Acceptable(f) ==
  /\ f.upgrade = "websocket"
  /\ f.connection = "Upgrade"
  /\ f.version = "13"
  /\ f.key # ""

(* doResponse's check (of the client): strcasecmp for the upgrade only.    *)
Upgraded(f) ==
  /\ f.upgrade \in {"websocket", "WebSocket"}
  /\ f.code = "101"
  /\ f.accept # ""

-----------------------------------------------------------------------------
(* initParam, then doHandShake, of the client (WebSocketClient::onConnect).*)
InitParam(f) ==
  [f EXCEPT !.protocolVer = "HTTP/1.1", !.connection = "Upgrade", !.upgrade = "websocket",
            !.version = "13", !.key = "random"]

Target == IF who.colon THEN "/path:x" ELSE "/path"

Request(f) ==
  << Line("first", <<"GET", Target, f.protocolVer>>),
     Line("connection", <<f.connection>>),
     Line("upgrade", <<f.upgrade>>),
     Line("version", <<f.version>>),
     Line("key", <<f.key>>),
     Line("end", << >>) >>

OtherClient(f) ==
  IF who.client = "old" THEN [f EXCEPT !.version = "8"]
  ELSE [f EXCEPT !.connection = "keep-alive, Upgrade"]

DoHandShake ==
  /\ step = "new"
  /\ step' = "requested"
  /\ IF who.client = "library"
     THEN /\ client' = [client EXCEPT !.f = InitParam(@)]
          /\ wire' = Request(InitParam(client.f))
     ELSE /\ wire' = Request(OtherClient(InitParam(client.f)))
          /\ UNCHANGED client
  /\ UNCHANGED <<who, server, cut>>

(* doResponse of the server: a status line without a version begins with   *)
(* the space that follows it.                                              *)
Response(f) ==
  << Line("first", (IF f.protocolVer = "" THEN << >> ELSE <<f.protocolVer>>)
                     \o <<"101", "Switching", "Protocols">>),
     Line("connection", <<f.connection>>),
     Line("upgrade", <<f.upgrade>>),
     Line("accept", <<f.accept>>),
     Line("end", << >>) >>

(* TcpSocketConn::onMessage before the WebSocket is connected, on n lines: *)
(* doHandShake, and doResponse if it succeeds.                             *)
OnRequest(n) ==
  LET lines == SubSeq(wire, 1, n)
      f     == IF Whole(lines) THEN ParseRequest(server.f, lines) ELSE server.f
  IN  /\ step = "requested" /\ who.server = "library"
      /\ n \in 1 .. Len(wire)
      /\ IF Whole(lines) /\ Acceptable(f)
         THEN /\ server' = [f |-> [f EXCEPT !.accept = Appended(@, Accept(f.key))], bIsConnect |-> TRUE]
              /\ wire' = Response([f EXCEPT !.accept = Appended(@, Accept(f.key))])
              /\ step' = "answered"
         ELSE /\ server' = [server EXCEPT !.f = f]
              /\ wire' = SubSeq(wire, n + 1, Len(wire))
              /\ UNCHANGED step
      /\ cut' = cut \cup (IF n < Len(wire) THEN {"request"} ELSE {})
      /\ UNCHANGED <<who, client>>

(* Another server answers.                                                 *)
OtherResponse ==
  << Line("first", <<"HTTP/1.1", IF who.server = "refusing" THEN "400" ELSE "101">>),
     CASE who.server = "other"  -> Line("upgrade", <<"h2c">>)
       [] who.server = "silent" -> Line("other", <<"header">>)
       [] OTHER -> Line("upgrade", <<"WebSocket">>),
     Line("accept", <<Accept("random")>>),
     Line("end", << >>) >>

OtherAnswers ==
  /\ step = "requested" /\ who.server # "library"
  /\ step' = "answered"
  /\ wire' = OtherResponse
  /\ UNCHANGED <<who, server, client, cut>>

(* WebSocketClient::onMessage before it is connected: doResponse, and      *)
(* close if it fails.                                                      *)
OnResponse(n) ==
  LET lines == SubSeq(wire, 1, n)
      f     == IF Whole(lines) THEN ParseResponse(client.f, lines) ELSE client.f
  IN  /\ step = "answered" /\ who.client = "library" /\ ~client.bIsConnect
      /\ n \in 1 .. Len(wire)
      /\ client' = [f |-> f, bIsConnect |-> Whole(lines) /\ Upgraded(f)]
      /\ step' = IF Whole(lines) /\ Upgraded(f) THEN "answered" ELSE "closing"
      /\ wire' = SubSeq(wire, n + 1, Len(wire))
      /\ cut' = cut \cup (IF n < Len(wire) THEN {"response"} ELSE {})
      /\ UNCHANGED <<who, server>>

Next ==
  \/ DoHandShake \/ OtherAnswers
  \/ \E n \in 1 .. Len(wire) : OnRequest(n) \/ OnResponse(n)

Spec == Init /\ [][Next]_vars

-----------------------------------------------------------------------------
TypeOK ==
  /\ step \in {"new", "requested", "answered", "closing"}
  /\ \A end \in {server, client} :
       /\ end.f.protocolVer \in {"", "HTTP/1.1"}
       /\ end.f.connection \in {"", "Upgrade", "keep-alive, Upgrade"}
       /\ end.f.upgrade \in {"", "websocket", "WebSocket", "h2c"}
       /\ end.f.version \in {"", "13", "8"}
       /\ end.f.key \in {"", "random"}
       /\ end.f.accept \in {"", Accept("random")}
       /\ end.f.code \in {"", "101", "400", "Switching"}
  /\ cut \subseteq {"request", "response"}

(* The server is connected only to a client that asked for version 13, and *)
(* the accept value it sent is that of this client's key, once, however    *)
(* the request was cut (doHandShake appends to accept).                    *)
ServerAnswersItsClient ==
  server.bIsConnect => who.client = "library" /\ server.f.accept = Accept("random")

(* The client is connected only by a status of 101 and an accept value.  A *)
(* response without an Upgrade header passes, because initParam has left   *)
(* the client's own request in the field; one that upgrades to something   *)
(* else does not (doResponse).                                             *)
ClientConnectsTo101 ==
  client.bIsConnect => who.server \in {"library", "proper", "silent"} /\ client.f.accept # ""

(* Two ends of this library whose handshake is not cut agree: once the     *)
(* response has been read both are connected, unless the path has a colon. *)
(* The colon makes the request line a header, the server answers with no   *)
(* version, and the client refuses what the server takes for connected.    *)
TwoEndsAgree ==
  /\ who.client = "library" /\ who.server = "library" /\ cut = {}
  /\ step \in {"answered", "closing"} /\ wire = << >>
  => server.bIsConnect /\ (client.bIsConnect <=> ~who.colon)

(* "wait other data" (NetCore.cc, TcpSocketConn::onMessage): a request the *)
(* server has a part of is completed by the next segment.                  *)
WaitsForOtherData ==
  who.client = "library" /\ who.server = "library" /\ step = "requested" => wire # << >>

-----------------------------------------------------------------------------
(* The inductive invariant of the three, in parts.                         *)
Words ==
  {"", "GET", "/path", "/path:x", "HTTP/1.1", "101", "400", "Switching", "Protocols",
   "Upgrade", "keep-alive, Upgrade", "websocket", "WebSocket", "h2c", "header", "8", "13",
   "random", "sha(random)", "sha(another)"}

Lines ==
  {l \in [name : Fields \cup {"first", "other", "end"}, words : Seq(Words)] :
     l.name # "end" => l.words # << >>}

UpgradeTypes ==
  /\ wire \in Seq(Lines) /\ Len(wire) <= 6
  /\ who \in [client : Clients, server : Servers, colon : BOOLEAN]
  /\ step \in {"new", "requested", "answered", "closing"}
  /\ server \in [f : [Fields -> Words], bIsConnect : BOOLEAN]
  /\ client \in [f : [Fields -> Words], bIsConnect : BOOLEAN]

Blank == [x \in Fields |-> ""]

(* What each client asks for.                                              *)
Asked == IF who.client = "library" THEN InitParam(Blank) ELSE OtherClient(InitParam(Blank))

(* What the server has of a request is what the client asked for.          *)
ServerInv ==
  /\ step = "new" => server = [f |-> Blank, bIsConnect |-> FALSE]
  /\ step = "requested" =>
       \A i \in DOMAIN wire : wire[i].name \in {"connection", "version", "key"} =>
                               wire[i].words = <<Asked[wire[i].name]>>
  /\ step \in {"new", "requested"} =>
       /\ ~server.bIsConnect /\ server.f.accept = ""
       /\ \A x \in {"connection", "version", "key"} : server.f[x] \in {"", Asked[x]}
  /\ server.bIsConnect => who.client = "library" /\ server.f.accept = Accept("random")

(* What the client has before it reads a response, and what it reads.      *)
ClientInv ==
  /\ step = "new" => client.f = Blank
  /\ step # "closing" /\ ~client.bIsConnect /\ who.client = "library" /\ step # "new" =>
       client.f = InitParam(Blank)
  /\ step \in {"new", "requested", "closing"} => ~client.bIsConnect
  /\ step = "answered" /\ who.server # "library" /\ ~client.bIsConnect => wire = OtherResponse
  /\ client.bIsConnect => who.server \in {"library", "proper", "silent"} /\ client.f.accept # ""

(* Two ends of this library, no segment of theirs cut.                     *)
UncutInv ==
  who.client = "library" /\ who.server = "library" /\ cut = {} =>
    /\ step = "requested" => wire = Request(InitParam(Blank)) /\ server.f = Blank
    /\ step \in {"answered", "closing"} => server.bIsConnect
    /\ step = "answered" /\ ~client.bIsConnect =>
         wire = Response([InitParam(Blank) EXCEPT
                            !.protocolVer = IF who.colon THEN "" ELSE @,
                            !.accept = Accept("random")])
    /\ client.bIsConnect => ~who.colon
    /\ step = "closing" => who.colon

UpgradeInv == UpgradeTypes /\ ServerInv /\ ClientInv /\ UncutInv
=============================================================================
