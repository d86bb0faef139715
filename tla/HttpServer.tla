----------------------------- MODULE HttpServer -----------------------------
(***************************************************************************)
(* One client of HttpServer (net/NetCore.cc): its HttpConn, which          *)
(* http_parser calls back for each piece of a request that a segment       *)
(* holds, and the HttpResponseWriter that is kept with it.  The client     *)
(* keeps its connection, as the server's own header says it may, and TCP   *)
(* cuts what it sends anywhere.                                            *)
(*                                                                         *)
(* A request is a sequence of tokens: its url in two parts, the rest of    *)
(* its header, and the pieces of its body.  disorder names what happened   *)
(* on the connection besides one request in the segments of its own.       *)
(***************************************************************************)
EXTENDS Integers, Sequences, SequencesExt

CONSTANTS
  MaxPieces,     (* Pieces of a body.                                      *)
  MaxRequests    (* Requests sent.  Bounds the model.                      *)

BoundsAssumption == MaxPieces \in Nat /\ MaxRequests \in Nat

Methods == {"POST", "GET", "PUT"}
Urls    == {"registered", "unknown"}

Requests == [method : Methods, url : Urls, pieces : 0 .. MaxPieces]

VARIABLES
  sent,         (* History: the requests of this connection.               *)
  wire,         (* Tokens on their way.                                    *)
  ahead,        (* Steps onRecvData has ahead of it: the tokens left of    *)
                (* its segment, and the handler.  0 between two segments.  *)
  httpConn,     (* The HttpConn of the key, "none" before the first data.  *)
  writer,       (* Its responseWriter.                                     *)
  responses,    (* History: responses written on this connection.          *)
  total,        (* Requests sent on all connections of this key.           *)
  disorder

vars == <<sent, wire, ahead, httpConn, writer, responses, total, disorder>>

NewConn   == [url |-> << >>, method |-> "GET", httpBody |-> << >>, messageComplete |-> FALSE,
              merging |-> FALSE, finished |-> 0]
NewWriter == [code |-> 200, close |-> FALSE, content_len |-> -1, http_body |-> << >>]
NoConn    == [NewConn EXCEPT !.method = "none"]

Init ==
  /\ sent = << >> /\ wire = << >> /\ ahead = 0
  /\ httpConn = NoConn /\ writer = NewWriter
  /\ responses = << >> /\ total = 0
  /\ disorder = {}

(* The tokens of request number i; the last one ends the message.          *)
Tokens(i, r) ==
  LET kinds == <<"url1", "url2", "head">> \o [p \in 1 .. r.pieces |-> "body"]
  IN  [k \in 1 .. Len(kinds) |->
         [req |-> i, kind |-> kinds[k], piece |-> k, last |-> k = Len(kinds)]]

Send(r) ==
  /\ total < MaxRequests
  /\ total' = total + 1
  /\ sent'  = Append(sent, r)
  /\ wire'  = wire \o Tokens(Len(sent) + 1, r)
  /\ UNCHANGED <<ahead, httpConn, writer, responses, disorder>>

-----------------------------------------------------------------------------
(* HttpServer::onRecvData and HttpConn::onRecvData of a segment of n       *)
(* tokens, up to http_parser_execute.                                      *)
OnRecvData(n) ==
  /\ ahead = 0
  /\ n <= Len(wire)
  /\ ahead' = n + 1
  /\ httpConn' = [(IF httpConn = NoConn THEN NewConn ELSE httpConn) EXCEPT !.merging = FALSE]
  /\ disorder' = disorder
       \cup (IF httpConn.messageComplete THEN {"kept_alive"} ELSE {})
       \cup (IF wire[1].kind = "url2" THEN {"url_cut"} ELSE {})
       \cup (IF wire[n].req # wire[1].req THEN {"pipelined"} ELSE {})
  /\ UNCHANGED <<sent, wire, writer, responses, total>>

(* What http_parser calls for a token.  on_url gets what the segment holds *)
(* of the url and replaces what there was; on_body appends.                *)
OnUrl(h, t) ==
  [h EXCEPT !.url = IF t.kind = "url2" /\ h.merging THEN Append(@, t) ELSE <<t>>,
            !.method = sent[t.req].method,
            !.merging = TRUE]

OnBody(h, t) == [h EXCEPT !.httpBody = Append(@, t)]

OnMessageComplete(h, t) ==
  IF t.last THEN [h EXCEPT !.messageComplete = TRUE, !.finished = t.req] ELSE h

OnToken(h, t) ==
  OnMessageComplete(IF t.kind = "body" THEN OnBody(h, t)
                    ELSE IF t.kind = "head" THEN h ELSE OnUrl(h, t), t)

(* http_parser_execute calls back for the next token of the segment.       *)
Execute ==
  /\ ahead > 1
  /\ ahead' = ahead - 1
  /\ wire' = Tail(wire)
  /\ httpConn' = OnToken(httpConn, Head(wire))
  /\ UNCHANGED <<sent, writer, responses, total, disorder>>

(* find_handle: the whole url of a request for a registered pattern.       *)
IsRegistered(url) ==
  /\ Len(url) = 2
  /\ sent[url[1].req].url = "registered"

(* A user's handler, which answers with what it was given.  set_body       *)
(* leaves the body as it is when it is given an empty one.                 *)
SetBody(w, body) == [w EXCEPT !.http_body = IF body = << >> THEN @ ELSE body]

UserHandle(w, body) == SetBody([w EXCEPT !.content_len = Len(body)], body)

NotFoundText == <<[req |-> 0, kind |-> "not found", piece |-> 1, last |-> TRUE]>>

(* set_response_code and Http404Handle.                                    *)
NotFound(w) ==
  SetBody([w EXCEPT !.code = 404, !.close = TRUE, !.content_len = Len(NotFoundText)],
          NotFoundText)

OnHttpPost(h, w) == IF IsRegistered(h.url) THEN UserHandle(w, h.httpBody) ELSE NotFound(w)

(* The rest of HttpConn::onRecvData.  onHttpGet is empty, and other        *)
(* methods call nothing.                                                   *)
OnExecuted ==
  LET w == OnHttpPost(httpConn, writer)
  IN  /\ ahead = 1
      /\ ahead' = 0
      /\ IF httpConn.messageComplete /\ httpConn.method = "POST"
         THEN /\ writer' = w
              /\ responses' = Append(responses, [answer |-> w, finished |-> httpConn.finished])
         ELSE UNCHANGED <<writer, responses>>
      /\ UNCHANGED <<sent, wire, httpConn, total, disorder>>

(* HttpServer::onClosed deletes the HttpConn; the peer may connect again   *)
(* from the same port.                                                     *)
OnClosed ==
  /\ ahead = 0
  /\ sent # << >>
  /\ sent' = << >> /\ wire' = << >>
  /\ httpConn' = NoConn /\ writer' = NewWriter
  /\ responses' = << >>
  /\ disorder' = {}
  /\ UNCHANGED <<ahead, total>>

Next ==
  \/ \E r \in Requests : Send(r)
  \/ \E n \in 1 .. Len(wire) : OnRecvData(n)
  \/ Execute \/ OnExecuted
  \/ OnClosed

(* What was sent arrives.  Nobody need send or close.                      *)
Fairness == WF_vars((\E n \in 1 .. Len(wire) : OnRecvData(n)) \/ Execute \/ OnExecuted)

Spec == Init /\ [][Next]_vars /\ Fairness

-----------------------------------------------------------------------------
TokenSet ==
  [req : 1 .. MaxRequests, kind : {"url1", "url2", "head", "body"},
   piece : 1 .. MaxPieces + 3, last : BOOLEAN]

TypeOK ==
  /\ sent \in Seq(Requests)
  /\ wire \in Seq(TokenSet) /\ ahead \in 0 .. Len(wire) + 1
  /\ httpConn.url \in Seq(TokenSet) /\ httpConn.httpBody \in Seq(TokenSet)
  /\ httpConn.messageComplete \in BOOLEAN
  /\ Len(httpConn.url) <= 2
  /\ writer.code \in {200, 404} /\ writer.content_len \in Nat \cup {-1}
  /\ total \in 0 .. MaxRequests
  /\ disorder \subseteq {"kept_alive", "url_cut", "pipelined"}

BodyOf(i) == [p \in 1 .. sent[i].pieces |-> Tokens(i, sent[i])[p + 3]]

(* What a client whose request is number i should get.                     *)
RightAnswer(a, i) ==
  IF sent[i].url = "registered"
  THEN a.code = 200 /\ a.http_body = BodyOf(i) /\ a.content_len = Len(BodyOf(i)) /\ ~a.close
  ELSE a.code = 404 /\ a.http_body = NotFoundText

(* The first request of a connection is answered with its own body and     *)
(* code, in whatever segments its header and body arrive (on_body,         *)
(* onHttpPost), as long as its url is not cut and nothing follows it.      *)
FirstAnswered ==
  disorder = {} =>
    \A i \in DOMAIN responses :
      responses[i].finished = i /\ RightAnswer(responses[i].answer, i)

(* Once all that was sent has arrived, a single POST has its answer and    *)
(* other methods have none.                                                *)
AnsweredWhenRead ==
  disorder = {} /\ wire = << >> /\ ahead = 0 /\ Len(sent) = 1 =>
    Len(responses) = IF sent[1].method = "POST" THEN 1 ELSE 0

(* t is before u in what the client sent.                                  *)
Earlier(t, u) == t.req < u.req \/ (t.req = u.req /\ t.piece < u.piece)

(* Even on a connection that is kept, and however it is cut: no byte of a  *)
(* body is lost or doubled before the handler sees it.                     *)
BodiesNeverReset ==
  /\ \A i, j \in DOMAIN httpConn.httpBody : i < j => Earlier(httpConn.httpBody[i], httpConn.httpBody[j])
  /\ ToSet(httpConn.httpBody) = (UNION {ToSet(BodyOf(i)) : i \in DOMAIN sent}) \ ToSet(wire)

-----------------------------------------------------------------------------
(* What the safety properties rest on, inductive.                          *)

ConnSet ==
  [url : Seq(TokenSet), method : Methods \cup {"none"}, httpBody : Seq(TokenSet),
   messageComplete : BOOLEAN, merging : BOOLEAN, finished : Nat]

WriterSet ==
  [code : {200, 404}, close : BOOLEAN, content_len : Nat \cup {-1},
   http_body : Seq(TokenSet) \cup {NotFoundText}]

TypesInv ==
  /\ sent \in Seq(Requests) /\ Len(sent) <= total /\ total \in 0 .. MaxRequests
  /\ wire \in Seq(TokenSet) /\ ahead \in 0 .. Len(wire) + 1
  /\ httpConn \in ConnSet /\ writer \in WriterSet
  /\ disorder \subseteq {"kept_alive", "url_cut", "pipelined"}
  /\ sent = << >> => /\ wire = << >> /\ ahead = 0 /\ httpConn = NoConn
                     /\ writer = NewWriter /\ responses = << >>

(* The wire has tokens of requests that were sent, each behind the one     *)
(* before it, up to the last.                                              *)
IsToken(reqs, t) ==
  /\ t.req \in DOMAIN reqs
  /\ t.piece \in 1 .. reqs[t.req].pieces + 3
  /\ t = Tokens(t.req, reqs[t.req])[t.piece]

Follows(t, u) ==
  IF t.last THEN u.req = t.req + 1 /\ u.piece = 1 ELSE u.req = t.req /\ u.piece = t.piece + 1

WireInv ==
  /\ \A i \in 1 .. Len(wire) : IsToken(sent, wire[i])
  /\ \A i \in 1 .. Len(wire) - 1 : Follows(wire[i], wire[i + 1])
  /\ \A i, j \in 1 .. Len(wire) : i < j => Earlier(wire[i], wire[j])
  /\ wire # << >> => wire[Len(wire)].last /\ wire[Len(wire)].req = Len(sent)

UrlInv ==
  /\ Len(httpConn.url) <= 2
  /\ wire # << >> /\ wire[1].piece = 2 /\ httpConn.merging => Len(httpConn.url) = 1

(* A body token is in httpBody or still to come, and never both.           *)
BodyInv ==
  /\ \A i \in DOMAIN httpConn.httpBody :
       /\ IsToken(sent, httpConn.httpBody[i]) /\ httpConn.httpBody[i].piece > 3
       /\ \A j \in DOMAIN httpConn.httpBody :
            i < j => Earlier(httpConn.httpBody[i], httpConn.httpBody[j])
       /\ \A j \in 1 .. Len(wire) : Earlier(httpConn.httpBody[i], wire[j])
  /\ \A i \in DOMAIN sent : \A p \in 1 .. sent[i].pieces :
       Tokens(i, sent[i])[p + 3] \in ToSet(httpConn.httpBody) \cup ToSet(wire)

(* As long as there is no disorder, the first request is being read, up to *)
(* its token k, or has been, and then answered.                            *)
ReadTo(k) ==
  LET t == Tokens(1, sent[1])
  IN  /\ k = 1 => httpConn.url = << >>
      /\ k = 2 => httpConn.url = <<t[1]>>
      /\ k > 2 => httpConn.url = <<t[1], t[2]>>
      /\ k > 1 => httpConn.method = sent[1].method
      /\ k = 2 => httpConn.merging
      /\ httpConn.httpBody = [p \in 1 .. (IF k > 4 THEN k - 4 ELSE 0) |-> t[p + 3]]

Reading ==
  /\ wire # << >> /\ wire[1].req = 1
  /\ ReadTo(wire[1].piece)
  /\ ~httpConn.messageComplete
  /\ responses = << >> /\ writer = NewWriter

HasRead ==
  /\ ReadTo(sent[1].pieces + 4)
  /\ httpConn.messageComplete /\ httpConn.finished = 1
  /\ ahead <= 1
  /\ ahead = 1 \/ sent[1].method # "POST" => responses = << >> /\ writer = NewWriter
  /\ ahead = 0 /\ sent[1].method = "POST" =>
       Len(responses) = 1 /\ responses[1].finished = 1 /\ RightAnswer(responses[1].answer, 1)

FirstInv ==
  disorder = {} =>
    /\ \A i \in 1 .. ahead - 1 : wire[i].req = wire[1].req
    /\ sent # << >> => Reading \/ HasRead

HttpInv == TypesInv /\ WireInv /\ UrlInv /\ BodyInv /\ FirstInv
=============================================================================
