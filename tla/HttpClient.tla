----------------------------- MODULE HttpClient -----------------------------
(***************************************************************************)
(* HttpClient (net/NetCore.cc): one request, and its response, cut by TCP  *)
(* into segments.  on_body remembers where a piece of the body lies in the *)
(* receive buffer, which the next segment overwrites, and onMessage hands  *)
(* up what it remembers once the message has been complete.                *)
(*                                                                         *)
(* A behaviour ends when the user is handed bytes that are not what on_body*)
(* saw (stale).  disorder names what a response had besides one piece of   *)
(* body in one segment.                                                    *)
(***************************************************************************)
EXTENDS Naturals, Sequences

CONSTANTS
  MaxPieces     (* Pieces of a body: the cuts TCP or chunking may make.    *)

MaxPiecesAssumption == MaxPieces \in Nat \ {0}

(* How the server marks the end of the body, how many pieces it has, and   *)
(* whether a blank line follows it, as this library's own server writes.   *)
Responses == [framing : {"length", "chunked", "eof"}, pieces : 0 .. MaxPieces, blank : BOOLEAN]

VARIABLES
  status,       (* "new", "connecting", "requested", "refused", "closing", "deleted". *)
  response,     (* What the server answers.                                *)
  wire,         (* Its tokens on their way, or << >>.                      *)
  answered,     (* Whether the server has sent it.                         *)
  ahead,        (* Steps onMessage has ahead of it: the tokens left of its *)
                (* segment, and the callback.  0 between two segments.     *)
  parser,       (* What on_body and on_message_complete keep.              *)
  segments,     (* Segments read: which one is in the buffer.              *)
  delivered,    (* History: bodies handed up.                              *)
  stale,        (* The user was handed bytes of another segment.           *)
  disorder

vars == <<status, response, wire, answered, ahead, parser, segments, delivered, stale, disorder>>

Init ==
  /\ status = "new"
  /\ response \in Responses
  /\ wire = << >> /\ answered = FALSE /\ ahead = 0
  /\ parser = [body_start |-> 0, body |-> << >>, headerComplete |-> FALSE, open |-> FALSE]
  /\ segments = 0
  /\ delivered = << >>
  /\ stale = FALSE
  /\ disorder = {}

Body == [i \in 1 .. response.pieces |-> i]

(* A token: a piece of the body, by its number, or a mark.  A message ends *)
(* with its header if it has no body, with its last piece if it has a      *)
(* length, with the last chunk if it is chunked, else not before the end   *)
(* of the connection, which onMessage does not tell the parser.            *)
Header     == 0
LastChunk == MaxPieces + 1
Blank     == MaxPieces + 2

Tokens ==
  <<Header>> \o Body
    \o (IF response.framing = "chunked" THEN <<LastChunk>> ELSE << >>)
    \o (IF response.blank THEN <<Blank>> ELSE << >>)

Ends(t) ==
  \/ response.framing = "chunked" /\ t = LastChunk
  \/ response.framing = "length"  /\ t = response.pieces

-----------------------------------------------------------------------------
(* PostData and GetData: parseHttpUrl, buildConnect.                       *)
Request ==
  /\ status = "new"
  /\ status' = "connecting"
  /\ UNCHANGED <<response, wire, answered, ahead, parser, segments, delivered, stale, disorder>>

(* onConnect: the request is built and sent, or the user is told.          *)
OnConnect ==
  /\ status = "connecting"
  /\ status' \in {"requested", "refused"}
  /\ UNCHANGED <<response, wire, answered, ahead, parser, segments, delivered, stale, disorder>>

Answer ==
  /\ status = "requested"
  /\ ~answered
  /\ answered' = TRUE
  /\ wire' = Tokens
  /\ UNCHANGED <<status, response, ahead, parser, segments, delivered, stale, disorder>>

IsPiece(t) == t \in 1 .. MaxPieces

(* onMessage of a segment of n tokens, up to http_parser_execute.          *)
OnMessage(n) ==
  /\ status = "requested" /\ ~stale
  /\ ahead = 0
  /\ n <= Len(wire)
  /\ ahead' = n + 1
  /\ segments' = segments + 1
  /\ parser' = [parser EXCEPT !.open = FALSE]
  /\ disorder' = disorder
       \cup (IF parser.headerComplete THEN {"after_end"} ELSE {})
       \cup (IF parser.body # << >> /\ \E i \in 1 .. n : IsPiece(wire[i])
             THEN {"body_cut"} ELSE {})
       \cup (IF response.framing = "chunked"
                /\ \E i, j \in 1 .. n : i < j /\ IsPiece(wire[i]) /\ IsPiece(wire[j])
             THEN {"body_cut"} ELSE {})
  /\ UNCHANGED <<status, response, wire, answered, delivered, stale>>

(* Mutant: the first piece's place is kept.                                *)
OnBodyKeepsStart(p, piece) ==
  [p EXCEPT !.body_start = IF @ = 0 THEN segments ELSE @, !.body = Append(@, piece), !.open = TRUE]

(* on_body: one call for each chunk, or for what a segment holds of a body *)
(* that is not chunked.  Each call replaces what the one before it left.   *)
OnBody(p, piece) ==
  [p EXCEPT !.body_start = segments,
            !.body = IF p.open /\ response.framing # "chunked" THEN Append(@, piece) ELSE <<piece>>,
            !.open = TRUE]

OnToken(p, t) ==
  LET b == IF IsPiece(t) THEN OnBody(p, t) ELSE p
  IN  IF Ends(t) THEN [b EXCEPT !.headerComplete = TRUE] ELSE b

(* http_parser_execute calls back for the next token of the segment.       *)
Execute ==
  /\ ahead > 1
  /\ ahead' = ahead - 1
  /\ wire' = Tail(wire)
  /\ parser' = OnToken(parser, Head(wire))
  /\ UNCHANGED <<status, response, answered, segments, delivered, stale, disorder>>

(* The rest of onMessage hands up p_body_start_ and bodyLen if the message *)
(* has been complete and has a body.                                       *)
Deliver ==
  /\ ahead = 1
  /\ ahead' = 0
  /\ IF parser.headerComplete /\ parser.body # << >>
     THEN /\ delivered' = Append(delivered, parser.body)
          /\ stale' = (parser.body_start # segments)
     ELSE UNCHANGED <<delivered, stale>>
  /\ UNCHANGED <<status, response, wire, answered, parser, segments, disorder>>

(* onMessage at the end of the stream: close, and its callback.            *)
OnEof ==
  /\ status = "requested" /\ ~stale
  /\ wire = << >> /\ ahead = 0
  /\ status' = "closing"
  /\ UNCHANGED <<response, wire, answered, ahead, parser, segments, delivered, stale, disorder>>

OnClosed ==
  /\ status = "closing"
  /\ status' = "deleted"
  /\ UNCHANGED <<response, wire, answered, ahead, parser, segments, delivered, stale, disorder>>

Next ==
  \/ Request \/ OnConnect \/ Answer
  \/ \E n \in 1 .. Len(wire) : OnMessage(n)
  \/ Execute \/ Deliver
  \/ OnEof \/ OnClosed

(* TCP and the loop go on; nobody need connect, answer or close.           *)
Fairness ==
  /\ WF_vars((\E n \in 1 .. Len(wire) : OnMessage(n)) \/ Execute \/ Deliver)
  /\ WF_vars(OnClosed)

Spec == Init /\ [][Next]_vars /\ Fairness

-----------------------------------------------------------------------------
TypeOK ==
  /\ status \in {"new", "connecting", "requested", "refused", "closing", "deleted"}
  /\ response \in Responses
  /\ ahead \in 0 .. Len(wire) + 1
  /\ parser.body \in Seq(1 .. MaxPieces)
  /\ parser.body_start \in 0 .. segments
  /\ segments \in 0 .. MaxPieces + 3
  /\ disorder \subseteq {"after_end", "body_cut"}

(* The user is handed the whole body, once, unless more than one segment   *)
(* or chunk holds some of it, or a segment follows it (on_body, onMessage).*)
WholeBodyOnce == disorder = {} => delivered \in {<< >>, <<Body>>}

(* What is handed up, stale or not, is never more than a part of the body, *)
(* and in its order.                                                       *)
PartOfBody ==
  \A i \in DOMAIN delivered :
    \E j, k \in 0 .. response.pieces : delivered[i] = SubSeq(Body, j + 1, k)

(* Bytes of another segment are handed up only if the response has         *)
(* something after its body, which comes in a segment of its own: a server *)
(* that sends a length and no more never causes it.                        *)
StaleNeedsTail == stale => response.framing = "chunked" \/ response.blank

(* Nothing is handed up before the end of the message, and nothing at all  *)
(* if only the end of the connection ends it (on_message_complete).        *)
NothingEarly ==
  delivered # << >> => response.framing # "eof" /\ \A i \in DOMAIN wire : ~Ends(wire[i])

(* A body that has an end of its own is handed up some time.               *)
BodyDelivered ==
  answered /\ response.pieces > 0 /\ response.framing # "eof" ~> delivered # << >>

-----------------------------------------------------------------------------
(* What the safety properties rest on, inductive.                          *)

TypesInv ==
  /\ status \in {"new", "connecting", "requested", "refused", "closing", "deleted"}
  /\ response \in Responses
  /\ wire \in Seq(0 .. MaxPieces + 2) /\ ahead \in 0 .. Len(wire) + 1
  /\ parser \in [body_start : Nat, body : Seq(1 .. MaxPieces),
                 headerComplete : BOOLEAN, open : BOOLEAN]
  /\ parser.body_start <= segments /\ segments \in Nat
  /\ delivered \in Seq(Seq(1 .. MaxPieces))
  /\ disorder \subseteq {"after_end", "body_cut"}

(* The pieces among the first r tokens, and whether those end the message. *)
PiecesIn(r) == IF r = 0 THEN 0 ELSE IF r <= response.pieces THEN r - 1 ELSE response.pieces
EndsIn(r) ==
  \/ response.framing = "chunked" /\ r > response.pieces + 1
  \/ response.framing = "length"  /\ r > response.pieces

TokensRead == IF answered THEN Len(Tokens) - Len(wire) ELSE 0
PiecesRead == PiecesIn(TokensRead)
TokensLeft == IF ahead = 0 THEN 0 ELSE ahead - 1

(* The wire has the rest of the response, and no segment was empty.        *)
StreamInv ==
  /\ ~answered => wire = << >>
  /\ TokensRead \in 0 .. Len(Tokens)
  /\ \A i \in 1 .. Len(wire) : wire[i] = Tokens[TokensRead + i]
  /\ segments <= TokensRead + TokensLeft

(* The parser has the last pieces read, and knows of the end once it was   *)
(* read.                                                                   *)
ParserInv ==
  /\ Len(parser.body) <= PiecesRead
  /\ \A i \in 1 .. Len(parser.body) : parser.body[i] = PiecesRead - Len(parser.body) + i
  /\ PiecesRead > 0 => parser.body # << >>
  /\ parser.headerComplete <=> EndsIn(TokensRead)
  /\ response.framing # "chunked" /\ ~response.blank /\ wire = << >> /\ PiecesRead > 0 =>
       parser.body_start = segments

DeliveredInv ==
  /\ delivered # << >> => parser.headerComplete
  /\ PartOfBody
  /\ StaleNeedsTail

(* Without disorder the parser keeps all it was given, for a piece that    *)
(* comes later is not in this segment, and it hands it up once.            *)
WholeInv ==
  disorder = {} =>
    /\ Len(parser.body) = PiecesRead
    /\ parser.body # << >> /\ (response.framing = "chunked" \/ ~parser.open) =>
         \A i \in 1 .. TokensLeft : ~IsPiece(wire[i])
    /\ response.framing = "chunked" =>
         \A i, j \in 1 .. TokensLeft : i < j => ~(IsPiece(wire[i]) /\ IsPiece(wire[j]))
    /\ delivered # << >> => ahead = 0 /\ delivered = <<Body>>

ClientInv == TypesInv /\ StreamInv /\ ParserInv /\ DeliveredInv /\ WholeInv
=============================================================================
