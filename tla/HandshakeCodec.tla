--------------------------- MODULE HandshakeCodec ---------------------------
(***************************************************************************)
(* The bytes of the RTMP handshake (rtmp_stack_handshake.cc): C0 C1 with   *)
(* its key and digest blocks, S0 S1 S2 of a server as process_s0s1s2 takes *)
(* it apart, and C2.  The sizes are constants, 764, 128 and 32 in the      *)
(* code, so that every position of key and digest can be checked.          *)
(*                                                                         *)
(* Bytes are numbers; those of the offset fields are bytes proper, the     *)
(* others name what they belong to and their place in it.                  *)
(***************************************************************************)
EXTENDS Naturals, Sequences, FiniteSetsExt

CONSTANTS
  Block,        (* Size of a block.                                        *)
  KeySize,      (* Size of a key.                                          *)
  DigestSize,   (* Size of a digest.                                       *)
  Offsets       (* Offset fields, of four bytes each.                      *)

SizesAssumption ==
  /\ Block \in Nat /\ KeySize \in Nat \ {0} /\ DigestSize \in Nat \ {0}
  /\ Block > KeySize + 4 /\ Block > DigestSize + 4
OffsetsAssumption == Offsets \subseteq [1 .. 4 -> 0 .. 255]

VARIABLES
  step,         (* "new", "sent", "answered", "processed", "done".         *)
  schema,       (* The schema of C1.                                       *)
  key, digest,  (* rtmp_handshake_key and rtmp_handshake_digest.           *)
  c0c1,         (* What general_c0c1 wrote.                                *)
  joined,       (* What calc_c1_digest was given.                          *)
  s0s1s2,       (* What the server sent.                                   *)
  served,       (* History: key and digest of S1.                          *)
  verdict,      (* What process_s0s1s2 returned: "none", "ok", "version".  *)
  c2

vars == <<step, schema, key, digest, c0c1, joined, s0s1s2, served, verdict, c2>>

Owners == [client |-> 1000, server |-> 2000, s2 |-> 3000]

(* n bytes of one part of one owner's message.                             *)
Bytes(owner, part, n) == [i \in 1 .. n |-> Owners[owner] + part + i]

Time == 100  Version == 110  Random0 == 300  Random1 == 400  KeyPart == 500  DigestPart == 600

-----------------------------------------------------------------------------
(* calc_offset: the sum of the four bytes, within what the block leaves.   *)
Sum4(offset) == offset[1] + offset[2] + offset[3] + offset[4]

(* Mutant: the offset may leave no room for its own four bytes.            *)
KeyOffsetUnbounded(offset) == Sum4(offset) % (Block - KeySize)

KeyOffset(offset)    == Sum4(offset) % (Block - KeySize - 4)
DigestOffset(offset) == Sum4(offset) % (Block - DigestSize - 4)

(* The constructors.                                                       *)
NewKey(owner, offset) ==
  [offset  |-> offset,
   random0 |-> Bytes(owner, Random0, KeyOffset(offset)),
   key     |-> Bytes(owner, KeyPart, KeySize),
   random1 |-> Bytes(owner, Random1, Block - KeyOffset(offset) - KeySize - 4)]

NewDigest(owner, offset) ==
  [offset  |-> offset,
   random0 |-> Bytes(owner, Random0 + 50, DigestOffset(offset)),
   digest  |-> Bytes(owner, DigestPart, DigestSize),
   random1 |-> Bytes(owner, Random1 + 50, Block - 4 - DigestOffset(offset) - DigestSize)]

(* openssl_HMACsha256: the digest of the bytes it is given, which are kept *)
(* in joined.                                                              *)
Hmac == Bytes("client", DigestPart + 50, DigestSize)

(* build_key and build_digest.  The last copy of build_digest asks for the *)
(* key's random1_size.                                                     *)
BuildKey(k) == k.random0 \o k.key \o k.random1 \o k.offset

BuildDigest(k, d, withDigest) ==
  d.offset \o d.random0
    \o (IF withDigest THEN d.digest ELSE << >>)
    \o (IF Len(k.random1) > 0 THEN d.random1 ELSE << >>)

BuildTimeVersion(owner) == Bytes(owner, Time, 4) \o Bytes(owner, Version, 4)

(* C1 or S1, with or without the digest.                                   *)
C1S1(owner, type, k, d, withDigest) ==
  BuildTimeVersion(owner)
    \o (IF type = 0 THEN BuildKey(k) \o BuildDigest(k, d, withDigest)
                    ELSE BuildDigest(k, d, withDigest) \o BuildKey(k))

(* size bytes from offset at, counted from 0.                              *)
Slice(data, at, size) == SubSeq(data, at + 1, at + size)

(* parse_key.                                                              *)
ParseKey(data) ==
  LET offset == Slice(data, Block - 4, 4)
      n      == KeyOffset(offset)
  IN  [offset  |-> offset,
       random0 |-> Slice(data, 0, n),
       key     |-> Slice(data, n, KeySize),
       random1 |-> Slice(data, n + KeySize, Block - n - KeySize - 4)]

(* parse_digest.                                                           *)
ParseDigest(data) ==
  LET offset == Slice(data, 0, 4)
      n      == DigestOffset(offset)
  IN  [offset  |-> offset,
       random0 |-> Slice(data, 4, n),
       digest  |-> Slice(data, 4 + n, DigestSize),
       random1 |-> Slice(data, 4 + n + DigestSize, Block - 4 - n - DigestSize)]

-----------------------------------------------------------------------------
Init ==
  /\ step = "new"
  /\ schema \in {0, 1}
  /\ \E k, d \in Offsets : key = NewKey("client", k) /\ digest = NewDigest("client", d)
  /\ c0c1 = << >> /\ joined = << >>
  /\ s0s1s2 = << >> /\ served = << >>
  /\ verdict = "none"
  /\ c2 = << >>

(* Mutant: C1 is written before its digest is computed.                    *)
WriteThenDigest ==
  /\ step = "new"
  /\ step' = "sent"
  /\ joined' = C1S1("client", schema, key, digest, FALSE)
  /\ digest' = [digest EXCEPT !.digest = Hmac]
  /\ c0c1' = <<3>> \o C1S1("client", schema, key, digest, TRUE)
  /\ UNCHANGED <<schema, key, s0s1s2, served, verdict, c2>>

(* create_c0c1: the digest of what build_key and build_digest wrote        *)
(* without it takes the place of the constructor's (calc_c1_digest), and   *)
(* general_c0c1 writes all of it.                                          *)
CreateC0C1 ==
  /\ step = "new"
  /\ step' = "sent"
  /\ joined' = C1S1("client", schema, key, digest, FALSE)
  /\ digest' = [digest EXCEPT !.digest = Hmac]
  /\ c0c1' = <<3>> \o C1S1("client", schema, key, digest', TRUE)
  /\ UNCHANGED <<schema, key, s0s1s2, served, verdict, c2>>

(* A server answers in the schema of C1; a server of another version says  *)
(* so.                                                                     *)
ServerAnswers(version, k, d) ==
  /\ step = "sent"
  /\ step' = "answered"
  /\ s0s1s2' = <<version>> \o C1S1("server", schema, NewKey("server", k), NewDigest("server", d), TRUE)
                  \o Bytes("s2", 0, Len(c0c1) - 1)
  /\ served' = <<NewKey("server", k).key, NewDigest("server", d).digest>>
  /\ UNCHANGED <<schema, key, digest, c0c1, joined, verdict, c2>>

(* process_s0s1s2 of 3073 bytes.  Whatever the schema, the digest is       *)
(* looked for first; parse_digest's return is added to the offset and the  *)
(* size of its block once more.                                            *)
ProcessS0S1S2 ==
  /\ step = "answered"
  /\ step' = "processed"
  /\ IF s0s1s2[1] # 3
     THEN verdict' = "version" /\ UNCHANGED <<key, digest>>
     ELSE /\ verdict' = "ok"
          /\ digest' = ParseDigest(Slice(s0s1s2, 9, Block))
          /\ key' = ParseKey(Slice(s0s1s2, 9 + Block + Block, Block))
  /\ UNCHANGED <<schema, c0c1, joined, s0s1s2, served, c2>>

(* create_c2, which the client calls whatever process_s0s1s2 returned.     *)
CreateC2 ==
  /\ step = "processed"
  /\ step' = "done"
  /\ c2' = Slice(s0s1s2, 1, Len(c0c1) - 1)
  /\ UNCHANGED <<schema, key, digest, c0c1, joined, s0s1s2, served, verdict>>

Next ==
  \/ CreateC0C1
  \/ \E version \in {3, 6}, k, d \in Offsets : ServerAnswers(version, k, d)
  \/ ProcessS0S1S2 \/ CreateC2

Spec == Init /\ [][Next]_vars

-----------------------------------------------------------------------------
TypeOK ==
  /\ step \in {"new", "sent", "answered", "processed", "done"}
  /\ schema \in {0, 1}
  /\ Len(key.key) = KeySize /\ Len(key.random0) + Len(key.random1) = Block - KeySize - 4
  /\ Len(digest.digest) = DigestSize
  /\ Len(digest.random0) + Len(digest.random1) = Block - DigestSize - 4

C1 == SubSeq(c0c1, 2, Len(c0c1))

(* The digest block of C1.                                                 *)
DigestBlock == Slice(C1, IF schema = 0 THEN 8 + Block ELSE 8, Block)
KeyBlock    == Slice(C1, IF schema = 0 THEN 8 ELSE 8 + Block, Block)

(* Whatever the offsets, C0 C1 is the 1537 bytes that are sent and what is *)
(* hashed is the 1504 bytes that are allocated, nothing more or less       *)
(* (create_c0c1, general_c0c1).                                            *)
MessagesFill ==
  step # "new" =>
    /\ Len(c0c1) = 1 + 8 + 2 * Block
    /\ Len(joined) = 8 + 2 * Block - DigestSize

(* A server that follows the schema finds in C1 the digest and the key the *)
(* client put there, and the digest is of C1 without its own bytes         *)
(* (calc_c1_digest, build_digest, parse_digest).                           *)
ServerFindsDigest ==
  step = "sent" =>
    LET found == ParseDigest(DigestBlock)
        at    == (IF schema = 0 THEN 8 + Block ELSE 8) + 4 + Len(found.random0)
    IN  /\ found.digest = Hmac
        /\ found = digest
        /\ ParseKey(KeyBlock) = key
        /\ joined = SubSeq(C1, 1, at) \o SubSeq(C1, at + DigestSize + 1, Len(C1))

(* The digest of a server that follows schema 1, the one the client uses,  *)
(* is found; nothing is taken from a server of another version; and C2 is  *)
(* S1 all the same (process_s0s1s2, create_c2).                            *)
C2IsS1 ==
  /\ verdict = "ok" /\ schema = 1 => digest.digest = served[2]
  /\ verdict = "version" => key.key # served[1] /\ digest.digest # served[2]
  /\ step = "done" => c2 = SubSeq(s0s1s2, 2, Len(c0c1))

(* "C1, S1 key: 764bytes" (rtmp_stack_handshake.h) and "time + version +   *)
(* digest + key": the key process_s0s1s2 takes is that of S1.              *)
KeyIsServers == verdict = "ok" /\ schema = 1 => key.key = served[1]

-----------------------------------------------------------------------------
(* The inductive invariant of MessagesFill, ServerFindsDigest and C2IsS1,  *)
(* in parts.                                                               *)

(* The client's key and digest are its own until an answer is taken apart. *)
Own(k)           == k.offset \in Offsets /\ k = NewKey("client", k.offset)
OwnDigest(d, dg) == d.offset \in Offsets
                      /\ d = [NewDigest("client", d.offset) EXCEPT !.digest = dg]

OwnInv ==
  /\ step \in {"new", "sent", "answered"} \/ verdict = "version" => Own(key)
  /\ step = "new" => OwnDigest(digest, Bytes("client", DigestPart, DigestSize))
  /\ step \in {"sent", "answered"} \/ verdict = "version" => OwnDigest(digest, Hmac)

(* What the client has written.                                            *)
WrittenInv ==
  /\ step = "sent" =>
       /\ joined = C1S1("client", schema, key, digest, FALSE)
       /\ c0c1 = <<3>> \o C1S1("client", schema, key, digest, TRUE)
  /\ step # "new" =>
       /\ Len(joined) = 8 + 2 * Block - DigestSize
       /\ Len(c0c1) = 9 + 2 * Block

(* What a server has answered, and what was made of it.                    *)
AnsweredInv ==
  /\ step = "answered" =>
       \E v \in {3, 6}, k, d \in Offsets :
         s0s1s2 = <<v>> \o C1S1("server", schema, NewKey("server", k), NewDigest("server", d), TRUE)
                    \o Bytes("s2", 0, 8 + 2 * Block)
  /\ step \in {"answered", "processed", "done"} =>
       served = <<Bytes("server", KeyPart, KeySize), Bytes("server", DigestPart, DigestSize)>>
  /\ step \in {"new", "sent", "answered"} => verdict = "none"
  /\ verdict = "ok" /\ schema = 1 => digest.digest = served[2]
  /\ step = "done" => c2 = Slice(s0s1s2, 1, 8 + 2 * Block)

HandshakeInv ==
  /\ step \in {"new", "sent", "answered", "processed", "done"} /\ schema \in {0, 1}
  /\ OwnInv /\ WrittenInv /\ AnsweredInv
=============================================================================
