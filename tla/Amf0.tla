-------------------------------- MODULE Amf0 --------------------------------
(***************************************************************************)
(* The AMF0 values of rtmp_stack_amf0.cc: the table of properties, the     *)
(* size, the writers and the readers.                                      *)
(*                                                                         *)
(* A value is a record with its type in t.  Numbers, booleans, dates, null *)
(* and undefined carry the bytes after their marker.  A buffer is a        *)
(* sequence of bytes, and its length is what the code passes as len.       *)
(* Every negative return is -1: no caller tells them apart.                *)
(***************************************************************************)
EXTENDS Integers, SequencesExt

Marker == [Number |-> 0, Boolean |-> 1, String |-> 2, Object |-> 3, Null |-> 5,
           Undefined |-> 6, EcmaArray |-> 8, ObjectEOF |-> 9, StrictArray |-> 10,
           Date |-> 11]

\* Bytes after the marker of the types of fixed size.
Width == [Number |-> 8, Boolean |-> 1, Null |-> 0, Undefined |-> 0, Date |-> 10]

Scalar(t, bytes) ==
    [t |-> t, bytes |-> IF t = "Boolean" /\ bytes # <<0>> THEN <<1>> ELSE bytes]
Null == Scalar("Null", <<>>)
Undefined == Scalar("Undefined", <<>>)
ObjectEOF == [t |-> "ObjectEOF"]
String(s) == [t |-> "String", str |-> s]
Object(props) == [t |-> "Object", props |-> props]
EcmaArray(count, props) == [t |-> "EcmaArray", count |-> count, props |-> props]
StrictArray(count, elems) == [t |-> "StrictArray", count |-> count, elems |-> elems]

NoValue == [t |-> "none"]

-----------------------------------------------------------------------------
(* UnSortedHashtable: a vector of keys and values in the order of set.     *)

RemoveProperty(props, key) == SelectSeq(props, LAMBDA p : p.key # key)

SetProperty(props, key, value) ==
    RemoveProperty(props, key)
      \o (IF value = NoValue THEN <<>> ELSE <<[key |-> key, value |-> value]>>)

GetProperty(props, key) ==
    LET at == SelectInSeq(props, LAMBDA p : p.key = key)
    IN  IF at = 0 THEN NoValue ELSE props[at].value

RECURSIVE Copy(_)
CopyProperties(props) ==
    FoldLeft(LAMBDA copied, p : SetProperty(copied, p.key, Copy(p.value)), <<>>, props)

Copy(v) ==
    CASE v.t = "Object"      -> Object(CopyProperties(v.props))
      [] v.t = "EcmaArray"   -> EcmaArray(v.count, CopyProperties(v.props))
      [] v.t = "StrictArray" ->
           StrictArray(v.count, [i \in DOMAIN v.elems |-> Copy(v.elems[i])])
      [] OTHER -> v

-----------------------------------------------------------------------------
(* total_size *)

RECURSIVE Size(_)

\* Marker, count and end of an ecma-array around properties of n bytes.
EcmaSize(n) == 1 + 4 + n + 3

Utf8Size(s) == 2 + Len(s)

PropertiesSize(props) ==
    FoldLeft(LAMBDA n, p : n + Utf8Size(p.key) + Size(p.value), 0, props)

Size(v) ==
    CASE v.t \in DOMAIN Width -> 1 + Width[v.t]
      [] v.t = "String"       -> 1 + Utf8Size(v.str)
      [] v.t = "ObjectEOF"    -> 3
      [] v.t = "Object"       -> 1 + PropertiesSize(v.props) + 3
      [] v.t = "EcmaArray"    -> EcmaSize(PropertiesSize(v.props))
      [] v.t = "StrictArray"  -> FoldLeft(LAMBDA n, e : n + Size(e), 5, v.elems)

-----------------------------------------------------------------------------
(* write *)

Signed(n, bits) == LET m == n % (2 ^ bits)
                   IN  IF m >= 2 ^ (bits - 1) THEN m - 2 ^ bits ELSE m

Int16(n) == <<(n \div 256) % 256, n % 256>>
Int32(n) == Int16(n \div 65536) \o Int16(n)

\* The length is cast to int16_t; a string whose length is not positive then
\* is written without its bytes.
WriteUtf8(s) ==
    LET n == Signed(Len(s), 16)
    IN  Int16(n) \o (IF n <= 0 THEN <<>> ELSE SubSeq(s, 1, n))

Eof == <<0, 0, Marker["ObjectEOF"]>>

RECURSIVE Write(_)
WriteProperties(props) ==
    FoldLeft(LAMBDA out, p : out \o WriteUtf8(p.key) \o Write(p.value), <<>>, props)

\* What write puts into a buffer with room for it.  Every writer checks the
\* room left and one failure fails the whole, so with less room the result is
\* an error (RtmpPackets!Encode).
Write(v) ==
    CASE v.t \in DOMAIN Width -> <<Marker[v.t]>> \o v.bytes
      [] v.t = "String"       -> <<Marker[v.t]>> \o WriteUtf8(v.str)
      [] v.t = "ObjectEOF"    -> Eof
      [] v.t = "Object"       -> <<Marker[v.t]>> \o WriteProperties(v.props) \o Eof
      [] v.t = "EcmaArray"    ->
           <<Marker[v.t]>> \o Int32(v.count) \o WriteProperties(v.props) \o Eof
      [] v.t = "StrictArray"  ->
           <<Marker[v.t]>> \o Int32(v.count)
             \o FoldLeft(LAMBDA out, e : out \o Write(e), <<>>, v.elems)

-----------------------------------------------------------------------------
(* read.  A result has ret, what the reader returns; val, the value read;  *)
(* out, what *ppvalue points to afterwards; and twice, the values deleted  *)
(* a second time.                                                          *)

Fail == [ret |-> -1, val |-> NoValue, out |-> "null", twice |-> 0]
Got(n, v) == [ret |-> n, val |-> v, out |-> "live", twice |-> 0]

\* A byte that is not in the buffer has the value 256.
Byte(d, i) == IF i \in DOMAIN d THEN d[i] ELSE 256
Bytes(d, i, n) == [j \in 1..n |-> Byte(d, i + j - 1)]
From(d, n) == SubSeq(d, n + 1, Len(d))

\* Mutant: a string may not end with the buffer.
StringFitsBefore(d, n) == Len(d) - 2 > n

HoldsString(d, n) == Len(d) - 2 >= n

\* An empty string leaves the variable it is read into as it was.
ReadUtf8(d, old) ==
    LET n == Signed(Byte(d, 1) * 256 + Byte(d, 2), 16)
    IN  IF Len(d) < 2 THEN Fail
        ELSE IF n <= 0 THEN Got(2, old)
        ELSE IF HoldsString(d, n) THEN Got(2 + n, Bytes(d, 3, n))
        ELSE Fail

ReadString(d, old) ==
    LET s == ReadUtf8(From(d, 1), old)
    IN  IF Byte(d, 1) # Marker["String"] \/ s.ret < 0 THEN Fail
        ELSE Got(1 + s.ret, s.val)

ReadScalar(t, d) ==
    IF Len(d) < 1 + Width[t] \/ Byte(d, 1) # Marker[t] THEN Fail
    ELSE Got(1 + Width[t], Scalar(t, Bytes(d, 2, Width[t])))

IsObjectEof(d) == Len(d) >= 3 /\ SubSeq(d, 1, 3) = Eof

\* The class discovery creates, or "error"; the end of an object is looked
\* for first, in the three bytes that may belong to a number.
Discovery(d) ==
    LET known == {t \in DOMAIN Marker \ {"ObjectEOF"} : Marker[t] = Byte(d, 1)}
    IN  IF IsObjectEof(d) THEN "ObjectEOF"
        ELSE IF known = {} THEN "error"
        ELSE CHOOSE t \in known : TRUE

RECURSIVE ReadAny(_)

\* The properties from offset at on.  The end of the buffer ends them too.
RECURSIVE ReadProperties(_, _, _)

AfterValue(d, at, props, key, value) ==
    IF value.ret < 0 THEN value
    ELSE ReadProperties(d, at + value.ret, SetProperty(props, key, value.val))

AfterName(d, at, props, name) ==
    IF name.ret < 0 THEN Fail
    ELSE AfterValue(d, at + name.ret, props, name.val, ReadAny(From(d, at + name.ret)))

ReadProperties(d, at, props) ==
    IF at >= Len(d) THEN Got(at, props)
    ELSE IF IsObjectEof(From(d, at)) THEN Got(at + 3, props)
    ELSE AfterName(d, at, props, ReadUtf8(From(d, at), <<>>))

Count(d) == (Signed(Byte(d, 2), 8) * 256 + Byte(d, 3)) * 65536
              + Byte(d, 4) * 256 + Byte(d, 5)

RECURSIVE ReadElements(_, _, _, _)

AfterElement(d, at, left, elems, e) ==
    IF e.ret < 0 THEN e
    ELSE ReadElements(d, at + e.ret, left - 1, Append(elems, e.val))

ReadElements(d, at, left, elems) ==
    IF left <= 0 \/ at >= Len(d) THEN Got(at, elems)
    ELSE AfterElement(d, at, left, elems, ReadAny(From(d, at)))

\* A value made of the contents r, if they could be read.
Made(r, v) == IF r.ret < 0 THEN [Fail EXCEPT !.twice = r.twice] ELSE Got(r.ret, v)

\* When a value fails the object deletes what *ppvalue still points to.
MadeObject(r) ==
    IF r.out = "deleted" THEN [Fail EXCEPT !.twice = r.twice + 1] ELSE Made(r, Object(r.val))

\* An object is read from nothing with return value 1.
ReadObject(d) ==
    IF Len(d) < 1 THEN Got(1, Object(<<>>))
    ELSE IF Byte(d, 1) # Marker["Object"] THEN Fail
    ELSE MadeObject(ReadProperties(d, 1, <<>>))

HasCount(d, t) == Len(d) >= 5 /\ Byte(d, 1) = Marker[t]

MadeArray(d, r) == Made(r, EcmaArray(Count(d), r.val))

ReadEcmaArray(d) ==
    IF HasCount(d, "EcmaArray") THEN MadeArray(d, ReadProperties(d, 5, <<>>)) ELSE Fail

MadeStrict(d, r) == Made(r, StrictArray(Count(d), r.val))

ReadStrictArray(d) ==
    IF HasCount(d, "StrictArray")
    THEN MadeStrict(d, ReadElements(d, 5, Count(d), <<>>)) ELSE Fail

MadeString(s) == Made(s, String(s.val))

ReadAs(t, d) ==
    CASE t \in DOMAIN Width  -> ReadScalar(t, d)
      [] t = "String"        -> MadeString(ReadString(d, <<>>))
      [] t = "ObjectEOF"     -> Got(3, ObjectEOF)
      [] t = "Object"        -> ReadObject(d)
      [] t = "EcmaArray"     -> ReadEcmaArray(d)
      [] t = "StrictArray"   -> ReadStrictArray(d)
      [] OTHER               -> Fail

\* A value that cannot be read is deleted, but the pointer to it is not set to
\* NULL.
Kept(t, r) == IF r.ret < 0 /\ t # "error" THEN [r EXCEPT !.out = "deleted"] ELSE r

\* rtmp_amf0_read_any
ReadAny(d) == Kept(Discovery(d), ReadAs(Discovery(d), d))
=============================================================================
