----------------------------- MODULE Amf0Values -----------------------------
(***************************************************************************)
(* The life of one AMF0 container: it is built through the interface of    *)
(* RtmpAmf0Object, RtmpAmf0EcmaArray and RtmpAmf0StrictArray, written into *)
(* a message, and read back by a peer that got all of the message or only  *)
(* its beginning.                                                          *)
(***************************************************************************)
EXTENDS Amf0

CONSTANTS
    Keys,           \* property names
    Numbers,        \* numbers, each the eight bytes of a double
    Lengths,        \* lengths of the strings
    MaxOps          \* bound: calls that build the value

KeysAssumption == \A k \in Keys : k \in Seq(0..255)
NumbersAssumption == \A n \in Numbers : n \in [1..8 -> 0..255]
BoundsAssumption == Lengths \subseteq Nat /\ MaxOps \in Nat

VARIABLES
    obj,            \* the container being built
    ops,            \* calls made so far
    wire,           \* the bytes written, <<>> before
    cut,            \* how many of them the peer got
    got,            \* what the peer read
    table, stamp    \* history: the last value set for a key, and when

vars == <<obj, ops, wire, cut, got, table, stamp>>

-----------------------------------------------------------------------------
Empty == {Object(<<>>), EcmaArray(0, <<>>), StrictArray(0, <<>>)}

Leaves == {Scalar("Number", n) : n \in Numbers}
            \cup {String([i \in 1..n |-> 115]) : n \in Lengths}
            \cup {Scalar("Boolean", <<1>>), Null, Scalar("Date", [i \in 1..10 |-> i]),
                  StrictArray(1, <<Undefined>>), EcmaArray(0, <<>>)}

Init ==
    /\ obj \in Empty
    /\ ops = 0 /\ wire = <<>> /\ cut = 0 /\ got = Fail
    /\ table = [k \in Keys |-> NoValue] /\ stamp = [k \in Keys |-> 0]

Building == wire = <<>> /\ ops < MaxOps

Call == Building /\ ops' = ops + 1 /\ UNCHANGED <<wire, cut, got>>

\* set(key, value); with the value NULL the property is deleted.
Set ==
    /\ Call
    /\ obj.t # "StrictArray"
    /\ \E k \in Keys, v \in Leaves \cup {NoValue} :
         /\ obj' = [obj EXCEPT !.props = SetProperty(@, k, v)]
         /\ table' = [table EXCEPT ![k] = v]
         /\ stamp' = [stamp EXCEPT ![k] = ops']

\* remove(name) of an object; ecma-arrays have none.
RemoveName ==
    /\ Call
    /\ obj.t = "Object"
    /\ \E k \in Keys :
         /\ obj' = [obj EXCEPT !.props = RemoveProperty(@, k)]
         /\ table' = [table EXCEPT ![k] = NoValue]
    /\ UNCHANGED stamp

\* StrictArray::append, which keeps the count written to the message.
AppendElement ==
    /\ Call
    /\ obj.t = "StrictArray"
    /\ \E v \in Leaves : obj' = StrictArray(Len(obj.elems) + 1, Append(obj.elems, v))
    /\ UNCHANGED <<table, stamp>>

\* copy(), and the copy is used from then on.
CopyContainer == Call /\ obj' = Copy(obj) /\ UNCHANGED <<table, stamp>>

\* The container becomes a property of a new object.
Nest ==
    /\ Call
    /\ \E k \in Keys :
         /\ obj' = Object(SetProperty(<<>>, k, obj))
         /\ table' = [x \in Keys |-> IF x = k THEN obj ELSE NoValue]
         /\ stamp' = [stamp EXCEPT ![k] = ops']

WriteMessage ==
    /\ wire = <<>>
    /\ wire' = Write(obj)
    /\ UNCHANGED <<obj, ops, cut, got, table, stamp>>

\* rtmp_amf0_read_any on the first n bytes.
ReadMessage ==
    /\ wire # <<>> /\ cut = 0
    /\ \E n \in 1..Len(wire) : cut' = n /\ got' = ReadAny(SubSeq(wire, 1, n))
    /\ UNCHANGED <<obj, ops, wire, table, stamp>>

Next == Set \/ RemoveName \/ AppendElement \/ CopyContainer \/ Nest
          \/ WriteMessage \/ ReadMessage

Spec == Init /\ [][Next]_vars

-----------------------------------------------------------------------------
TypeOK ==
    /\ obj.t \in {"Object", "EcmaArray", "StrictArray"}
    /\ ops \in 0..MaxOps /\ cut \in 0..Len(wire)
    /\ wire \in Seq(0..255)
    /\ got.ret \in -1..Len(wire) /\ got.out \in {"null", "live", "deleted"}
    /\ got.twice \in Nat
    /\ stamp \in [Keys -> 0..MaxOps]

\* A property has the value last set for it, and the properties are in the
\* order in which they were last set ("to ensure in inserted order"), through
\* copies and nesting: UnSortedHashtable never keeps an older value behind.
LastSetWins ==
    obj.t # "StrictArray" =>
      /\ \A k \in Keys : GetProperty(obj.props, k) = table[k]
      /\ \A i, j \in DOMAIN obj.props :
           i < j => stamp[obj.props[i].key] < stamp[obj.props[j].key]

\* total_size is the number of bytes write produces, so the payload of a
\* packet is neither overrun nor left with bytes that were never written.
SizeIsWritten == wire # <<>> => Len(wire) = Size(obj)

\* A whole message is read to its last byte and gives the value written.
RoundTrip ==
    (cut > 0 /\ cut = Len(wire)) => got.ret = cut /\ got.val = obj

\* v is w with its last properties or elements left out.
RECURSIVE IsCut(_, _)
IsCut(v, w) ==
    \/ v = w
    \/ /\ v.t = w.t
       /\ \/ /\ v.t \in {"Object", "EcmaArray"}
             /\ Len(v.props) <= Len(w.props)
             /\ \A i \in DOMAIN v.props :
                  /\ v.props[i].key = w.props[i].key
                  /\ IF i < Len(v.props) THEN v.props[i] = w.props[i]
                     ELSE IsCut(v.props[i].value, w.props[i].value)
          \/ /\ v.t = "StrictArray"
             /\ Len(v.elems) <= Len(w.elems)
             /\ \A i \in DOMAIN v.elems : IsCut(v.elems[i], w.elems[i])

\* A message that ends early is refused, or gives the properties that had
\* arrived whole; the reader never claims bytes it was not given.
CutIsPrefix ==
    (cut > 0 /\ got.ret >= 0) => got.ret <= cut /\ IsCut(got.val, obj)

\* No value is deleted twice: on failure rtmp_amf0_read_any gives its caller
\* nothing to free ("NULL if error").
FreedOnce == got.twice = 0
=============================================================================
