----------------------------- MODULE Tls_proofs -----------------------------
(***************************************************************************)
(* Proofs about TlsTransport, as MCTransports has it, for any payload and  *)
(* any number of messages and writes: what the two ends hand up is what    *)
(* they sent, and what keeps one waiting, or makes it fail, is named.      *)
(***************************************************************************)
EXTENDS MCTransports, TLAPS

-----------------------------------------------------------------------------
\* The bounds as numbers.
LEMMA TlsBounds ==
    Payload \in Nat /\ 1 <= Payload /\ MaxRecord \in Nat /\ 1 <= MaxRecord /\ MaxQueued \in Nat
BY SecurityAssumption DEF Tls!BoundsAssumption

\* There are two ends.
LEMMA TwoEnds ==
    ASSUME NEW e \in Tls!Ends
    PROVE  /\ Tls!Peer(e) \in Tls!Ends /\ Tls!Peer(e) # e /\ Tls!Peer(Tls!Peer(e)) = e
           /\ \A x \in Tls!Ends : x = e \/ x = Tls!Peer(e)
           /\ e = "server" => Tls!Peer(e) # "server"
           /\ e = "client" <=> Tls!Peer(e) = "server"
           /\ e = "server" <=> Tls!Peer(e) = "client"
BY DEF Tls!Ends, Tls!Peer

\* Sequences of the same elements.
LEMMA SameUnits ==
    ASSUME NEW S, NEW s \in Seq(S), NEW t \in Seq(S), Len(s) = Len(t),
           \A i \in 1..Len(s) : s[i] = t[i]
    PROVE  s = t
OBVIOUS

\* A sequence by its elements.
LEMMA SequenceOf ==
    ASSUME NEW S, NEW n \in Nat, NEW f, f = [i \in 1..n |-> f[i]],
           \A i \in 1..n : f[i] \in S
    PROVE  f \in Seq(S) /\ Len(f) = n
OBVIOUS

\* A product of a larger number.
LEMMA Products ==
    ASSUME NEW a \in Nat, NEW b \in Nat, NEW p \in Nat
    PROVE  /\ a * p \in Nat /\ (a + 1) * p = a * p + p
           /\ a < b => a * p + p <= b * p
<1>1. a * p \in Nat /\ (a + 1) * p = a * p + p
  OBVIOUS
<1>2. ASSUME a < b PROVE a * p + p <= b * p
  <2>1. PICK d \in Nat : b = a + 1 + d
    <3>1. b - a - 1 \in Nat /\ b = a + 1 + (b - a - 1)
      BY <1>2
    <3> QED  BY <3>1
  <2>2. b * p = (a + 1) * p + d * p /\ d * p \in Nat
    BY <2>1
  <2> QED  BY <1>1, <2>2
<1> QED  BY <1>1, <1>2

\* A number by its quotient and rest.
LEMMA Quotients ==
    ASSUME NEW c \in Nat, NEW p \in Nat, 1 <= p, NEW r \in Nat, r < p
    PROVE  (c * p + r) \div p = c /\ (c * p + r) % p = r
<1> DEFINE a == c * p + r
           d == a \div p
           m == a % p
<1>1. c * p \in Nat /\ a \in Nat
  BY Products
<1>2. d \in Nat /\ m \in 0..p - 1 /\ a = d * p + m /\ d * p \in Nat
  <2> HIDE DEF a
  <2>1. d \in Nat /\ m \in 0..p - 1 /\ a = p * d + m
    BY <1>1
  <2> HIDE DEF d, m
  <2>2. p * d = d * p /\ d * p \in Nat
    BY <2>1
  <2> QED  BY <2>1, <2>2
<1>3. a = c * p + r
  OBVIOUS
<1> HIDE DEF a, d, m
<1>4. ~(d < c)
  <2> SUFFICES ASSUME d < c PROVE FALSE
    OBVIOUS
  <2>1. d * p + p <= c * p
    BY <1>2, Products
  <2> QED  BY <1>1, <1>2, <1>3, <2>1
<1>5. ~(c < d)
  <2> SUFFICES ASSUME c < d PROVE FALSE
    OBVIOUS
  <2>1. c * p + p <= d * p
    BY <1>2, Products
  <2> QED  BY <1>1, <1>2, <1>3, <2>1
<1>6. d = c
  BY <1>2, <1>4, <1>5
<1>7. m = r
  BY <1>1, <1>2, <1>3, <1>6
<1> QED  BY <1>6, <1>7 DEF a, d, m
\* And every number has them.
LEMMA Divided ==
    ASSUME NEW c \in Nat, NEW p \in Nat, 1 <= p
    PROVE  \E m \in Nat : \E r \in 0..p - 1 : c = m * p + r /\ m = c \div p /\ r = c % p
<1> DEFINE d == c \div p
           m == c % p
<1>1. d \in Nat /\ m \in 0..p - 1 /\ c = p * d + m
  OBVIOUS
<1> HIDE DEF d, m
<1>2. p * d = d * p
  BY <1>1
<1>3. c = d * p + m
  BY <1>1, <1>2
<1>4. d = c \div p /\ m = c % p
  BY DEF d, m
<1> QED  BY <1>1, <1>3, <1>4

LEMMA Rests ==
    ASSUME NEW c \in Nat, NEW p \in Nat, 1 <= p
    PROVE  \E m, r \in Nat : c = m * p + r /\ r < p
<1>1. PICK m \in Nat : \E r \in 0..p - 1 : c = m * p + r /\ m = c \div p /\ r = c % p
  BY Divided
<1>2. PICK r \in 0..p - 1 : c = m * p + r
  BY <1>1
<1>3. r \in Nat /\ r < p
  OBVIOUS
<1> QED  BY <1>2, <1>3

\* What SSL_write takes of a message fills its records, but for the last's rest.
LEMMA RecordsOf ==
    ASSUME NEW p \in Tls!Ends
    PROVE  /\ Tls!Took(p) \in Nat /\ 1 <= Tls!Took(p) /\ Tls!Took(p) <= Payload
           /\ Tls!Records(p) \in Nat /\ 1 <= Tls!Records(p)
           /\ (Tls!Records(p) - 1) * MaxRecord \in Nat
           /\ (Tls!Records(p) - 1) * MaxRecord < Tls!Took(p)
           /\ Tls!Took(p) <= (Tls!Records(p) - 1) * MaxRecord + MaxRecord
           /\ Tls!Took(p) = Payload \/ Tls!Records(p) = 1
<1> DEFINE T == Tls!Took(p)
           K == Tls!Records(p)
<1>1. T \in Nat /\ 1 <= T /\ T <= Payload
  BY TlsBounds DEF Tls!Took, Tls!Least
<1>2. K = ((T - 1) \div MaxRecord) + 1
  BY DEF Tls!Records
<1>3. T = Payload \/ T <= MaxRecord
  BY TlsBounds DEF Tls!Took, Tls!Least, Tls!Ends
<1> HIDE DEF T, K
<1>4. PICK m \in Nat : \E r \in 0..MaxRecord - 1 :
        T - 1 = m * MaxRecord + r /\ m = (T - 1) \div MaxRecord
  <2>1. T - 1 \in Nat
    BY <1>1
  <2> QED  BY <2>1, TlsBounds, Divided
<1>5. K = m + 1 /\ K - 1 = m
  BY <1>2, <1>4
<1>6. m * MaxRecord \in Nat
  BY TlsBounds, Products
<1>7. PICK x \in Nat : x = m * MaxRecord
  BY <1>6
<1>8. x < T /\ T <= x + MaxRecord
  BY <1>1, <1>4, <1>7, TlsBounds
<1>9. T <= MaxRecord => m = 0
  <2> SUFFICES ASSUME T <= MaxRecord, 0 < m PROVE FALSE
    OBVIOUS
  <2>1. 0 * MaxRecord + MaxRecord <= m * MaxRecord
    BY TlsBounds, Products
  <2>2. 0 * MaxRecord = 0
    BY TlsBounds
  <2> QED  BY <1>1, <1>7, <1>8, <2>1, <2>2, TlsBounds
<1>10. (K - 1) * MaxRecord = x
  BY <1>5, <1>7
<1> QED  BY <1>1, <1>3, <1>5, <1>7, <1>8, <1>9, <1>10 DEF T, K

\* The bytes before a record, by its message and its place in it.
LEMMA FromIs ==
    ASSUME NEW p \in Tls!Ends, NEW m \in Nat, NEW r \in Nat, r < Tls!Records(p)
    PROVE  /\ Tls!From(p, m * Tls!Records(p) + r) = m * Tls!Took(p) + r * MaxRecord
           /\ Tls!Given(p, m * Tls!Records(p) + r) = m * Payload + r * MaxRecord
           /\ m * Tls!Took(p) \in Nat /\ r * MaxRecord \in Nat /\ m * Payload \in Nat
           /\ m * Tls!Records(p) \in Nat
<1>1. PICK K \in Nat : K = Tls!Records(p) /\ 1 <= K
  BY RecordsOf
<1>2. PICK c : c = m * K + r
  OBVIOUS
<1>3. c \div K = m /\ c % K = r
  BY <1>1, <1>2, Quotients
<1>4. PICK T \in Nat : T = Tls!Took(p)
  BY RecordsOf
<1>5. m * T \in Nat /\ r * MaxRecord \in Nat /\ m * Payload \in Nat /\ m * K \in Nat
  BY <1>1, <1>4, TlsBounds, Products
<1>6. /\ Tls!From(p, c) = (c \div K) * T + (c % K) * MaxRecord
      /\ Tls!Given(p, c) = (c \div K) * Payload + (c % K) * MaxRecord
  BY <1>1, <1>4 DEF Tls!From, Tls!Given
<1>7. /\ Tls!From(p, c) = m * T + r * MaxRecord
      /\ Tls!Given(p, c) = m * Payload + r * MaxRecord
  BY <1>3, <1>6
<1> QED  BY <1>1, <1>2, <1>4, <1>5, <1>7

\* Each record carries something, and no more than it may; the last of a message
\* what is left of it.
LEMMA FromFollows ==
    ASSUME NEW p \in Tls!Ends, NEW c \in Nat
    PROVE  /\ Tls!From(p, c) \in Nat /\ Tls!From(p, c + 1) \in Nat
           /\ Tls!From(p, c) < Tls!From(p, c + 1)
           /\ Tls!From(p, c + 1) <= Tls!From(p, c) + MaxRecord
           /\ Tls!From(p, c + 1) <= Tls!From(p, c) + Payload
           /\ Tls!Given(p, c) \in Nat
<1>1. PICK K \in Nat : K = Tls!Records(p) /\ 1 <= K
  BY RecordsOf
<1>2. PICK m, r \in Nat : c = m * K + r /\ r < K
  BY <1>1, Rests
<1>3. PICK T \in Nat : /\ T = Tls!Took(p) /\ 1 <= T /\ T <= Payload
                       /\ (K - 1) * MaxRecord \in Nat /\ (K - 1) * MaxRecord < T
                       /\ T <= (K - 1) * MaxRecord + MaxRecord
  BY <1>1, RecordsOf
<1>4. r \in Nat /\ r < K
  BY <1>2
<1>5. PICK f \in Nat : f = m * T
  BY <1>3, Products
<1>6. PICK g \in Nat : g = r * MaxRecord
  BY <1>4, TlsBounds, Products
<1>7. Tls!From(p, c) = f + g /\ Tls!Given(p, c) \in Nat
  <2>1. Tls!From(p, m * K + r) = f + g
    BY <1>1, <1>3, <1>4, <1>5, <1>6, FromIs
  <2>2. r < Tls!Records(p)
    BY <1>1, <1>4
  <2>3. Tls!Given(p, m * Tls!Records(p) + r) = m * Payload + r * MaxRecord
    BY <2>2, FromIs
  <2>4. r * MaxRecord \in Nat /\ m * Payload \in Nat
    BY TlsBounds, Products
  <2>5. m * Payload + r * MaxRecord \in Nat
    BY <2>4
  <2>6. Tls!Given(p, c) \in Nat
    BY <1>1, <1>2, <2>3, <2>5
  <2> QED  BY <1>2, <2>1, <2>6
<1>8. CASE r < K - 1
  <2>1. c + 1 = m * K + (r + 1) /\ r + 1 \in Nat /\ r + 1 < K
    <3>1. m * K \in Nat
      BY <1>1, Products
    <3> QED  BY <1>1, <1>2, <1>4, <1>8, <3>1
  <2>2. Tls!From(p, m * K + (r + 1)) = m * T + (r + 1) * MaxRecord
    BY <1>1, <1>3, <2>1, FromIs
  <2>3. (r + 1) * MaxRecord = g + MaxRecord
    BY <1>4, <1>6, TlsBounds, Products
  <2>4. Tls!From(p, c + 1) = f + (g + MaxRecord)
    BY <1>5, <2>1, <2>2, <2>3
  <2>5. g + MaxRecord <= (K - 1) * MaxRecord
    <3>1. K - 1 \in Nat
      BY <1>1
    <3> QED  BY <1>4, <1>6, <1>8, <3>1, TlsBounds, Products
  <2>6. PICK x \in Nat : x = (K - 1) * MaxRecord
    BY <1>3
  <2>7. MaxRecord <= Payload
    BY <1>3, <2>5, <2>6, TlsBounds
  <2> QED  BY <1>7, <2>4, <2>7, TlsBounds
<1>9. CASE r = K - 1
  <2>1. c + 1 = (m + 1) * K + 0
    <3>1. (m + 1) * K = m * K + K /\ m * K \in Nat
      BY <1>1, Products
    <3> QED  BY <1>1, <1>2, <1>9, <3>1
  <2>2. Tls!From(p, (m + 1) * K + 0) = (m + 1) * T + 0 * MaxRecord
    <3>1. m + 1 \in Nat /\ 0 \in Nat /\ 0 < K
      BY <1>1
    <3> QED  BY <1>1, <1>3, <3>1, FromIs
  <2>3. (m + 1) * T = f + T /\ 0 * MaxRecord = 0
    BY <1>3, <1>5, TlsBounds, Products
  <2>4. Tls!From(p, c + 1) = f + T
    BY <1>3, <2>1, <2>2, <2>3
  <2>5. g < T /\ T <= g + MaxRecord
    BY <1>3, <1>6, <1>9
  <2> QED  BY <1>3, <1>7, <2>4, <2>5, TlsBounds
<1> QED  BY <1>4, <1>1, <1>8, <1>9

\* And in order.
LEMMA FromInOrder ==
    ASSUME NEW p \in Tls!Ends, NEW c \in Nat, NEW d \in Nat, c < d
    PROVE  Tls!From(p, c + 1) <= Tls!From(p, d)
<1>1. PICK K \in Nat : K = Tls!Records(p) /\ 1 <= K
  BY RecordsOf
<1>2. PICK m, r \in Nat : c + 1 = m * K + r /\ r < K
  <2>1. c + 1 \in Nat
    OBVIOUS
  <2> QED  BY <1>1, <2>1, Rests
<1>3. PICK n, s \in Nat : d = n * K + s /\ s < K
  BY <1>1, Rests
<1>4. PICK T \in Nat : /\ T = Tls!Took(p) /\ 1 <= T
                       /\ (K - 1) * MaxRecord \in Nat /\ (K - 1) * MaxRecord < T
  BY <1>1, RecordsOf
<1>5. r \in Nat /\ r < K /\ s \in Nat /\ s < K
  BY <1>2, <1>3
<1>6. PICK x \in Nat : x = m * T
  BY <1>4, Products
<1>7. PICK y \in Nat : y = n * T
  BY <1>4, Products
<1>8. PICK g \in Nat : g = r * MaxRecord
  BY <1>5, TlsBounds, Products
<1>9. PICK h \in Nat : h = s * MaxRecord
  BY <1>5, TlsBounds, Products
<1>10. Tls!From(p, c + 1) = x + g
  BY <1>1, <1>2, <1>4, <1>5, <1>6, <1>8, FromIs
<1>11. Tls!From(p, d) = y + h
  BY <1>1, <1>3, <1>4, <1>5, <1>7, <1>9, FromIs
<1>12. m * K \in Nat /\ n * K \in Nat /\ c + 1 <= d
  BY <1>1, Products
<1>13. CASE m < n
  <2>1. x + T <= y
    BY <1>4, <1>6, <1>7, <1>13, Products
  <2>2. g <= (K - 1) * MaxRecord
    <3>1. K - 1 \in Nat
      BY <1>1
    <3>2. r < K - 1 => g + MaxRecord <= (K - 1) * MaxRecord
      BY <1>5, <1>8, <3>1, TlsBounds, Products
    <3>3. r = K - 1 => g = (K - 1) * MaxRecord
      BY <1>8
    <3>4. PICK z \in Nat : z = (K - 1) * MaxRecord
      BY <1>4
    <3>5. g + MaxRecord <= z \/ g = z
      <4>1. r < K - 1 \/ r = K - 1
        BY <1>1, <1>5
      <4> QED  BY <3>2, <3>3, <3>4, <4>1
    <3> QED  BY <3>4, <3>5, TlsBounds
  <2>3. g < T
    <3>1. PICK z \in Nat : z = (K - 1) * MaxRecord
      BY <1>4
    <3> QED  BY <1>4, <2>2, <3>1
  <2> QED  BY <1>4, <1>10, <1>11, <2>1, <2>3
<1>14. CASE m = n
  <2>1. r <= s
    BY <1>2, <1>3, <1>12, <1>14
  <2>2. r < s => g + MaxRecord <= h
    BY <1>5, <1>8, <1>9, TlsBounds, Products
  <2>3. r = s => g = h
    BY <1>8, <1>9
  <2>4. g <= h
    BY <1>5, <2>1, <2>2, <2>3, TlsBounds
  <2>5. x = y
    BY <1>6, <1>7, <1>14
  <2> QED  BY <1>10, <1>11, <2>4, <2>5
<1>15. CASE n < m
  <2>1. n * K + K <= m * K
    BY <1>1, <1>15, Products
  <2> QED  BY <1>1, <1>2, <1>3, <1>5, <1>12, <2>1
<1> QED  BY <1>13, <1>14, <1>15

\* Nothing comes before the first.
LEMMA FromNothing ==
    ASSUME NEW p \in Tls!Ends
    PROVE  Tls!From(p, 0) = 0
<1>1. PICK K \in Nat : K = Tls!Records(p) /\ 1 <= K
  BY RecordsOf
<1>2. 0 * K + 0 = 0 /\ 0 * Tls!Took(p) = 0 /\ 0 * MaxRecord = 0
  BY <1>1, RecordsOf, TlsBounds
<1>3. Tls!From(p, 0 * K + 0) = 0 * Tls!Took(p) + 0 * MaxRecord
  BY <1>1, FromIs
<1> QED  BY <1>2, <1>3

\* Records follow one another.
LEMMA StartsFollow ==
    ASSUME NEW p \in Tls!Ends, NEW q \in Nat \ {0}
    PROVE  /\ Tls!Size(p, q) \in Nat /\ 1 <= Tls!Size(p, q) /\ Tls!Start(p, q) \in Nat
           /\ Tls!Start(p, q + 1) = Tls!Start(p, q) + Tls!Size(p, q)
<1>1. CASE q < 2
  BY <1>1 DEF Tls!Size, Tls!Start
<1>2. CASE q = 2
  <2>1. Tls!From(p, 0) = 0
    BY FromNothing
  <2>2. Tls!Start(p, 3) = 3 + 2 + Tls!From(p, 0) /\ Tls!Start(p, 2) = 3 /\ Tls!Size(p, 2) = 2
    BY DEF Tls!Start, Tls!Size
  <2> QED  BY <1>2, <2>1, <2>2
<1>3. CASE q > 2
  <2>1. q - 3 \in Nat /\ q - 3 + 1 = q - 2 /\ q + 1 - 3 = q - 2
    BY <1>3
  <2>2. PICK f \in Nat, g \in Nat : f = Tls!From(p, q - 3) /\ g = Tls!From(p, q - 2) /\ f < g
    BY <2>1, FromFollows
  <2>3. Tls!Size(p, q) = g - f + 1 /\ Tls!Start(p, q) = q + 2 + f
    BY <1>3, <2>2 DEF Tls!Size, Tls!Start
  <2>4. Tls!Start(p, q + 1) = q + 1 + 2 + g
    BY <1>3, <2>1, <2>2 DEF Tls!Start
  <2> QED  BY <2>2, <2>3, <2>4
<1> QED  BY <1>1, <1>2, <1>3

\* And in order.
LEMMA StartsInOrder ==
    ASSUME NEW p \in Tls!Ends, NEW q \in Nat \ {0}, NEW t \in Nat \ {0}, q < t
    PROVE  Tls!Start(p, q) + Tls!Size(p, q) <= Tls!Start(p, t)
<1>1. CASE t <= 2
  BY <1>1 DEF Tls!Start, Tls!Size
<1>2. CASE t > 2
  <2>1. PICK d \in Nat : d = t - 3
    BY <1>2
  <2>2. PICK y \in Nat : y = Tls!From(p, d)
    BY FromFollows
  <2>3. Tls!Start(p, t) = t + 2 + y
    BY <1>2, <2>1, <2>2 DEF Tls!Start
  <2>4. CASE q <= 2
    <3>1. Tls!Start(p, q) + Tls!Size(p, q) <= 5
      BY <2>4 DEF Tls!Start, Tls!Size
    <3>2. Tls!Start(p, q) \in Nat /\ Tls!Size(p, q) \in Nat
      BY StartsFollow
    <3> QED  BY <1>2, <2>2, <2>3, <3>1, <3>2
  <2>5. CASE q > 2
    <3>1. PICK c \in Nat : c = q - 3
      BY <2>5
    <3>2. PICK f \in Nat, g \in Nat : f = Tls!From(p, c) /\ g = Tls!From(p, c + 1) /\ f < g
      BY FromFollows
    <3>3. c < d /\ c + 1 = q - 2
      BY <2>1, <3>1
    <3>4. g <= y
      BY <2>2, <3>2, <3>3, FromInOrder
    <3>5. Tls!Start(p, q) = q + 2 + f /\ Tls!Size(p, q) = g - f + 1
      BY <2>5, <3>1, <3>2, <3>3 DEF Tls!Start, Tls!Size
    <3> QED  BY <2>2, <2>3, <3>2, <3>4, <3>5
  <2> QED  BY <2>4, <2>5
<1> QED  BY <1>1, <1>2

\* A place in the stream is of one unit only.
LEMMA OnePlace ==
    ASSUME NEW p \in Tls!Ends,
           NEW q \in Nat \ {0}, NEW t \in Nat \ {0}, NEW i \in 1..Tls!Size(p, q),
           NEW j \in 1..Tls!Size(p, t),
           Tls!Start(p, q) + i = Tls!Start(p, t) + j
    PROVE  q = t /\ i = j
<1>1. /\ Tls!Start(p, q) \in Nat /\ Tls!Size(p, q) \in Nat
      /\ Tls!Start(p, t) \in Nat /\ Tls!Size(p, t) \in Nat
  BY StartsFollow
<1>2. CASE q < t
  <2>1. Tls!Start(p, q) + Tls!Size(p, q) <= Tls!Start(p, t)
    BY <1>2, StartsInOrder
  <2> QED  BY <1>1, <2>1
<1>3. CASE t < q
  <2>1. Tls!Start(p, t) + Tls!Size(p, t) <= Tls!Start(p, q)
    BY <1>3, StartsInOrder
  <2> QED  BY <1>1, <2>1
<1>4. CASE q = t
  BY <1>1, <1>4
<1> QED  BY <1>2, <1>3, <1>4

-----------------------------------------------------------------------------
\* What a unit of the peer's may be.
LEMMA UnitFacts ==
    ASSUME NEW p, NEW K, NEW u \in Tls!Units(p, K)
    PROVE  /\ u \in Tls!AnyUnit
           /\ u.seq \in Nat /\ u.i \in Nat /\ u.of \in Nat /\ 1 <= u.of
           /\ u.seq = 0 => u \in {Tls!Clear, Tls!Zero}
           /\ u.seq # 0 => u.seq \in 1..K - 1 /\ u.i \in 1..Tls!Size(p, u.seq)
                /\ u = Tls!UnitOf(p, u.seq, u.i)
<1>1. /\ u \in Tls!AnyUnit
      /\ \/ u \in {Tls!Clear, Tls!Zero}
         \/ u.seq \in 1..K - 1 /\ u.i \in 1..Tls!Size(p, u.seq) /\ u = Tls!UnitOf(p, u.seq, u.i)
  BY DEF Tls!Units
<1>2. u.seq \in Nat /\ u.i \in Nat /\ u.of \in Nat /\ 1 <= u.of
  BY <1>1 DEF Tls!AnyUnit
<1>3. u \in {Tls!Clear, Tls!Zero} => u.seq = 0
  BY DEF Tls!Clear, Tls!Zero
<1>4. u.seq \in 1..K - 1 => u.seq # 0
  BY <1>2
<1> QED  BY <1>1, <1>2, <1>3, <1>4

\* The units of a record, one by one.
LEMMA UnitFields ==
    ASSUME NEW p, NEW q, NEW i
    PROVE  /\ Tls!UnitOf(p, q, i).kind = Tls!KindOf(p, q) /\ Tls!UnitOf(p, q, i).seq = q
           /\ Tls!UnitOf(p, q, i).n = IF q <= 2 THEN 0 ELSE Tls!Given(p, q - 3)
           /\ Tls!UnitOf(p, q, i).i = i /\ Tls!UnitOf(p, q, i).of = Tls!Size(p, q)
BY DEF Tls!UnitOf

\* The units of more records.
LEMMA MoreUnits ==
    ASSUME NEW p, NEW K \in Nat, NEW L \in Nat, K <= L
    PROVE  Tls!Units(p, K) \subseteq Tls!Units(p, L)
             /\ Seq(Tls!Units(p, K)) \subseteq Seq(Tls!Units(p, L))
<1>1. ASSUME NEW u \in Tls!Units(p, K) PROVE u \in Tls!Units(p, L)
  <2>1. u \in Tls!AnyUnit /\ u.seq \in Nat
    BY UnitFacts
  <2>2. u.seq \in 1..K - 1 => u.seq \in 1..L - 1
    BY <2>1
  <2> QED  BY <2>1, <2>2 DEF Tls!Units
<1>2. Tls!Units(p, K) \subseteq Tls!Units(p, L)
  BY <1>1
<1>3. ASSUME NEW A, NEW B, A \subseteq B, NEW s \in Seq(A) PROVE s \in Seq(B)
  BY <1>3
<1> QED  BY <1>2, <1>3

\* They are units.
LEMMA UnitsAreUnits ==
    ASSUME NEW p, NEW K
    PROVE  Seq(Tls!Units(p, K)) \subseteq Seq(Tls!AnyUnit)
<1>1. Tls!Units(p, K) \subseteq Tls!AnyUnit
  BY UnitFacts
<1>2. ASSUME NEW A, NEW B, A \subseteq B, NEW s \in Seq(A) PROVE s \in Seq(B)
  BY <1>2
<1> QED  BY <1>1, <1>2

\* A whole record in turn is the next of the peer's.
LEMMA NextRecord ==
    ASSUME NEW p, NEW K \in Nat, NEW s \in Seq(Tls!Units(p, K)), NEW q \in Nat \ {0},
           Tls!IsWhole(s), ~Tls!IsBad(s, q)
    PROVE  /\ q < K /\ Tls!InTurn(s, q)
           /\ s[1].kind = Tls!KindOf(p, q) /\ s[1].of = Tls!Size(p, q)
           /\ s[1].n = (IF q <= 2 THEN 0 ELSE Tls!Given(p, q - 3))
<1>1. s # <<>> /\ Tls!InTurn(s, q)
  BY DEF Tls!IsWhole, Tls!IsBad
<1>2. s[1] \in Tls!Units(p, K)
  BY <1>1
<1>3. s[1].seq = q
  <2>1. 1 \in 1..s[1].of
    BY <1>2, UnitFacts
  <2> QED  BY <1>1, <2>1 DEF Tls!InTurn
<1>4. s[1].seq \in 1..K - 1 /\ s[1] = Tls!UnitOf(p, s[1].seq, s[1].i)
  BY <1>2, <1>3, UnitFacts
<1>5. q < K
  BY <1>3, <1>4
<1> QED  BY <1>1, <1>3, <1>4, <1>5, UnitFields

-----------------------------------------------------------------------------
\* A sequence in place, seen from its first unit: none of its records is bad.
LEMMA InPlaceIsGood ==
    ASSUME NEW p \in Tls!Ends, NEW K \in Nat, NEW s \in Seq(Tls!Units(p, K)), NEW q \in Nat \ {0},
           Tls!InPlace(p, s, Tls!Start(p, q))
    PROVE  ~Tls!IsBad(s, q)
<1> SUFFICES ASSUME s # <<>>
             PROVE  s[1].i = 1 /\ (Tls!IsWhole(s) => Tls!InTurn(s, q))
  BY DEF Tls!IsBad
<1>1. /\ Tls!Size(p, q) \in Nat /\ 1 <= Tls!Size(p, q) /\ Tls!Start(p, q) \in Nat
  BY StartsFollow
<1>2. \A j \in 1..Len(s) :
        /\ s[j].seq \in Nat \ {0} /\ s[j].i \in 1..Tls!Size(p, s[j].seq)
        /\ s[j] = Tls!UnitOf(p, s[j].seq, s[j].i)
        /\ Tls!Start(p, s[j].seq) + s[j].i = Tls!Start(p, q) + j
  <2> TAKE j \in 1..Len(s)
  <2>1. s[j] \in Tls!Units(p, K)
    OBVIOUS
  <2>2. s[j].seq # 0 /\ Tls!Start(p, s[j].seq) + s[j].i = Tls!Start(p, q) + j
    BY DEF Tls!InPlace
  <2> QED  BY <2>1, <2>2, UnitFacts
<1>3. \A j \in 1..Len(s) : j <= Tls!Size(p, q) => s[j].seq = q /\ s[j].i = j
  <2> SUFFICES ASSUME NEW j \in 1..Len(s), j <= Tls!Size(p, q)
               PROVE  s[j].seq = q /\ s[j].i = j
    OBVIOUS
  <2>1. j \in 1..Tls!Size(p, q)
    BY <1>1
  <2>2. \A t \in Nat \ {0} : \A i \in 1..Tls!Size(p, t) :
          Tls!Start(p, t) + i = Tls!Start(p, q) + j =>
          t = q /\ i = j
    BY <2>1, OnePlace
  <2> QED  BY <1>2, <2>2
<1>4. 1 \in 1..Len(s) /\ 1 <= Tls!Size(p, q)
  BY <1>1
<1>5. s[1].seq = q /\ s[1].i = 1 /\ s[1].of = Tls!Size(p, q)
  <2>1. s[1].seq = q /\ s[1].i = 1 /\ s[1] = Tls!UnitOf(p, s[1].seq, s[1].i)
    BY <1>2, <1>3, <1>4
  <2> QED  BY <2>1, UnitFields
<1>6. ASSUME Tls!IsWhole(s) PROVE Tls!InTurn(s, q)
  <2>1. Len(s) >= Tls!Size(p, q)
    BY <1>5, <1>6 DEF Tls!IsWhole
  <2>2. \A j \in 1..s[1].of : s[j].seq = q /\ s[j].i = j
    BY <1>1, <1>3, <1>5, <2>1
  <2> QED  BY <2>2 DEF Tls!InTurn
<1> QED  BY <1>5, <1>6

\* Nor is its first unit another record's.
LEMMA InPlaceFirst ==
    ASSUME NEW p \in Tls!Ends, NEW K \in Nat, NEW s \in Seq(Tls!Units(p, K)), NEW q \in Nat \ {0},
           Tls!InPlace(p, s, Tls!Start(p, q)), s # <<>>
    PROVE  s[1].of = Tls!Size(p, q) /\ q < K
<1>1. /\ Tls!Size(p, q) \in Nat /\ 1 <= Tls!Size(p, q) /\ Tls!Start(p, q) \in Nat
  BY StartsFollow
<1>2. s[1] \in Tls!Units(p, K) /\ 1 \in 1..Len(s)
  OBVIOUS
<1>3. s[1].seq # 0 /\ Tls!Start(p, s[1].seq) + s[1].i = Tls!Start(p, q) + 1
  BY <1>2 DEF Tls!InPlace
<1>4. /\ s[1].seq \in 1..K - 1 /\ s[1].i \in 1..Tls!Size(p, s[1].seq)
      /\ s[1] = Tls!UnitOf(p, s[1].seq, s[1].i) /\ s[1].seq \in Nat \ {0}
  BY <1>2, <1>3, UnitFacts
<1>5. 1 \in 1..Tls!Size(p, q)
  BY <1>1
<1>6. s[1].seq = q
  <2>1. \A t \in Nat \ {0} : \A i \in 1..Tls!Size(p, t) :
          Tls!Start(p, t) + i = Tls!Start(p, q) + 1 =>
          t = q
    <3> TAKE t \in Nat \ {0}
    <3> TAKE i \in 1..Tls!Size(p, t)
    <3> DEFINE j == 1
    <3>1. j \in 1..Tls!Size(p, q)
      BY <1>5
    <3> HIDE DEF j
    <3>2. Tls!Start(p, t) + i = Tls!Start(p, q) + j => t = q
      BY <3>1, OnePlace
    <3> QED  BY <3>2 DEF j
  <2> QED  BY <1>3, <1>4, <2>1
<1>7. s[1].of = Tls!Size(p, q)
  BY <1>4, <1>6, UnitFields
<1> QED  BY <1>4, <1>6, <1>7

-----------------------------------------------------------------------------
\* A sequence of units without its beginning.
LEMMA Beheaded ==
    ASSUME NEW S, NEW s \in Seq(S), NEW n \in 0..Len(s)
    PROVE  /\ SubSeq(s, n + 1, Len(s)) \in Seq(S)
           /\ Len(SubSeq(s, n + 1, Len(s))) = Len(s) - n
           /\ \A j \in 1..Len(s) - n : SubSeq(s, n + 1, Len(s))[j] = s[n + j]
OBVIOUS

\* Its beginning.
LEMMA Beginning ==
    ASSUME NEW S, NEW s \in Seq(S), NEW n \in 0..Len(s)
    PROVE  /\ SubSeq(s, 1, n) \in Seq(S) /\ Len(SubSeq(s, 1, n)) = n
           /\ \A j \in 1..n : SubSeq(s, 1, n)[j] = s[j]
OBVIOUS

\* The two together.
LEMMA TwoParts ==
    ASSUME NEW S, NEW s \in Seq(S), NEW n \in 0..Len(s)
    PROVE  SubSeq(s, 1, n) \o SubSeq(s, n + 1, Len(s)) = s
<1> DEFINE b == SubSeq(s, 1, n)
           r == SubSeq(s, n + 1, Len(s))
<1>1. /\ b \in Seq(S) /\ Len(b) = n
      /\ \A j \in 1..n : b[j] = s[j]
  BY Beginning
<1>2. /\ r \in Seq(S) /\ Len(r) = Len(s) - n
      /\ \A j \in 1..Len(s) - n : r[j] = s[n + j]
  BY Beheaded
<1> HIDE DEF b, r
<1>3. b \o r \in Seq(S) /\ Len(b \o r) = Len(s)
  <2>1. b \in Seq(S) /\ r \in Seq(S)
    BY <1>1, <1>2
  <2>2. b \o r \in Seq(S) /\ Len(b \o r) = Len(b) + Len(r)
    BY ONLY <2>1
  <2>3. Len(s) \in Nat /\ n \in Nat /\ n <= Len(s)
    OBVIOUS
  <2>4. Len(b) = n /\ Len(r) = Len(s) - n
    BY <1>1, <1>2
  <2> QED  BY ONLY <2>2, <2>3, <2>4
<1>4. ASSUME NEW j \in 1..Len(s) PROVE (b \o r)[j] = s[j]
  <2>1. CASE j <= n
    BY <1>1, <1>2, <2>1
  <2>2. CASE j > n
    <3>1. j - n \in 1..Len(s) - n /\ n + (j - n) = j
      BY <2>2
    <3>2. (b \o r)[j] = r[j - n]
      BY <1>1, <1>2, <2>2
    <3>3. r[j - n] = s[n + (j - n)]
      BY <1>2, <3>1
    <3> QED  BY <3>1, <3>2, <3>3
  <2>3. n \in Nat /\ j \in Nat
    <3>1. Len(s) \in Nat
      OBVIOUS
    <3> QED  BY <3>1
  <2>4. j <= n \/ j > n
    BY <2>3
  <2> QED  BY <2>1, <2>2, <2>4
<1>5. b \o r = s
  BY <1>3, <1>4, SameUnits
<1> QED  BY <1>5 DEF b, r

\* One sequence after another.
LEMMA PutTogether ==
    ASSUME NEW S, NEW s \in Seq(S), NEW t \in Seq(S)
    PROVE  /\ s \o t \in Seq(S) /\ Len(s \o t) = Len(s) + Len(t)
           /\ Len(s) \in Nat /\ Len(t) \in Nat
           /\ \A i \in 1..Len(s) : (s \o t)[i] = s[i]
           /\ \A i \in 1..Len(t) : (s \o t)[Len(s) + i] = t[i]
OBVIOUS

\* Sequences put together in any order.
LEMMA RegroupUnits ==
    ASSUME NEW S, NEW s \in Seq(S), NEW t \in Seq(S), NEW u \in Seq(S)
    PROVE  (s \o t) \o u = s \o (t \o u)
<1> DEFINE a == (s \o t) \o u
           b == s \o (t \o u)
<1>1. a \in Seq(S) /\ b \in Seq(S) /\ Len(a) = Len(b) /\ Len(a) = Len(s) + Len(t) + Len(u)
  OBVIOUS
<1>2. ASSUME NEW i \in 1..Len(a) PROVE a[i] = b[i]
  <2>1. CASE i <= Len(s)
    BY <1>1, <2>1
  <2>2. CASE i > Len(s) /\ i <= Len(s) + Len(t)
    BY <1>1, <2>2
  <2>3. CASE i > Len(s) + Len(t)
    BY <1>1, <2>3
  <2> QED  BY <2>1, <2>2, <2>3, <1>1
<1> HIDE DEF a, b
<1>3. a = b
  BY <1>1, <1>2, SameUnits
<1> QED  BY <1>3 DEF a, b

\* Sequences in place one after the other.
LEMMA InPlaceTogether ==
    ASSUME NEW p, NEW S, NEW s \in Seq(S), NEW t \in Seq(S), NEW a \in Nat
    PROVE  Tls!InPlace(p, s \o t, a) <=> Tls!InPlace(p, s, a) /\ Tls!InPlace(p, t, a + Len(s))
<1>1. /\ s \o t \in Seq(S) /\ Len(s \o t) = Len(s) + Len(t)
      /\ \A j \in 1..Len(s) : (s \o t)[j] = s[j]
      /\ \A j \in 1..Len(t) : (s \o t)[Len(s) + j] = t[j]
  OBVIOUS
<1> DEFINE w == s \o t
           At(u, n) == u.seq # 0 /\ Tls!Start(p, u.seq) + u.i = n
<1>2. /\ Tls!InPlace(p, w, a) <=> \A j \in 1..Len(w) : At(w[j], a + j)
      /\ Tls!InPlace(p, s, a) <=> \A j \in 1..Len(s) : At(s[j], a + j)
      /\ Tls!InPlace(p, t, a + Len(s)) <=> \A j \in 1..Len(t) : At(t[j], a + Len(s) + j)
  BY DEF Tls!InPlace
<1> HIDE DEF w, At
<1>3. /\ Len(w) = Len(s) + Len(t) /\ Len(s) \in Nat /\ Len(t) \in Nat
      /\ \A j \in 1..Len(s) : w[j] = s[j]
      /\ \A j \in 1..Len(t) : w[Len(s) + j] = t[j]
  BY <1>1 DEF w
<1>4. ASSUME Tls!InPlace(p, w, a) PROVE Tls!InPlace(p, s, a) /\ Tls!InPlace(p, t, a + Len(s))
  <2>1. \A j \in 1..Len(s) : At(s[j], a + j)
    BY <1>2, <1>3, <1>4
  <2>2. ASSUME NEW j \in 1..Len(t) PROVE At(t[j], a + Len(s) + j)
    <3>1. Len(s) + j \in 1..Len(w) /\ a + (Len(s) + j) = a + Len(s) + j
      BY <1>3
    <3>2. At(w[Len(s) + j], a + (Len(s) + j))
      BY <1>2, <1>4, <3>1
    <3> QED  BY <1>3, <3>1, <3>2
  <2> QED  BY <1>2, <2>1, <2>2
<1>5. ASSUME Tls!InPlace(p, s, a), Tls!InPlace(p, t, a + Len(s)) PROVE Tls!InPlace(p, w, a)
  <2>1. ASSUME NEW j \in 1..Len(w) PROVE At(w[j], a + j)
    <3>1. CASE j <= Len(s)
      BY <1>2, <1>3, <1>5, <3>1
    <3>2. CASE j > Len(s)
      <4>1. j - Len(s) \in 1..Len(t) /\ a + Len(s) + (j - Len(s)) = a + j
              /\ Len(s) + (j - Len(s)) = j
        BY <1>3, <3>2
      <4>2. At(t[j - Len(s)], a + Len(s) + (j - Len(s)))
        BY <1>2, <1>5, <4>1
      <4>3. w[Len(s) + (j - Len(s))] = t[j - Len(s)]
        BY <1>3, <4>1
      <4> QED  BY <4>1, <4>2, <4>3
    <3> QED  BY <3>1, <3>2, <1>3
  <2> QED  BY <1>2, <2>1
<1> QED  BY <1>4, <1>5 DEF w

\* The record a sequence begins with, taken from it.
LEMMA RecordTaken ==
    ASSUME NEW p \in Tls!Ends, NEW K \in Nat, NEW s \in Seq(Tls!Units(p, K)), NEW q \in Nat \ {0},
           Tls!IsWhole(s), ~Tls!IsBad(s, q)
    PROVE  /\ SubSeq(s, s[1].of + 1, Len(s)) \in Seq(Tls!Units(p, K))
           /\ Len(SubSeq(s, s[1].of + 1, Len(s))) + Tls!Start(p, q + 1) = Len(s) + Tls!Start(p, q)
           /\ Tls!InPlace(p, s, Tls!Start(p, q)) =>
                Tls!InPlace(p, SubSeq(s, s[1].of + 1, Len(s)), Tls!Start(p, q + 1))
<1> DEFINE n == Tls!Size(p, q)
<1>1. s[1].of = n /\ Tls!IsWhole(s)
  BY NextRecord
<1>2. n \in Nat /\ Tls!Start(p, q) \in Nat /\ Tls!Start(p, q + 1) = Tls!Start(p, q) + n
  BY StartsFollow
<1> HIDE DEF n
<1>3. n \in 0..Len(s)
  BY <1>1, <1>2 DEF Tls!IsWhole
<1> DEFINE b == SubSeq(s, 1, n)
           r == SubSeq(s, n + 1, Len(s))
<1>4. b \in Seq(Tls!Units(p, K)) /\ Len(b) = n
  BY <1>3, Beginning
<1>5. r \in Seq(Tls!Units(p, K)) /\ Len(r) = Len(s) - n
  BY <1>3, Beheaded
<1>6. b \o r = s
  BY <1>3, TwoParts
<1> HIDE DEF b, r
<1>7. Tls!InPlace(p, s, Tls!Start(p, q)) => Tls!InPlace(p, r, Tls!Start(p, q + 1))
  <2> DEFINE a == Tls!Start(p, q)
  <2>1. a \in Nat /\ Tls!Start(p, q + 1) = a + Len(b)
    BY <1>2, <1>4
  <2> HIDE DEF a
  <2>2. Tls!InPlace(p, b \o r, a) => Tls!InPlace(p, r, a + Len(b))
    BY <1>4, <1>5, <2>1, InPlaceTogether
  <2> QED  BY <1>6, <2>1, <2>2 DEF a
<1>8. Len(r) + Tls!Start(p, q + 1) = Len(s) + Tls!Start(p, q)
  BY <1>2, <1>5
<1> QED  BY <1>1, <1>5, <1>7, <1>8 DEF r

\* A record as it is written.
LEMMA RecordWritten ==
    ASSUME version \in {"1.2", "1.3"}, NEW e \in Tls!Ends, NEW q \in Nat \ {0},
           NEW k, k = Tls!KindOf(e, q), NEW n, n = (IF q <= 2 THEN 0 ELSE Tls!Given(e, q - 3)),
           NEW z, z = Tls!Size(e, q)
    PROVE  /\ Tls!Record(k, q, n, z) \in Seq(Tls!Units(e, q + 1))
                /\ Len(Tls!Record(k, q, n, z)) = z
           /\ Tls!InPlace(e, Tls!Record(k, q, n, z), Tls!Start(e, q))
<1>1. Tls!Size(e, q) \in Nat /\ 1 <= Tls!Size(e, q) /\ Tls!Start(e, q) \in Nat
  BY StartsFollow
<1> DEFINE r == Tls!Record(k, q, n, z)
<1>2. Len(r) = z /\ \A i \in 1..z : r[i] = [kind |-> k, seq |-> q, n |-> n, i |-> i, of |-> z]
  BY <1>1 DEF Tls!Record
<1>3. k \in {"clear", "zero", "ch", "sh", "fin", "sfin", "ticket", "app"} /\ n \in Nat
  <2>1. q <= 2 \/ q - 3 \in Nat
    OBVIOUS
  <2>2. n \in Nat
    BY <2>1, FromFollows
  <2>3. k \in {"clear", "zero", "ch", "sh", "fin", "sfin", "ticket", "app"}
    BY DEF Tls!KindOf
  <2> QED  BY <2>2, <2>3
<1>4. ASSUME NEW i \in 1..z
      PROVE  r[i] \in Tls!Units(e, q + 1) /\ r[i].seq = q /\ r[i].i = i
  <2>1. r[i] \in Tls!AnyUnit /\ r[i].seq = q /\ r[i].i = i
    <3>1. r[i] = [kind |-> k, seq |-> q, n |-> n, i |-> i, of |-> z]
      BY <1>2
    <3>2. i \in Nat /\ z \in Nat \ {0} /\ q \in Nat
      BY <1>1
    <3> HIDE DEF r
    <3> QED  BY <3>1, <3>2, <1>3 DEF Tls!AnyUnit
  <2>2. r[i] = Tls!UnitOf(e, q, i)
    BY <1>2 DEF Tls!UnitOf
  <2>3. q \in 1..(q + 1) - 1 /\ i \in 1..Tls!Size(e, q)
    OBVIOUS
  <2> QED  BY <2>1, <2>2, <2>3 DEF Tls!Units
<1>5. r \in Seq(Tls!Units(e, q + 1))
  <2>1. r = [i \in 1..z |-> r[i]]
    BY <1>2 DEF Tls!Record
  <2> HIDE DEF r
  <2> QED  BY <2>1, <1>1, <1>4
<1>6. Tls!InPlace(e, r, Tls!Start(e, q))
  BY <1>2, <1>4 DEF Tls!InPlace
<1> QED  BY <1>2, <1>5, <1>6

\* A record of a message carries as much as it may, and the last what is left.
LEMMA FromStep ==
    ASSUME NEW p \in Tls!Ends, NEW m \in Nat, NEW r \in Nat, r < Tls!Records(p),
           NEW c \in Nat, c = m * Tls!Records(p) + r
    PROVE  /\ Tls!From(p, c + 1) = Tls!From(p, c)
                                     + Tls!Least(MaxRecord, Tls!Took(p) - r * MaxRecord)
           /\ r * MaxRecord \in Nat /\ r * MaxRecord < Tls!Took(p)
<1>1. PICK K \in Nat : K = Tls!Records(p) /\ 1 <= K
  BY RecordsOf
<1>2. PICK T \in Nat, z \in Nat : /\ T = Tls!Took(p) /\ 1 <= T
                                  /\ z = (K - 1) * MaxRecord /\ z < T /\ T <= z + MaxRecord
  BY <1>1, RecordsOf
<1>3. PICK f \in Nat, g \in Nat : f = m * T /\ g = r * MaxRecord
  <2>1. m * T \in Nat /\ r * MaxRecord \in Nat
    BY <1>2, TlsBounds, Products
  <2> QED  BY <2>1
<1>4. Tls!From(p, c) = f + g
  BY <1>1, <1>2, <1>3, FromIs
<1>5. m * K \in Nat /\ (m + 1) * K = m * K + K
  BY <1>1, Products
<1>6. CASE r < K - 1
  <2>1. c + 1 = m * K + (r + 1) /\ r + 1 \in Nat /\ r + 1 < K
    BY <1>1, <1>5, <1>6
  <2>2. Tls!From(p, m * K + (r + 1)) = m * T + (r + 1) * MaxRecord
    BY <1>1, <1>2, <2>1, FromIs
  <2>3. (r + 1) * MaxRecord = g + MaxRecord
    BY <1>3, TlsBounds, Products
  <2>4. g + MaxRecord <= z
    <3>1. K - 1 \in Nat
      BY <1>1
    <3> QED  BY <1>2, <1>3, <1>6, <3>1, TlsBounds, Products
  <2>5. Tls!Least(MaxRecord, T - g) = MaxRecord
    BY <1>2, <1>3, <2>4, TlsBounds DEF Tls!Least
  <2>6. Tls!From(p, c + 1) = f + (g + MaxRecord)
    BY <1>3, <2>1, <2>2, <2>3
  <2> QED  BY <1>2, <1>3, <1>4, <2>4, <2>5, <2>6, TlsBounds
<1>7. CASE r = K - 1
  <2>1. c + 1 = (m + 1) * K + 0 /\ m + 1 \in Nat /\ 0 \in Nat /\ 0 < K
    BY <1>1, <1>5, <1>7
  <2>2. Tls!From(p, (m + 1) * K + 0) = (m + 1) * T + 0 * MaxRecord
    BY <1>1, <1>2, <2>1, FromIs
  <2>3. (m + 1) * T = f + T /\ 0 * MaxRecord = 0
    BY <1>2, <1>3, TlsBounds, Products
  <2>4. Tls!From(p, c + 1) = f + T
    BY <1>2, <2>1, <2>2, <2>3
  <2>5. g = z
    BY <1>2, <1>3, <1>7
  <2>6. Tls!Least(MaxRecord, T - g) = T - g
    BY <1>2, <2>5, TlsBounds DEF Tls!Least
  <2> QED  BY <1>2, <1>3, <1>4, <2>4, <2>5, <2>6
<1> QED  BY <1>1, <1>6, <1>7

\* The place of a unit among a message's records.
LEMMA UnitOfMessage ==
    ASSUME NEW p \in Tls!Ends, NEW i \in 1..Tls!Took(p) + Tls!Records(p)
    PROVE  \E r \in Nat, j \in Nat \ {0} :
             /\ r = (i - 1) \div (MaxRecord + 1) /\ j = ((i - 1) % (MaxRecord + 1)) + 1
             /\ r < Tls!Records(p) /\ i = r * MaxRecord + r + j
             /\ j <= Tls!Least(MaxRecord, Tls!Took(p) - r * MaxRecord) + 1
<1>1. PICK K \in Nat : K = Tls!Records(p) /\ 1 <= K
  BY RecordsOf
<1>2. PICK T \in Nat, z \in Nat : /\ T = Tls!Took(p) /\ 1 <= T
                                  /\ z = (K - 1) * MaxRecord /\ z < T /\ T <= z + MaxRecord
  BY <1>1, RecordsOf
<1>3. PICK r \in Nat : \E s \in 0..MaxRecord :
        /\ i - 1 = r * (MaxRecord + 1) + s
        /\ r = (i - 1) \div (MaxRecord + 1) /\ s = (i - 1) % (MaxRecord + 1)
  <2> DEFINE a == i - 1
             b == MaxRecord + 1
  <2>1. a \in Nat /\ b \in Nat /\ 1 <= b /\ b - 1 = MaxRecord
    BY <1>1, <1>2, TlsBounds
  <2> HIDE DEF a, b
  <2>2. \E m \in Nat : \E s \in 0..b - 1 : a = m * b + s /\ m = a \div b /\ s = a % b
    BY <2>1, Divided
  <2> QED  BY <2>1, <2>2 DEF a, b
<1>4. PICK s \in 0..MaxRecord :
        /\ i - 1 = r * (MaxRecord + 1) + s
        /\ r = (i - 1) \div (MaxRecord + 1) /\ s = (i - 1) % (MaxRecord + 1)
  BY <1>3
<1>5. PICK g \in Nat : g = r * MaxRecord
  BY TlsBounds, Products
<1>6. r * (MaxRecord + 1) = g + r
  BY <1>5, TlsBounds
<1>7. s \in Nat /\ s <= MaxRecord /\ i \in Nat /\ i <= T + K /\ i - 1 = g + r + s
  BY <1>1, <1>2, <1>4, <1>6, TlsBounds
<1>8. r < K
  <2> SUFFICES ASSUME r >= K PROVE FALSE
    BY <1>1
  <2>1. K - 1 \in Nat /\ K - 1 < r
    BY <1>1
  <2>2. z + MaxRecord <= g
    BY <1>2, <1>5, <2>1, TlsBounds, Products
  <2> QED  BY <1>1, <1>2, <1>7, <2>2, TlsBounds
<1>9. s <= Tls!Least(MaxRecord, T - g)
  <2>1. CASE r < K - 1
    <3>1. K - 1 \in Nat
      BY <1>1
    <3>2. g + MaxRecord <= z
      BY <1>2, <1>5, <2>1, <3>1, TlsBounds, Products
    <3> QED  BY <1>2, <1>7, <3>2, TlsBounds DEF Tls!Least
  <2>2. CASE r = K - 1
    <3>1. g = z
      BY <1>2, <1>5, <2>2
    <3> QED  BY <1>1, <1>2, <1>7, <2>2, <3>1, TlsBounds DEF Tls!Least
  <2> QED  BY <1>1, <1>8, <2>1, <2>2
<1>10. Tls!Least(MaxRecord, T - g) \in Int
  BY <1>2, TlsBounds DEF Tls!Least
<1>11. PICK j \in Nat \ {0} : j = s + 1
  BY <1>7
<1>12. /\ j = ((i - 1) % (MaxRecord + 1)) + 1 /\ i = g + r + j
       /\ j <= Tls!Least(MaxRecord, T - g) + 1
  BY <1>4, <1>7, <1>9, <1>10, <1>11
<1> QED  BY <1>1, <1>2, <1>3, <1>5, <1>8, <1>12

\* The records of a message as they are written.
LEMMA DataWritten ==
    ASSUME NEW e \in Tls!Ends, NEW q \in Nat, q >= 3, NEW k \in Nat,
           k * Tls!Records(e) = q - 3,
           NEW M \in Nat, M = q + Tls!Records(e),
           NEW n \in Nat, n = k * Payload,
           NEW out, out = Tls!DataRecords(e, q, n)
    PROVE  /\ out \in Seq(Tls!Units(e, M)) /\ Tls!InPlace(e, out, Tls!Start(e, q))
           /\ Len(out) = Tls!Start(e, M) - Tls!Start(e, q)
           /\ (k + 1) * Tls!Records(e) = M - 3
<1>1. PICK K \in Nat : K = Tls!Records(e) /\ 1 <= K
  BY RecordsOf
<1>2. PICK T \in Nat : T = Tls!Took(e) /\ 1 <= T
  BY RecordsOf
<1>3. PICK f \in Nat : f = k * T
  BY <1>2, Products
<1>4. k * K = q - 3 /\ (k + 1) * K = q - 3 + K
  BY <1>1, Products
<1>5. Tls!From(e, q - 3) = f
  <2>1. Tls!From(e, k * K + 0) = k * T + 0 * MaxRecord
    BY <1>1, <1>2, FromIs
  <2>2. k * K + 0 = q - 3 /\ 0 * MaxRecord = 0
    BY <1>4, TlsBounds
  <2> QED  BY <1>3, <2>1, <2>2
<1>6. Tls!From(e, M - 3) = f + T
  <2>1. Tls!From(e, (k + 1) * K + 0) = (k + 1) * T + 0 * MaxRecord
    BY <1>1, <1>2, FromIs
  <2>2. (k + 1) * K + 0 = M - 3 /\ 0 * MaxRecord = 0 /\ (k + 1) * T = f + T
    BY <1>1, <1>2, <1>3, <1>4, TlsBounds, Products
  <2> QED  BY <1>3, <2>1, <2>2
<1>7. Tls!Start(e, q) = q + 2 + f /\ Tls!Start(e, M) = M + 2 + f + T
  <2>1. Tls!Start(e, q) = q + 2 + Tls!From(e, q - 3)
    BY DEF Tls!Start
  <2>2. Tls!Start(e, M) = M + 2 + Tls!From(e, M - 3)
    BY <1>1 DEF Tls!Start
  <2> QED  BY <1>2, <1>5, <1>6, <2>1, <2>2
<1>8. out = [i \in 1..T + K |->
               [kind |-> "app", seq |-> q + ((i - 1) \div (MaxRecord + 1)),
                n |-> n + ((i - 1) \div (MaxRecord + 1)) * MaxRecord,
                i |-> ((i - 1) % (MaxRecord + 1)) + 1,
                of |-> Tls!Least(MaxRecord, T - ((i - 1) \div (MaxRecord + 1)) * MaxRecord) + 1]]
  BY <1>1, <1>2 DEF Tls!DataRecords
<1>9. ASSUME NEW i \in 1..T + K
      PROVE  /\ out[i] \in Tls!Units(e, M)
             /\ out[i].seq # 0 /\ Tls!Start(e, out[i].seq) + out[i].i = Tls!Start(e, q) + i
  <2>1. PICK r \in Nat, j \in Nat \ {0} :
          /\ r = (i - 1) \div (MaxRecord + 1) /\ j = ((i - 1) % (MaxRecord + 1)) + 1
          /\ r < K /\ i = r * MaxRecord + r + j
          /\ j <= Tls!Least(MaxRecord, T - r * MaxRecord) + 1
    BY <1>1, <1>2, UnitOfMessage
  <2>2. PICK c \in Nat : c = k * K + r
    <3>1. k * K + r \in Nat
      BY <1>4
    <3> QED  BY <3>1
  <2>3. PICK g \in Nat : g = r * MaxRecord /\ g < T
    BY <1>1, <1>2, <2>1, <2>2, FromStep
  <2>4. PICK z \in Nat : z = Tls!Least(MaxRecord, T - g) /\ 1 <= z
    BY <1>2, <2>3, TlsBounds DEF Tls!Least
  <2> DEFINE L == k * Tls!Records(e) + r
  <2>5. Tls!From(e, c) = f + g /\ Tls!Given(e, c) = n + g
    <3>1. r < Tls!Records(e) /\ c = L
      BY <1>1, <2>1, <2>2
    <3>2. Tls!From(e, L) = k * Tls!Took(e) + r * MaxRecord
      BY <3>1, FromIs
    <3>3. Tls!Given(e, L) = k * Payload + r * MaxRecord
      BY <3>1, FromIs
    <3> HIDE DEF L
    <3>4. Tls!From(e, c) = f + g
      BY <1>2, <1>3, <2>3, <3>1, <3>2
    <3>5. Tls!Given(e, c) = n + g
      BY <2>3, <3>1, <3>3
    <3> QED  BY <3>4, <3>5
  <2>6. Tls!From(e, c + 1) = f + g + z
    <3>1. r < Tls!Records(e) /\ c = L
      BY <1>1, <2>1, <2>2
    <3>2. Tls!From(e, c + 1)
            = Tls!From(e, c) + Tls!Least(MaxRecord, Tls!Took(e) - r * MaxRecord)
      BY <3>1, FromStep
    <3> HIDE DEF L
    <3>3. Tls!Least(MaxRecord, Tls!Took(e) - r * MaxRecord) = z
      BY <1>2, <2>3, <2>4
    <3> QED  BY <2>5, <3>2, <3>3
  <2>7. PICK s \in Nat : s = q + r /\ s >= 3 /\ s - 3 = c /\ s - 2 = c + 1 /\ s < M
    <3>1. PICK y \in Nat : y = k * K
      BY <1>4
    <3>2. y = q - 3 /\ c = y + r
      BY <1>4, <2>2, <3>1
    <3>3. r < K /\ M = q + K
      BY <1>1, <2>1
    <3>4. q + r \in Nat /\ q + r >= 3 /\ q + r - 3 = c /\ q + r - 2 = c + 1 /\ q + r < M
      BY <3>2, <3>3
    <3> QED  BY <3>4
  <2>8. Tls!Size(e, s) = z + 1 /\ Tls!Start(e, s) = s + 2 + (f + g)
    BY <2>4, <2>5, <2>6, <2>7 DEF Tls!Size, Tls!Start
  <2>9. out[i] = [kind |-> "app", seq |-> s, n |-> n + g, i |-> j, of |-> z + 1]
    BY <1>8, <2>1, <2>3, <2>4, <2>7
  <2>10. out[i] = Tls!UnitOf(e, s, j)
    <3>1. Tls!KindOf(e, s) = "app"
      BY <2>7 DEF Tls!KindOf
    <3>2. ~(s <= 2)
      BY <2>7
    <3>3. Tls!Given(e, s - 3) = n + g
      BY <2>5, <2>7
    <3> QED  BY <2>8, <2>9, <3>1, <3>2, <3>3 DEF Tls!UnitOf
  <2>11. out[i] \in Tls!AnyUnit
    <3>1. z + 1 \in Nat \ {0} /\ n + g \in Nat
      BY <2>4
    <3> QED  BY <2>9, <3>1 DEF Tls!AnyUnit
  <2>12. out[i].seq = s /\ out[i].i = j
    BY <2>9
  <2>13. s \in 1..M - 1 /\ j \in 1..Tls!Size(e, s)
    <3>1. j <= Tls!Least(MaxRecord, T - g) + 1
      BY <2>1, <2>3
    <3>2. j <= z + 1
      BY <2>4, <3>1
    <3>3. j \in 1..Tls!Size(e, s)
      BY <2>8, <3>2
    <3>4. s \in 1..M - 1
      BY <2>7
    <3> QED  BY <3>3, <3>4
  <2>14. out[i] \in Tls!Units(e, M)
    BY <2>10, <2>11, <2>12, <2>13 DEF Tls!Units
  <2>15. s # 0 /\ s + 2 + (f + g) + j = q + 2 + f + i
    <3>1. i = g + r + j
      BY <2>1, <2>3
    <3> QED  BY <2>7, <3>1
  <2> QED  BY <1>7, <2>8, <2>12, <2>14, <2>15
<1>10. T + K \in Nat /\ M - 3 = q - 3 + K
  BY <1>1
<1>11. out \in Seq(Tls!Units(e, M)) /\ Len(out) = T + K
  <2>1. out = [i \in 1..T + K |-> out[i]]
    BY <1>8
  <2>2. \A i \in 1..T + K : out[i] \in Tls!Units(e, M)
    BY <1>9
  <2>3. T + K \in Nat
    BY <1>10
  <2> QED  BY ONLY <2>1, <2>2, <2>3, SequenceOf
<1>12. Tls!InPlace(e, out, Tls!Start(e, q))
  BY <1>9, <1>11 DEF Tls!InPlace
<1>13. T + K = Tls!Start(e, M) - Tls!Start(e, q)
  BY <1>1, <1>7
<1> QED  BY <1>1, <1>4, <1>10, <1>11, <1>12, <1>13

-----------------------------------------------------------------------------
(* A record of the handshake. *)

\* What SSL_do_handshake works on, at end e, whose peer's next record is K.
States(e, K) ==
    [stage : Tls!Stages, out : Seq(Tls!AnyUnit), in : Seq(Tls!Units(Tls!Peer(e), K)),
     seqIn : Nat \ {0}, seqOut : Nat \ {0}]

Rest(s) == SubSeq(s, s[1].of + 1, Len(s))

ReadsNothing(x, y) == y.in = x.in /\ y.seqIn = x.seqIn
ReadsRecord(x, y) ==
    /\ Tls!IsWhole(x.in) /\ ~Tls!IsBad(x.in, x.seqIn)
    /\ y.in = Rest(x.in) /\ y.seqIn = x.seqIn + 1
WritesNothing(x, y) == y.out = x.out /\ y.seqOut = x.seqOut
WritesRecord(x, y, kind) == y.out = Tls!Record(kind, x.seqOut, 0, 2) /\ y.seqOut = x.seqOut + 1

Outcome(x, y) ==
    \/ /\ ReadsNothing(x, y) /\ WritesNothing(x, y) /\ y.stage = x.stage
       /\ x.stage \in {"done", "failed"} \/ ~Tls!IsWhole(x.in)
    \/ /\ ReadsNothing(x, y) /\ WritesNothing(x, y) /\ y.stage = "failed"
       /\ Tls!IsBad(x.in, x.seqIn)
    \/ /\ ReadsRecord(x, y) /\ WritesNothing(x, y)
       /\ x.stage = "new" /\ y.stage = "failed"
    \/ /\ ReadsRecord(x, y) /\ WritesRecord(x, y, "sh")
       /\ x.stage = "wait_ch" /\ y.stage = "wait_fin"
    \/ /\ ReadsRecord(x, y) /\ WritesRecord(x, y, "fin")
       /\ x.stage = "wait_sh" /\ y.stage = (IF version = "1.3" THEN "done" ELSE "wait_sfin")
    \/ /\ ReadsRecord(x, y)
       /\ WritesRecord(x, y, IF version = "1.3" THEN "ticket" ELSE "sfin")
       /\ x.stage = "wait_fin" /\ y.stage = "done"
    \/ /\ ReadsRecord(x, y) /\ WritesNothing(x, y)
       /\ x.stage = "wait_sfin" /\ y.stage = "done"

\* One call of HandshakeStep has one of these outcomes.
LEMMA HandshakeOutcome ==
    ASSUME version \in {"1.2", "1.3"}, NEW e \in Tls!Ends, NEW K \in Nat, NEW x \in States(e, K),
           Tls!AtStage(e, x.stage, x.seqIn, x.seqOut)
    PROVE  Outcome(x, Tls!HandshakeStep(x))
<1> DEFINE y == Tls!HandshakeStep(x)
<1> SUFFICES Outcome(x, y)
  OBVIOUS
<1>1. CASE x.stage \in {"done", "failed"}
  <2>1. y = x
    BY <1>1 DEF Tls!HandshakeStep
  <2> HIDE DEF y
  <2> QED  BY <1>1, <2>1 DEF Outcome, ReadsNothing, WritesNothing
<1>2. CASE x.stage \notin {"done", "failed"} /\ Tls!IsBad(x.in, x.seqIn)
  <2>1. y = [x EXCEPT !.stage = "failed"]
    BY <1>2 DEF Tls!HandshakeStep
  <2> HIDE DEF y
  <2>2. y.in = x.in /\ y.seqIn = x.seqIn /\ y.out = x.out /\ y.seqOut = x.seqOut
          /\ y.stage = "failed"
    BY <2>1 DEF States
  <2> QED  BY <1>2, <2>2 DEF Outcome, ReadsNothing, WritesNothing
<1>3. CASE x.stage \notin {"done", "failed"} /\ ~Tls!IsBad(x.in, x.seqIn) /\ ~Tls!IsWhole(x.in)
  <2>1. y = x
    BY <1>3 DEF Tls!HandshakeStep
  <2> HIDE DEF y
  <2> QED  BY <1>3, <2>1 DEF Outcome, ReadsNothing, WritesNothing
<1>4. CASE x.stage \notin {"done", "failed"} /\ ~Tls!IsBad(x.in, x.seqIn) /\ Tls!IsWhole(x.in)
  <2> DEFINE f == Tls!Flight(x.stage, x.in[1].kind)
  <2>1. /\ y.stage = f.next /\ y.in = Rest(x.in) /\ y.seqIn = x.seqIn + 1
        /\ y.seqOut = IF f.out = "nothing" THEN x.seqOut ELSE x.seqOut + 1
        /\ y.out = IF f.out = "nothing" THEN x.out ELSE Tls!Record(f.out, x.seqOut, 0, 2)
    <3> HIDE DEF f
    <3>1. y = [x EXCEPT !.stage = f.next,
                        !.in = SubSeq(x.in, x.in[1].of + 1, Len(x.in)),
                        !.seqIn = @ + 1,
                        !.seqOut = IF f.out = "nothing" THEN @ ELSE @ + 1,
                        !.out = IF f.out = "nothing" THEN @ ELSE Tls!Record(f.out, x.seqOut, 0, 2)]
      BY <1>4 DEF Tls!HandshakeStep, f
    <3> HIDE DEF y
    <3> QED  BY <3>1 DEF States, Rest
  <2> HIDE DEF y
  <2>2. x.in \in Seq(Tls!Units(Tls!Peer(e), K)) /\ x.seqIn \in Nat \ {0} /\ x.stage \in Tls!Stages
    BY DEF States
  <2> DEFINE s == x.in
             q == x.seqIn
  <2>3. x.in[1].kind = Tls!KindOf(Tls!Peer(e), x.seqIn)
    <3>1. s \in Seq(Tls!Units(Tls!Peer(e), K)) /\ q \in Nat \ {0} /\ Tls!IsWhole(s)
            /\ ~Tls!IsBad(s, q)
      BY <1>4, <2>2
    <3> HIDE DEF s, q
    <3>2. s[1].kind = Tls!KindOf(Tls!Peer(e), q)
      BY <3>1, NextRecord
    <3> QED  BY <3>2 DEF s, q
  <2>4. ReadsRecord(x, y)
    BY <1>4, <2>1 DEF ReadsRecord
  <2>5. CASE x.stage = "new"
    <3>1. f.next = "failed" /\ f.out = "nothing"
      BY <2>5 DEF Tls!Flight
    <3> QED  BY <2>1, <2>4, <2>5, <3>1 DEF Outcome, WritesNothing
  <2>6. CASE x.stage = "wait_ch"
    <3>1. e = "server" /\ x.seqIn = 1
      BY <2>6 DEF Tls!AtStage
    <3>2. x.in[1].kind = "ch"
      BY <2>3, <3>1 DEF Tls!KindOf, Tls!Peer
    <3>3. f = [out |-> "sh", next |-> "wait_fin"]
      BY <2>6, <3>2 DEF Tls!Flight
    <3> QED  BY <2>1, <2>4, <2>6, <3>3 DEF Outcome, WritesRecord
  <2>7. CASE x.stage = "wait_sh"
    <3>1. e = "client" /\ x.seqIn = 1
      BY <2>7 DEF Tls!AtStage
    <3>2. x.in[1].kind = "sh"
      BY <2>3, <3>1 DEF Tls!KindOf, Tls!Peer
    <3>3. f = [out |-> "fin", next |-> IF version = "1.3" THEN "done" ELSE "wait_sfin"]
      BY <2>7, <3>2 DEF Tls!Flight
    <3>4. f.out = "fin" /\ f.next = IF version = "1.3" THEN "done" ELSE "wait_sfin"
      BY <3>3
    <3> QED  BY <2>1, <2>4, <2>7, <3>4 DEF Outcome, WritesRecord
  <2>8. CASE x.stage = "wait_fin"
    <3>1. e = "server" /\ x.seqIn = 2
      BY <2>8 DEF Tls!AtStage
    <3>2. x.in[1].kind = "fin"
      BY <2>3, <3>1 DEF Tls!KindOf, Tls!Peer
    <3>3. f = [out |-> IF version = "1.3" THEN "ticket" ELSE "sfin", next |-> "done"]
      BY <2>8, <3>2 DEF Tls!Flight
    <3>4. /\ f.next = "done" /\ f.out = (IF version = "1.3" THEN "ticket" ELSE "sfin")
          /\ f.out # "nothing"
      BY <3>3
    <3> QED  BY <2>1, <2>4, <2>8, <3>4 DEF Outcome, WritesRecord
  <2>9. CASE x.stage = "wait_sfin"
    <3>1. e = "client" /\ x.seqIn = 2 /\ version = "1.2"
      BY <2>9 DEF Tls!AtStage
    <3>2. x.in[1].kind = "sfin"
      BY <2>3, <3>1 DEF Tls!KindOf, Tls!Peer
    <3>3. f = [out |-> "nothing", next |-> "done"]
      BY <2>9, <3>2 DEF Tls!Flight
    <3> QED  BY <2>1, <2>4, <2>9, <3>3 DEF Outcome, WritesNothing
  <2> QED  BY <1>4, <2>2, <2>5, <2>6, <2>7, <2>8, <2>9 DEF Tls!Stages
<1> QED  BY <1>1, <1>2, <1>3, <1>4

\* And leaves a state of the same shape.
LEMMA HandshakeShape ==
    ASSUME NEW e, NEW K, NEW x \in States(e, K)
    PROVE  LET y == Tls!HandshakeStep(x)
           IN  y = [stage |-> y.stage, out |-> y.out, in |-> y.in, seqIn |-> y.seqIn,
                    seqOut |-> y.seqOut]
<1> DEFINE y == Tls!HandshakeStep(x)
<1> SUFFICES y = [stage |-> y.stage, out |-> y.out, in |-> y.in, seqIn |-> y.seqIn,
                  seqOut |-> y.seqOut]
  OBVIOUS
<1>1. \/ y = x
      \/ y = [x EXCEPT !.stage = "failed"]
      \/ \E next, in, seqIn, seqOut, out :
           y = [x EXCEPT !.stage = next, !.in = in, !.seqIn = seqIn, !.seqOut = seqOut, !.out = out]
  <2>1. CASE x.stage \in {"done", "failed"}
    BY <2>1 DEF Tls!HandshakeStep
  <2>2. CASE x.stage \notin {"done", "failed"} /\ Tls!IsBad(x.in, x.seqIn)
    BY <2>2 DEF Tls!HandshakeStep
  <2>3. CASE x.stage \notin {"done", "failed"} /\ ~Tls!IsBad(x.in, x.seqIn) /\ ~Tls!IsWhole(x.in)
    BY <2>3 DEF Tls!HandshakeStep
  <2>4. CASE x.stage \notin {"done", "failed"} /\ ~Tls!IsBad(x.in, x.seqIn) /\ Tls!IsWhole(x.in)
    <3> DEFINE f == Tls!Flight(x.stage, x.in[1].kind)
               next == f.next
               in == SubSeq(x.in, x.in[1].of + 1, Len(x.in))
               seqIn == x.seqIn + 1
               seqOut == IF f.out = "nothing" THEN x.seqOut ELSE x.seqOut + 1
               out == IF f.out = "nothing" THEN x.out ELSE Tls!Record(f.out, x.seqOut, 0, 2)
    <3>1. y = [x EXCEPT !.stage = next, !.in = in, !.seqIn = seqIn, !.seqOut = seqOut, !.out = out]
      BY <2>4 DEF Tls!HandshakeStep
    <3> HIDE DEF f, next, in, seqIn, seqOut, out, y
    <3> QED  BY <3>1
  <2> QED  BY <2>1, <2>2, <2>3, <2>4
<1> HIDE DEF y
<1>2. CASE y = x
  BY <1>2 DEF States
<1>3. CASE y = [x EXCEPT !.stage = "failed"]
  BY <1>3 DEF States
<1>4. CASE \E next, in, seqIn, seqOut, out :
             y = [x EXCEPT !.stage = next, !.in = in, !.seqIn = seqIn, !.seqOut = seqOut,
                           !.out = out]
  <2>1. PICK next, in, seqIn, seqOut, out :
           y = [x EXCEPT !.stage = next, !.in = in, !.seqIn = seqIn, !.seqOut = seqOut, !.out = out]
    BY <1>4
  <2>2. y = [stage |-> next, out |-> out, in |-> in, seqIn |-> seqIn, seqOut |-> seqOut]
    BY <2>1 DEF States
  <2> QED  BY <2>2
<1> QED  BY <1>1, <1>2, <1>3, <1>4

Sound(e, K, x) ==
    /\ x \in States(e, K) /\ x.seqIn <= K /\ Tls!AtStage(e, x.stage, x.seqIn, x.seqOut)
    /\ x.out \in Seq(Tls!Units(e, x.seqOut))

\* What an end has read and written counts the same, as far as data go.
SameCount(q, t) == q <= t /\ (q = t \/ t <= 3)

\* What holds of a state holds after the call.
LEMMA HandshakeKeeps ==
    ASSUME version \in {"1.2", "1.3"}, NEW e \in Tls!Ends, NEW K \in Nat, NEW x, Sound(e, K, x),
           NEW y, Outcome(x, y),
           y = [stage |-> y.stage, out |-> y.out, in |-> y.in, seqIn |-> y.seqIn,
                seqOut |-> y.seqOut]
    PROVE  /\ Sound(e, K, y) /\ SameCount(x.seqOut, y.seqOut) /\ SameCount(x.seqIn, y.seqIn)
           /\ \/ y.stage \in {"done", "failed"} \/ ~Tls!IsWhole(y.in)
              \/ x.stage = "wait_ch" /\ y.stage = "wait_fin"
              \/ x.stage = "wait_sh" /\ y.stage = "wait_sfin"
<1>1. /\ x.in \in Seq(Tls!Units(Tls!Peer(e), K)) /\ x.seqIn \in Nat \ {0}
           /\ x.seqOut \in Nat \ {0}
      /\ x.stage \in Tls!Stages /\ x.out \in Seq(Tls!AnyUnit) /\ x.seqIn <= K
      /\ Tls!AtStage(e, x.stage, x.seqIn, x.seqOut) /\ x.out \in Seq(Tls!Units(e, x.seqOut))
  BY DEF Sound, States
<1> DEFINE s == x.in
           q == x.seqIn
           o == x.seqOut
<1>2. ASSUME ReadsNothing(x, y)
      PROVE  y.in = s /\ y.seqIn = q /\ y.in \in Seq(Tls!Units(Tls!Peer(e), K))
               /\ y.seqIn \in Nat \ {0}
             /\ y.seqIn <= K /\ SameCount(x.seqIn, y.seqIn)
  BY <1>1, <1>2 DEF ReadsNothing, SameCount
<1>3. ASSUME ReadsRecord(x, y)
      PROVE  /\ y.in \in Seq(Tls!Units(Tls!Peer(e), K)) /\ y.seqIn = q + 1
                  /\ y.seqIn \in Nat \ {0}
             /\ y.seqIn <= K
  <2>1. Tls!IsWhole(s) /\ ~Tls!IsBad(s, q) /\ y.in = Rest(s) /\ y.seqIn = q + 1
    BY <1>3 DEF ReadsRecord
  <2>2. s \in Seq(Tls!Units(Tls!Peer(e), K)) /\ q \in Nat \ {0}
    BY <1>1
  <2> HIDE DEF s, q
  <2>3. q < K
    BY <2>1, <2>2, NextRecord
  <2>4. Rest(s) \in Seq(Tls!Units(Tls!Peer(e), K))
    BY <2>1, <2>2, TwoEnds, RecordTaken DEF Rest
  <2> QED  BY <2>1, <2>2, <2>3, <2>4
<1>4. ASSUME WritesNothing(x, y)
      PROVE  /\ y.out \in Seq(Tls!AnyUnit) /\ y.out \in Seq(Tls!Units(e, y.seqOut))
                  /\ y.seqOut = o
             /\ y.seqOut \in Nat \ {0} /\ SameCount(x.seqOut, y.seqOut)
  BY <1>1, <1>4 DEF WritesNothing, SameCount
<1>5. ASSUME NEW k, WritesRecord(x, y, k), o <= 2, k = Tls!KindOf(e, o)
      PROVE  /\ y.out \in Seq(Tls!AnyUnit) /\ y.out \in Seq(Tls!Units(e, y.seqOut))
                  /\ y.seqOut = o + 1
             /\ y.seqOut \in Nat \ {0} /\ SameCount(x.seqOut, y.seqOut)
  <2>1. y.out = Tls!Record(k, o, 0, 2) /\ y.seqOut = o + 1
    BY <1>5 DEF WritesRecord
  <2>2. o \in Nat \ {0}
    BY <1>1
  <2>3. SameCount(x.seqOut, y.seqOut)
    BY <1>5, <2>1, <2>2 DEF SameCount
  <2> DEFINE n == 0
             z == 2
  <2>4. n = (IF o <= 2 THEN 0 ELSE Tls!Given(e, o - 3)) /\ z = Tls!Size(e, o)
    BY <1>5 DEF Tls!Size
  <2> HIDE DEF o, n, z
  <2>5. Tls!Record(k, o, n, z) \in Seq(Tls!Units(e, o + 1))
    BY <1>5, <2>2, <2>4, RecordWritten
  <2>6. y.out \in Seq(Tls!Units(e, o + 1))
    BY <2>1, <2>5 DEF n, z
  <2>7. y.out \in Seq(Tls!AnyUnit)
    BY <2>6, UnitsAreUnits
  <2> QED  BY <2>1, <2>2, <2>3, <2>6, <2>7
<1>6. ASSUME y.in \in Seq(Tls!Units(Tls!Peer(e), K)), y.seqIn \in Nat \ {0}, y.seqIn <= K,
             y.out \in Seq(Tls!AnyUnit), y.out \in Seq(Tls!Units(e, y.seqOut)),
             y.seqOut \in Nat \ {0},
             y.stage \in Tls!Stages, Tls!AtStage(e, y.stage, y.seqIn, y.seqOut)
      PROVE  Sound(e, K, y)
  BY <1>6 DEF Sound, States
<1>7. CASE /\ ReadsNothing(x, y) /\ WritesNothing(x, y) /\ y.stage = x.stage
           /\ x.stage \in {"done", "failed"} \/ ~Tls!IsWhole(x.in)
  <2>1. Tls!AtStage(e, y.stage, y.seqIn, y.seqOut) /\ y.stage \in Tls!Stages
    BY <1>1, <1>2, <1>4, <1>7
  <2>2. y.stage \in {"done", "failed"} \/ ~Tls!IsWhole(y.in)
    BY <1>2, <1>7
  <2> QED  BY <1>2, <1>4, <1>6, <1>7, <2>1, <2>2
<1>8. CASE /\ ReadsNothing(x, y) /\ WritesNothing(x, y) /\ y.stage = "failed"
           /\ Tls!IsBad(x.in, x.seqIn)
  <2>1. Tls!AtStage(e, y.stage, y.seqIn, y.seqOut) /\ y.stage \in Tls!Stages
    BY <1>8 DEF Tls!AtStage, Tls!Stages
  <2> QED  BY <1>2, <1>4, <1>6, <1>8, <2>1
<1>9. CASE /\ ReadsRecord(x, y) /\ WritesNothing(x, y)
           /\ x.stage = "new" /\ y.stage = "failed"
  <2>1. Tls!AtStage(e, y.stage, y.seqIn, y.seqOut) /\ y.stage \in Tls!Stages
    BY <1>9 DEF Tls!AtStage, Tls!Stages
  <2>2. SameCount(x.seqIn, y.seqIn)
    BY <1>1, <1>3, <1>9 DEF Tls!AtStage, SameCount
  <2> QED  BY <1>3, <1>4, <1>6, <1>9, <2>1, <2>2
<1>10. CASE /\ ReadsRecord(x, y) /\ WritesRecord(x, y, "sh")
            /\ x.stage = "wait_ch" /\ y.stage = "wait_fin"
  <2>1. e = "server" /\ q = 1 /\ o = 1
    BY <1>1, <1>10 DEF Tls!AtStage
  <2>2. Tls!KindOf(e, o) = "sh" /\ o <= 2
    BY <2>1 DEF Tls!KindOf
  <2>3. Tls!AtStage(e, y.stage, y.seqIn, y.seqOut) /\ y.stage \in Tls!Stages
    BY <1>3, <1>5, <1>10, <2>1, <2>2 DEF Tls!AtStage, Tls!Stages
  <2>4. SameCount(x.seqIn, y.seqIn)
    BY <1>3, <1>10, <2>1 DEF SameCount
  <2> QED  BY <1>3, <1>5, <1>6, <1>10, <2>2, <2>3, <2>4
<1>11. CASE /\ ReadsRecord(x, y) /\ WritesRecord(x, y, "fin")
            /\ x.stage = "wait_sh" /\ y.stage = (IF version = "1.3" THEN "done" ELSE "wait_sfin")
  <2>1. e = "client" /\ q = 1 /\ o = 2
    BY <1>1, <1>11 DEF Tls!AtStage
  <2>2. Tls!KindOf(e, o) = "fin" /\ o <= 2
    BY <2>1 DEF Tls!KindOf
  <2>3. Tls!AtStage(e, y.stage, y.seqIn, y.seqOut) /\ y.stage \in Tls!Stages
    BY <1>3, <1>5, <1>11, <2>1, <2>2 DEF Tls!AtStage, Tls!Stages
  <2>4. SameCount(x.seqIn, y.seqIn)
    BY <1>3, <1>11, <2>1 DEF SameCount
  <2> QED  BY <1>3, <1>5, <1>6, <1>11, <2>2, <2>3, <2>4
<1>12. CASE /\ ReadsRecord(x, y)
            /\ WritesRecord(x, y, IF version = "1.3" THEN "ticket" ELSE "sfin")
            /\ x.stage = "wait_fin" /\ y.stage = "done"
  <2>1. e = "server" /\ q = 2 /\ o = 2
    BY <1>1, <1>12 DEF Tls!AtStage
  <2>2. Tls!KindOf(e, o) = (IF version = "1.3" THEN "ticket" ELSE "sfin") /\ o <= 2
    BY <2>1 DEF Tls!KindOf
  <2>3. Tls!AtStage(e, y.stage, y.seqIn, y.seqOut) /\ y.stage \in Tls!Stages
    BY <1>3, <1>5, <1>12, <2>1, <2>2 DEF Tls!AtStage, Tls!Stages
  <2>4. SameCount(x.seqIn, y.seqIn)
    BY <1>3, <1>12, <2>1 DEF SameCount
  <2> QED  BY <1>3, <1>5, <1>6, <1>12, <2>2, <2>3, <2>4
<1>13. CASE /\ ReadsRecord(x, y) /\ WritesNothing(x, y)
            /\ x.stage = "wait_sfin" /\ y.stage = "done"
  <2>1. e = "client" /\ q = 2 /\ o = 3
    BY <1>1, <1>13 DEF Tls!AtStage
  <2>2. Tls!AtStage(e, y.stage, y.seqIn, y.seqOut) /\ y.stage \in Tls!Stages
    BY <1>3, <1>4, <1>13, <2>1 DEF Tls!AtStage, Tls!Stages
  <2>3. SameCount(x.seqIn, y.seqIn)
    BY <1>3, <1>13, <2>1 DEF SameCount
  <2> QED  BY <1>3, <1>4, <1>6, <1>13, <2>2, <2>3
<1> QED  BY <1>7, <1>8, <1>9, <1>10, <1>11, <1>12, <1>13 DEF Outcome

\* Nothing fails that reads in place, and what it writes follows in its own
\* stream.
Straight(e, x) == x.stage # "failed"
    /\ Tls!InPlace(Tls!Peer(e), x.in, Tls!Start(Tls!Peer(e), x.seqIn))

WritesNext(e, x, y) ==
    /\ Tls!InPlace(e, y.out, Tls!Start(e, x.seqOut))
         /\ Len(y.out) + Tls!Start(e, x.seqOut) = Tls!Start(e, y.seqOut)
    /\ x.seqOut <= 2

\* Of a state that reads in place, one call leaves one that does.
LEMMA HandshakeStraight ==
    ASSUME version \in {"1.2", "1.3"}, NEW e \in Tls!Ends, NEW K \in Nat, NEW x, Sound(e, K, x),
           NEW y, Outcome(x, y), Straight(e, x), x.stage = "new" => K = 1
    PROVE  /\ Straight(e, y) /\ Len(y.in) + Tls!Start(Tls!Peer(e), y.seqIn)
                  = Len(x.in) + Tls!Start(Tls!Peer(e), x.seqIn)
           /\ \/ /\ ReadsNothing(x, y) /\ WritesNothing(x, y) /\ y.stage = x.stage
                 /\ x.stage = "done" \/ ~Tls!IsWhole(x.in)
              \/ /\ x.stage = "wait_ch" /\ y.stage = "wait_fin" /\ y.seqIn = 2
                 /\ WritesNext(e, x, y)
              \/ /\ x.stage = "wait_sh" /\ y.stage \in {"done", "wait_sfin"} /\ y.seqIn = 2
                 /\ WritesNext(e, x, y)
              \/ /\ x.stage = "wait_fin" /\ y.stage = "done" /\ y.seqIn = 3 /\ e = "server"
                 /\ WritesNext(e, x, y)
              \/ x.stage = "wait_sfin" /\ y.stage = "done" /\ WritesNothing(x, y)
<1>1. /\ x.in \in Seq(Tls!Units(Tls!Peer(e), K)) /\ x.seqIn \in Nat \ {0}
           /\ x.seqOut \in Nat \ {0}
      /\ Tls!AtStage(e, x.stage, x.seqIn, x.seqOut)
      /\ x.stage # "failed" /\ Tls!InPlace(Tls!Peer(e), x.in, Tls!Start(Tls!Peer(e), x.seqIn))
  BY DEF Sound, States, Straight
<1> DEFINE s == x.in
           q == x.seqIn
           o == x.seqOut
<1>2. ~Tls!IsBad(x.in, x.seqIn)
  <2>1. s \in Seq(Tls!Units(Tls!Peer(e), K)) /\ q \in Nat \ {0}
            /\ Tls!InPlace(Tls!Peer(e), s, Tls!Start(Tls!Peer(e), q))
    BY <1>1
  <2> HIDE DEF s, q
  <2>2. ~Tls!IsBad(s, q)
    BY <2>1, TwoEnds, InPlaceIsGood
  <2> QED  BY <2>2 DEF s, q
<1>3. ASSUME ReadsRecord(x, y)
      PROVE  /\ Tls!InPlace(Tls!Peer(e), y.in, Tls!Start(Tls!Peer(e), y.seqIn))
             /\ y.seqIn = x.seqIn + 1
             /\ Len(y.in) + Tls!Start(Tls!Peer(e), y.seqIn)
                    = Len(x.in) + Tls!Start(Tls!Peer(e), x.seqIn) /\ x.seqIn < K
  <2>1. Tls!IsWhole(s) /\ ~Tls!IsBad(s, q) /\ y.in = Rest(s) /\ y.seqIn = q + 1
    BY <1>3 DEF ReadsRecord
  <2>2. s \in Seq(Tls!Units(Tls!Peer(e), K)) /\ q \in Nat \ {0}
            /\ Tls!InPlace(Tls!Peer(e), s, Tls!Start(Tls!Peer(e), q))
    BY <1>1
  <2> HIDE DEF s, q
  <2>3. q < K
    BY <2>1, <2>2, NextRecord
  <2>4. Tls!InPlace(Tls!Peer(e), Rest(s), Tls!Start(Tls!Peer(e), q + 1))
          /\ Len(Rest(s)) + Tls!Start(Tls!Peer(e), q + 1) = Len(s) + Tls!Start(Tls!Peer(e), q)
    BY <2>1, <2>2, TwoEnds, RecordTaken DEF Rest
  <2> QED  BY <2>1, <2>3, <2>4 DEF s, q
<1>4. ASSUME NEW k, WritesRecord(x, y, k), o <= 2, k = Tls!KindOf(e, o)
      PROVE  WritesNext(e, x, y)
  <2>1. y.out = Tls!Record(k, o, 0, 2) /\ y.seqOut = o + 1
    BY <1>4 DEF WritesRecord
  <2>2. o \in Nat \ {0}
    BY <1>1
  <2> DEFINE n == 0
             z == 2
  <2>3. n = (IF o <= 2 THEN 0 ELSE Tls!Given(e, o - 3)) /\ z = Tls!Size(e, o)
    BY <1>4 DEF Tls!Size
  <2> HIDE DEF o, n, z
  <2>4. Tls!InPlace(e, Tls!Record(k, o, n, z), Tls!Start(e, o)) /\ Len(Tls!Record(k, o, n, z)) = z
    BY <1>4, <2>2, <2>3, RecordWritten
  <2>5. Tls!Start(e, o) \in Nat /\ Tls!Size(e, o) \in Nat
          /\ Tls!Start(e, o + 1) = Tls!Start(e, o) + Tls!Size(e, o)
    BY <2>2, StartsFollow
  <2>6. Tls!InPlace(e, y.out, Tls!Start(e, o)) /\ Len(y.out) = z
    BY <2>1, <2>4 DEF n, z
  <2>7. Len(y.out) + Tls!Start(e, o) = Tls!Start(e, y.seqOut)
    BY <2>1, <2>3, <2>5, <2>6
  <2> QED  BY <1>4, <2>6, <2>7 DEF WritesNext, o
<1>5. CASE /\ ReadsNothing(x, y) /\ WritesNothing(x, y) /\ y.stage = x.stage
           /\ x.stage \in {"done", "failed"} \/ ~Tls!IsWhole(x.in)
  BY <1>1, <1>5 DEF ReadsNothing, Straight
<1>6. CASE Tls!IsBad(x.in, x.seqIn)
  BY <1>2, <1>6
<1>7. CASE ReadsRecord(x, y) /\ x.stage = "new"
  <2>1. x.seqIn < K /\ K = 1
    BY <1>3, <1>7
  <2> QED  BY <1>1, <2>1
<1>8. CASE /\ ReadsRecord(x, y) /\ WritesRecord(x, y, "sh")
           /\ x.stage = "wait_ch" /\ y.stage = "wait_fin"
  <2>1. e = "server" /\ q = 1 /\ o = 1
    BY <1>1, <1>8 DEF Tls!AtStage
  <2>2. Tls!KindOf(e, o) = "sh" /\ o <= 2
    BY <2>1 DEF Tls!KindOf
  <2>3. WritesNext(e, x, y)
    BY <1>4, <1>8, <2>2
  <2> QED  BY <1>3, <1>8, <2>1, <2>3 DEF Straight
<1>9. CASE /\ ReadsRecord(x, y) /\ WritesRecord(x, y, "fin")
           /\ x.stage = "wait_sh" /\ y.stage = (IF version = "1.3" THEN "done" ELSE "wait_sfin")
  <2>1. e = "client" /\ q = 1 /\ o = 2
    BY <1>1, <1>9 DEF Tls!AtStage
  <2>2. Tls!KindOf(e, o) = "fin" /\ o <= 2
    BY <2>1 DEF Tls!KindOf
  <2>3. WritesNext(e, x, y)
    BY <1>4, <1>9, <2>2
  <2> QED  BY <1>3, <1>9, <2>1, <2>3 DEF Straight
<1>10. CASE /\ ReadsRecord(x, y)
            /\ WritesRecord(x, y, IF version = "1.3" THEN "ticket" ELSE "sfin")
            /\ x.stage = "wait_fin" /\ y.stage = "done"
  <2>1. e = "server" /\ q = 2 /\ o = 2
    BY <1>1, <1>10 DEF Tls!AtStage
  <2>2. Tls!KindOf(e, o) = (IF version = "1.3" THEN "ticket" ELSE "sfin") /\ o <= 2
    BY <2>1 DEF Tls!KindOf
  <2>3. WritesNext(e, x, y)
    BY <1>4, <1>10, <2>2
  <2> QED  BY <1>3, <1>10, <2>1, <2>3 DEF Straight
<1>11. CASE /\ ReadsRecord(x, y) /\ WritesNothing(x, y)
            /\ x.stage = "wait_sfin" /\ y.stage = "done"
  BY <1>3, <1>11 DEF Straight
<1> QED  BY <1>5, <1>6, <1>7, <1>8, <1>9, <1>10, <1>11 DEF Outcome

\* In place, with no record of the peer's left, is empty.
LEMMA NoneLeft ==
    ASSUME NEW e \in Tls!Ends, NEW K \in Nat, NEW x, Sound(e, K, x), Straight(e, x),
           K <= x.seqIn
    PROVE  x.in = <<>> /\ ~Tls!IsWhole(x.in)
<1> DEFINE s == x.in
           q == x.seqIn
<1>1. s \in Seq(Tls!Units(Tls!Peer(e), K)) /\ q \in Nat \ {0}
          /\ Tls!InPlace(Tls!Peer(e), s, Tls!Start(Tls!Peer(e), q))
        /\ K <= q
  BY DEF Sound, States, Straight
<1> HIDE DEF s, q
<1>2. s = <<>>
  <2>1. SUFFICES ASSUME s # <<>> PROVE FALSE
    OBVIOUS
  <2>2. q < K
    BY <1>1, <2>1, TwoEnds, InPlaceFirst
  <2> QED  BY <1>1, <2>2
<1>3. ~Tls!IsWhole(s)
  BY <1>2 DEF Tls!IsWhole
<1> QED  BY <1>2, <1>3 DEF s

\* Both calls of readData, of an end that has not thrown anything away: bounds
\* says what the peer can have written at its stage.
PeerIsBehind(stage, K) ==
    /\ stage = "new" => K = 1
    /\ stage \in {"wait_ch", "wait_sh"} => K <= 2
    /\ stage = "wait_fin" /\ version = "1.2" => K <= 3

\* So do both calls of readData.
LEMMA TwoCalls ==
    ASSUME version \in {"1.2", "1.3"}, NEW e \in Tls!Ends, NEW K \in Nat, NEW w, Sound(e, K, w),
           NEW y, Sound(e, K, y), Outcome(w, y), NEW x, Outcome(y, x),
           Straight(e, w), w.out = <<>>, w.stage # "done", PeerIsBehind(w.stage, K)
    PROVE  /\ Straight(e, x) /\ Len(x.in) + Tls!Start(Tls!Peer(e), x.seqIn)
                  = Len(w.in) + Tls!Start(Tls!Peer(e), w.seqIn)
           /\ Tls!InPlace(e, x.out, Tls!Start(e, w.seqOut))
                /\ Len(x.out) + Tls!Start(e, w.seqOut) = Tls!Start(e, x.seqOut)
           /\ x.stage = "done" /\ x.out # <<>> => x.in = <<>> \/ (e = "server" /\ version = "1.3")
           /\ x.stage = "done" /\ version = "1.3" => x.in = <<>> \/ e = "server"
<1>1. /\ w.seqIn \in Nat \ {0} /\ w.seqOut \in Nat \ {0}
      /\ Tls!AtStage(e, w.stage, w.seqIn, w.seqOut)
  BY DEF Sound, States
<1>2. Tls!Start(e, w.seqOut) \in Nat
  <2> DEFINE o == w.seqOut
  <2>1. o \in Nat \ {0}
    BY <1>1
  <2> HIDE DEF o
  <2>2. Tls!Start(e, o) \in Nat
    BY <2>1, StartsFollow
  <2> QED  BY <2>2 DEF o
<1>3. w.stage = "new" => K = 1
  BY DEF PeerIsBehind
<1>4. /\ Straight(e, y) /\ Len(y.in) + Tls!Start(Tls!Peer(e), y.seqIn)
             = Len(w.in) + Tls!Start(Tls!Peer(e), w.seqIn)
      /\ \/ /\ ReadsNothing(w, y) /\ WritesNothing(w, y) /\ y.stage = w.stage
            /\ w.stage = "done" \/ ~Tls!IsWhole(w.in)
         \/ /\ w.stage = "wait_ch" /\ y.stage = "wait_fin" /\ y.seqIn = 2
            /\ WritesNext(e, w, y)
         \/ /\ w.stage = "wait_sh" /\ y.stage \in {"done", "wait_sfin"} /\ y.seqIn = 2
            /\ WritesNext(e, w, y)
         \/ /\ w.stage = "wait_fin" /\ y.stage = "done" /\ y.seqIn = 3 /\ e = "server"
            /\ WritesNext(e, w, y)
         \/ w.stage = "wait_sfin" /\ y.stage = "done" /\ WritesNothing(w, y)
  BY <1>3, HandshakeStraight
<1>5. y.stage = "new" => K = 1
  BY <1>3, <1>4
<1>6. /\ Straight(e, x) /\ Len(x.in) + Tls!Start(Tls!Peer(e), x.seqIn)
             = Len(y.in) + Tls!Start(Tls!Peer(e), y.seqIn)
      /\ \/ ReadsNothing(y, x) /\ WritesNothing(y, x) /\ x.stage = y.stage
         \/ y.stage \in {"wait_ch", "wait_sh", "wait_fin", "wait_sfin"}
  <2>1. \/ /\ ReadsNothing(y, x) /\ WritesNothing(y, x) /\ x.stage = y.stage
           /\ y.stage = "done" \/ ~Tls!IsWhole(y.in)
        \/ y.stage \in {"wait_ch", "wait_sh", "wait_fin", "wait_sfin"}
    BY <1>4, <1>5, HandshakeStraight
  <2>2. /\ Straight(e, x) /\ Len(x.in) + Tls!Start(Tls!Peer(e), x.seqIn)
               = Len(y.in) + Tls!Start(Tls!Peer(e), y.seqIn)
    BY <1>4, <1>5, HandshakeStraight
  <2> QED  BY <2>1, <2>2
<1>7. ASSUME ~Tls!IsWhole(y.in) \/ y.stage = "done"
      PROVE  ReadsNothing(y, x) /\ WritesNothing(y, x) /\ x.stage = y.stage
  <2>1. x.stage # "failed"
    BY <1>6 DEF Straight
  <2>2. CASE ~Tls!IsWhole(y.in)
    BY <2>1, <2>2 DEF Outcome, ReadsRecord
  <2>3. CASE y.stage = "done"
    BY <2>1, <2>3 DEF Outcome
  <2> QED  BY <1>7, <2>2, <2>3
<1>8. ASSUME WritesNothing(w, y), ReadsNothing(y, x) /\ WritesNothing(y, x) /\ x.stage = y.stage
      PROVE  x.out = <<>> /\ Tls!InPlace(e, x.out, Tls!Start(e, w.seqOut))
             /\ Len(x.out) + Tls!Start(e, w.seqOut) = Tls!Start(e, x.seqOut)
  <2>1. x.out = <<>> /\ x.seqOut = w.seqOut
    BY <1>8 DEF WritesNothing
  <2>2. Len(x.out) = 0 /\ Tls!InPlace(e, x.out, Tls!Start(e, w.seqOut))
    BY <2>1 DEF Tls!InPlace
  <2> QED  BY <1>2, <2>1, <2>2
<1>9. ASSUME WritesNext(e, w, y), ReadsNothing(y, x) /\ WritesNothing(y, x) /\ x.stage = y.stage
      PROVE  Tls!InPlace(e, x.out, Tls!Start(e, w.seqOut))
               /\ Len(x.out) + Tls!Start(e, w.seqOut) = Tls!Start(e, x.seqOut)
  BY <1>9 DEF WritesNext, WritesNothing
<1>10. CASE /\ ReadsNothing(w, y) /\ WritesNothing(w, y) /\ y.stage = w.stage
            /\ w.stage = "done" \/ ~Tls!IsWhole(w.in)
  <2>1. ~Tls!IsWhole(y.in)
    BY <1>10 DEF ReadsNothing
  <2> QED  BY <1>4, <1>6, <1>7, <1>8, <1>10, <2>1
<1>11. CASE /\ w.stage = "wait_ch" /\ y.stage = "wait_fin" /\ y.seqIn = 2
            /\ WritesNext(e, w, y)
  <2>1. y.in = <<>> /\ ~Tls!IsWhole(y.in)
    BY <1>4, <1>11, NoneLeft DEF PeerIsBehind
  <2>2. x.stage # "done"
    BY <1>7, <1>11, <2>1
  <2> QED  BY <1>4, <1>6, <1>7, <1>9, <1>11, <2>1, <2>2
<1>12. CASE /\ w.stage = "wait_sh" /\ y.stage \in {"done", "wait_sfin"} /\ y.seqIn = 2
            /\ WritesNext(e, w, y)
  <2>1. y.in = <<>> /\ ~Tls!IsWhole(y.in)
    BY <1>4, <1>12, NoneLeft DEF PeerIsBehind
  <2>2. x.in = <<>>
    BY <1>7, <2>1 DEF ReadsNothing
  <2> QED  BY <1>4, <1>6, <1>7, <1>9, <1>12, <2>1, <2>2
<1>13. CASE /\ w.stage = "wait_fin" /\ y.stage = "done" /\ y.seqIn = 3 /\ e = "server"
            /\ WritesNext(e, w, y)
  <2>1. version = "1.2" => x.in = <<>>
    <3>1. version = "1.2" => y.in = <<>>
      BY <1>4, <1>13, NoneLeft DEF PeerIsBehind
    <3> QED  BY <1>7, <1>13, <3>1 DEF ReadsNothing
  <2> QED  BY <1>4, <1>6, <1>7, <1>9, <1>13, <2>1
<1>14. CASE w.stage = "wait_sfin" /\ y.stage = "done" /\ WritesNothing(w, y)
  <2>1. version # "1.3"
    BY <1>1, <1>14 DEF Tls!AtStage
  <2> QED  BY <1>4, <1>6, <1>7, <1>8, <1>14, <2>1
<1> QED  BY <1>4, <1>10, <1>11, <1>12, <1>13, <1>14

-----------------------------------------------------------------------------
(* A step of one end. *)

SslState ==
    [stage : Tls!Stages, part : Seq(Tls!AnyUnit), seqIn : Nat \ {0}, seqOut : Nat \ {0},
     plain : Seq(Nat)]

\* Units of a record do not change.
LEMMA UnitsStay ==
    ASSUME version' = version, NEW p, NEW K
    PROVE  Tls!Units(p, K)' = Tls!Units(p, K)
BY DEF Tls!Units, Tls!UnitOf, Tls!KindOf

\* What is on its way, once n units have been read and o sent.
Sends(e, n, o) ==
    tWire' = [tWire EXCEPT ![e] = SubSeq(tWire[e], n + 1, Len(tWire[e])), ![Tls!Peer(e)] = @ \o o]

\* End e goes from ssl[e] to v, with b in its read BIO, having read n units and
\* sent o.
StepTaken(e, n, v, b, o) ==
    /\ version' = version
    /\ ssl' = [ssl EXCEPT ![e] = v] /\ rbio_' = [rbio_ EXCEPT ![e] = b]
    /\ Sends(e, n, o)

\* What such a step changes, and what it leaves.
LEMMA StepTakenFacts ==
    ASSUME Tls!ShapeInv, NEW e \in Tls!Ends, NEW n \in 0..Len(tWire[e]), NEW v \in SslState,
           NEW b \in Seq(Tls!AnyUnit), NEW o \in Seq(Tls!AnyUnit), StepTaken(e, n, v, b, o)
    PROVE  /\ ssl' \in [Tls!Ends -> SslState] /\ ssl'[e] = v
                /\ ssl'[Tls!Peer(e)] = ssl[Tls!Peer(e)]
           /\ rbio_' \in [Tls!Ends -> Seq(Tls!AnyUnit)] /\ rbio_'[e] = b
           /\ rbio_'[Tls!Peer(e)] = rbio_[Tls!Peer(e)]
           /\ tWire' \in [Tls!Ends -> Seq(Tls!AnyUnit)]
           /\ tWire'[e] = SubSeq(tWire[e], n + 1, Len(tWire[e]))
           /\ tWire'[Tls!Peer(e)] = tWire[Tls!Peer(e)] \o o
<1>1. /\ ssl \in [Tls!Ends -> SslState] /\ rbio_ \in [Tls!Ends -> Seq(Tls!AnyUnit)]
      /\ tWire \in [Tls!Ends -> Seq(Tls!AnyUnit)]
  BY DEF Tls!ShapeInv, SslState
<1>2. Tls!Peer(e) \in Tls!Ends /\ Tls!Peer(e) # e /\ \A x \in Tls!Ends : x = e \/ x = Tls!Peer(e)
  BY TwoEnds
<1>3. /\ ssl' \in [Tls!Ends -> SslState] /\ ssl'[e] = v /\ ssl'[Tls!Peer(e)] = ssl[Tls!Peer(e)]
  BY <1>1, <1>2 DEF StepTaken
<1>4. /\ rbio_' \in [Tls!Ends -> Seq(Tls!AnyUnit)] /\ rbio_'[e] = b
           /\ rbio_'[Tls!Peer(e)] = rbio_[Tls!Peer(e)]
  BY <1>1, <1>2 DEF StepTaken
<1> DEFINE rest == SubSeq(tWire[e], n + 1, Len(tWire[e]))
           more == tWire[Tls!Peer(e)] \o o
<1>5. rest \in Seq(Tls!AnyUnit)
  <2> DEFINE w == tWire[e]
  <2>1. w \in Seq(Tls!AnyUnit) /\ n \in 0..Len(w)
    BY <1>1
  <2> HIDE DEF w
  <2>2. SubSeq(w, n + 1, Len(w)) \in Seq(Tls!AnyUnit)
    BY <2>1, Beheaded
  <2> QED  BY <2>2 DEF w
<1>6. more \in Seq(Tls!AnyUnit)
  BY <1>1, <1>2
<1>7. tWire' = [tWire EXCEPT ![e] = rest, ![Tls!Peer(e)] = more]
  BY <1>2 DEF StepTaken, Sends
<1> HIDE DEF rest, more
<1>8. tWire' \in [Tls!Ends -> Seq(Tls!AnyUnit)] /\ tWire'[e] = rest /\ tWire'[Tls!Peer(e)] = more
  BY <1>1, <1>2, <1>5, <1>6, <1>7
<1> QED  BY <1>3, <1>4, <1>8 DEF rest, more

\* It keeps the shape of the state, the units and the stages.
LEMMA StepKeeps ==
    ASSUME Tls!ShapeInv, Tls!UnitsInv, Tls!StageInv, NEW e \in Tls!Ends, NEW K \in Nat,
           K = ssl[Tls!Peer(e)].seqOut,
           NEW n \in 0..Len(tWire[e]), NEW v \in SslState,
           NEW b \in Seq(Tls!Units(Tls!Peer(e), K)),
           NEW o \in Seq(Tls!Units(e, v.seqOut)), StepTaken(e, n, v, b, o),
           v.part \in Seq(Tls!Units(Tls!Peer(e), K)), ssl[e].seqOut <= v.seqOut,
           Tls!AtStage(e, v.stage, v.seqIn, v.seqOut), v.seqIn <= K,
           tSent' \in [Tls!Ends -> Nat], tSent'[Tls!Peer(e)] = tSent[Tls!Peer(e)],
           tSent'[e] * Tls!Records(e) = Tls!Count(v.seqOut),
           got' \in [Tls!Ends -> Seq(Nat)]
    PROVE  Tls!ShapeInv' /\ Tls!UnitsInv' /\ Tls!StageInv'
<1> DEFINE p == Tls!Peer(e)
<1>1. p \in Tls!Ends /\ p # e /\ Tls!Peer(p) = e /\ \A x \in Tls!Ends : x = e \/ x = p
  BY TwoEnds
<1>2. b \in Seq(Tls!AnyUnit) /\ o \in Seq(Tls!AnyUnit)
  BY UnitsAreUnits
<1>3. /\ ssl' \in [Tls!Ends -> SslState] /\ ssl'[e] = v /\ ssl'[p] = ssl[p]
      /\ rbio_' \in [Tls!Ends -> Seq(Tls!AnyUnit)] /\ rbio_'[e] = b /\ rbio_'[p] = rbio_[p]
      /\ tWire' \in [Tls!Ends -> Seq(Tls!AnyUnit)]
      /\ tWire'[e] = SubSeq(tWire[e], n + 1, Len(tWire[e])) /\ tWire'[p] = tWire[p] \o o
  <2>1. StepTaken(e, n, v, b, o) /\ Tls!ShapeInv
    OBVIOUS
  <2> QED  BY ONLY <1>2, <2>1, StepTakenFacts, e \in Tls!Ends, n \in 0..Len(tWire[e]),
                   v \in SslState
<1>4. ssl \in [Tls!Ends -> SslState] /\ version \in {"1.2", "1.3"} /\ version' = version
  BY DEF Tls!ShapeInv, SslState, StepTaken
<1>5. Tls!ShapeInv'
  BY <1>3, <1>4 DEF Tls!ShapeInv, SslState
<1>6. /\ v.seqOut \in Nat /\ ssl[e].seqOut \in Nat /\ ssl[p].seqIn \in Nat
      /\ ssl[p].seqIn <= ssl[e].seqOut
  BY <1>1, <1>4 DEF Tls!StageInv, SslState
<1>7. Tls!StageInv'
  <2>1. /\ Tls!AtStage(e, v.stage, v.seqIn, v.seqOut)'
        /\ Tls!AtStage(p, ssl[p].stage, ssl[p].seqIn, ssl[p].seqOut)'
    <3>1. Tls!AtStage(e, v.stage, v.seqIn, v.seqOut)'
      BY <1>4 DEF Tls!AtStage
    <3>2. Tls!AtStage(p, ssl[p].stage, ssl[p].seqIn, ssl[p].seqOut)
      BY <1>1 DEF Tls!StageInv
    <3> QED  BY <1>3, <1>4, <3>1, <3>2 DEF Tls!AtStage
  <2>2. tSent'[p] * Tls!Records(p) = Tls!Count(ssl'[p].seqOut)
    BY <1>1, <1>3 DEF Tls!StageInv
  <2>3. v.seqIn <= ssl'[p].seqOut /\ ssl'[p].seqIn <= v.seqOut
    <3>1. ssl'[p].seqOut = K /\ ssl'[p].seqIn = ssl[p].seqIn
      BY <1>3
    <3>2. ssl[p].seqIn <= v.seqOut
      BY ONLY <1>6, ssl[e].seqOut <= v.seqOut
    <3> QED  BY <3>1, <3>2
  <2>4. \A x \in Tls!Ends :
          (/\ Tls!AtStage(x, ssl[x].stage, ssl[x].seqIn, ssl[x].seqOut)
           /\ tSent[x] * Tls!Records(x) = Tls!Count(ssl[x].seqOut)
           /\ ssl[x].seqIn <= ssl[Tls!Peer(x)].seqOut)'
    <3>1. (/\ Tls!AtStage(e, ssl[e].stage, ssl[e].seqIn, ssl[e].seqOut)
           /\ tSent[e] * Tls!Records(e) = Tls!Count(ssl[e].seqOut)
           /\ ssl[e].seqIn <= ssl[Tls!Peer(e)].seqOut)'
      BY <1>3, <2>1, <2>3
    <3>2. (/\ Tls!AtStage(p, ssl[p].stage, ssl[p].seqIn, ssl[p].seqOut)
           /\ tSent[p] * Tls!Records(p) = Tls!Count(ssl[p].seqOut)
           /\ ssl[p].seqIn <= ssl[Tls!Peer(p)].seqOut)'
      BY <1>1, <1>3, <2>1, <2>2, <2>3
    <3> HIDE DEF p
    <3> QED  BY <1>1, <3>1, <3>2
  <2> QED  BY <2>4 DEF Tls!StageInv
<1>8. Tls!UnitsInv'
  <2>1. \A L : Tls!Units(p, L)' = Tls!Units(p, L) /\ Tls!Units(e, L)' = Tls!Units(e, L)
    <3> TAKE L
    <3> HIDE DEF p
    <3>1. version' = version
      BY <1>4
    <3> QED  BY <3>1, UnitsStay
  <2>2. PICK L \in Nat : L = v.seqOut
    BY <1>6
  <2>3. PICK M \in Nat : M = ssl[e].seqOut
    BY <1>6
  <2>4. M <= L /\ Seq(Tls!Units(e, M)) \subseteq Seq(Tls!Units(e, L))
    BY <1>6, <2>2, <2>3, MoreUnits
  <2>5. /\ ssl[e].part \in Seq(Tls!Units(p, K)) /\ rbio_[e] \in Seq(Tls!Units(p, K))
        /\ tWire[e] \in Seq(Tls!Units(p, K))
    BY DEF Tls!UnitsInv
  <2>6. /\ ssl[p].part \in Seq(Tls!Units(e, M)) /\ rbio_[p] \in Seq(Tls!Units(e, M))
        /\ tWire[p] \in Seq(Tls!Units(e, M))
    BY <1>1, <2>3 DEF Tls!UnitsInv
  <2>7. tWire'[e] \in Seq(Tls!Units(p, K))
    <3> DEFINE w == tWire[e]
               S == Tls!Units(p, K)
    <3>1. w \in Seq(S) /\ n \in 0..Len(w)
      BY <2>5
    <3> HIDE DEF w, S
    <3>2. SubSeq(w, n + 1, Len(w)) \in Seq(S)
      BY <3>1, Beheaded
    <3> QED  BY <1>3, <3>2 DEF w, S
  <2>8. tWire'[p] \in Seq(Tls!Units(e, L))
    <3>1. tWire[p] \in Seq(Tls!Units(e, L)) /\ o \in Seq(Tls!Units(e, L))
      BY <2>2, <2>4, <2>6
    <3> QED  BY <1>3, <3>1
  <2>9. (/\ ssl[e].part \in Seq(Tls!Units(Tls!Peer(e), ssl[Tls!Peer(e)].seqOut))
         /\ rbio_[e] \in Seq(Tls!Units(Tls!Peer(e), ssl[Tls!Peer(e)].seqOut))
         /\ tWire[e] \in Seq(Tls!Units(Tls!Peer(e), ssl[Tls!Peer(e)].seqOut)))'
    <3>1. ssl'[p].seqOut = K /\ Tls!Units(p, K)' = Tls!Units(p, K)
      BY <1>3, <2>1
    <3>2. ssl'[e].part \in Seq(Tls!Units(p, K)) /\ rbio_'[e] \in Seq(Tls!Units(p, K))
      BY <1>3
    <3> QED  BY <2>7, <3>1, <3>2
  <2>10. (/\ ssl[p].part \in Seq(Tls!Units(e, ssl[e].seqOut))
          /\ rbio_[p] \in Seq(Tls!Units(e, ssl[e].seqOut))
          /\ tWire[p] \in Seq(Tls!Units(e, ssl[e].seqOut)))'
    <3>1. ssl'[e].seqOut = L /\ Tls!Units(e, L)' = Tls!Units(e, L)
      BY <1>3, <2>1, <2>2
    <3>2. ssl'[p].part \in Seq(Tls!Units(e, L)) /\ rbio_'[p] \in Seq(Tls!Units(e, L))
      BY <1>3, <2>4, <2>6
    <3> QED  BY <2>8, <3>1, <3>2
  <2>11. \A x \in Tls!Ends :
           (/\ ssl[x].part \in Seq(Tls!Units(Tls!Peer(x), ssl[Tls!Peer(x)].seqOut))
            /\ rbio_[x] \in Seq(Tls!Units(Tls!Peer(x), ssl[Tls!Peer(x)].seqOut))
            /\ tWire[x] \in Seq(Tls!Units(Tls!Peer(x), ssl[Tls!Peer(x)].seqOut)))'
    <3> HIDE DEF p
    <3> QED  BY <1>1, <2>9, <2>10
  <2> QED  BY <2>11 DEF Tls!UnitsInv
<1> QED  BY <1>5, <1>7, <1>8

\* What an end reads, and what is left for it, is what it has before it.
LEMMA WhatIsRead ==
    ASSUME Tls!ShapeInv, NEW e \in Tls!Ends, NEW n \in 0..Len(tWire[e])
    PROVE  LET w == ssl[e].part \o rbio_[e] \o SubSeq(tWire[e], 1, n)
               rest == SubSeq(tWire[e], n + 1, Len(tWire[e]))
           IN  w \in Seq(Tls!AnyUnit) /\ rest \in Seq(Tls!AnyUnit) /\ Tls!Before(e) = w \o rest
<1> DEFINE a == ssl[e].part \o rbio_[e]
           head == SubSeq(tWire[e], 1, n)
           rest == SubSeq(tWire[e], n + 1, Len(tWire[e]))
           z == tWire[e]
<1>1. a \in Seq(Tls!AnyUnit) /\ z \in Seq(Tls!AnyUnit) /\ n \in 0..Len(z)
  BY DEF Tls!ShapeInv
<1>2. head \in Seq(Tls!AnyUnit) /\ rest \in Seq(Tls!AnyUnit) /\ head \o rest = z
  <2> HIDE DEF a
  <2>1. z \in Seq(Tls!AnyUnit) /\ n \in 0..Len(z)
    BY <1>1
  <2> HIDE DEF z
  <2>2. /\ SubSeq(z, 1, n) \in Seq(Tls!AnyUnit) /\ SubSeq(z, n + 1, Len(z)) \in Seq(Tls!AnyUnit)
        /\ SubSeq(z, 1, n) \o SubSeq(z, n + 1, Len(z)) = z
    BY <2>1, Beginning, Beheaded, TwoParts
  <2> QED  BY <2>2 DEF z
<1>3. Tls!Before(e) = a \o z
  BY DEF Tls!Before
<1> HIDE DEF a, head, rest, z
<1>4. a \o z = (a \o head) \o rest
  <2>1. a \in Seq(Tls!AnyUnit) /\ head \in Seq(Tls!AnyUnit) /\ rest \in Seq(Tls!AnyUnit)
    BY <1>1, <1>2
  <2>2. (a \o head) \o rest = a \o (head \o rest)
    BY ONLY <2>1, RegroupUnits, SMTT(40)
  <2> QED  BY <1>2, <2>2
<1>5. a \o head \in Seq(Tls!AnyUnit)
  BY <1>1, <1>2
<1> QED  BY <1>2, <1>3, <1>4, <1>5 DEF a, head, rest

\* While nothing is spoilt, it is in place.
LEMMA ReadsInPlace ==
    ASSUME Tls!ShapeInv, Tls!StreamInv, ~Tls!Spoilt, NEW e \in Tls!Ends,
           ~(e = "server" /\ Tls!Reset),
           NEW n \in 0..Len(tWire[e])
    PROVE  Tls!InPlace(Tls!Peer(e), ssl[e].part \o rbio_[e] \o SubSeq(tWire[e], 1, n),
               Tls!Start(Tls!Peer(e), ssl[e].seqIn))
<1> DEFINE w == ssl[e].part \o rbio_[e] \o SubSeq(tWire[e], 1, n)
           rest == SubSeq(tWire[e], n + 1, Len(tWire[e]))
           q == ssl[e].seqIn
<1>1. w \in Seq(Tls!AnyUnit) /\ rest \in Seq(Tls!AnyUnit) /\ Tls!Before(e) = w \o rest
  BY WhatIsRead
<1>2. Tls!InPlace(Tls!Peer(e), Tls!Before(e), Tls!Start(Tls!Peer(e), q)) /\ q \in Nat \ {0}
  BY DEF Tls!StreamInv, Tls!ShapeInv
<1> HIDE DEF w, rest, q
<1> DEFINE a == Tls!Start(Tls!Peer(e), q)
<1>3. a \in Nat
  BY <1>2, TwoEnds, StartsFollow
<1>4. Tls!InPlace(Tls!Peer(e), w \o rest, a)
  BY <1>1, <1>2
<1> HIDE DEF a
<1>5. Tls!InPlace(Tls!Peer(e), w, a)
  BY <1>1, <1>3, <1>4, InPlaceTogether
<1> QED  BY <1>5 DEF a, w, q

\* It stays so at both ends, if what is sent follows what was, and what was
\* read is taken from what was before the end.
LEMMA StreamKeeps ==
    ASSUME Tls!ShapeInv, Tls!StreamInv, ~Tls!Spoilt, Tls!Reset => Tls!Reset',
           NEW e \in Tls!Ends, NEW n \in 0..Len(tWire[e]), NEW v \in SslState,
           NEW b \in Seq(Tls!AnyUnit), NEW o \in Seq(Tls!AnyUnit), StepTaken(e, n, v, b, o),
           ~(e = "server" /\ Tls!Reset') =>
              LET w == ssl[e].part \o rbio_[e] \o SubSeq(tWire[e], 1, n)
              IN  /\ Tls!InPlace(Tls!Peer(e), v.part \o b, Tls!Start(Tls!Peer(e), v.seqIn))
                  /\ Len(v.part \o b) + Tls!Start(Tls!Peer(e), v.seqIn)
                         = Len(w) + Tls!Start(Tls!Peer(e), ssl[e].seqIn),
           Tls!InPlace(e, o, Tls!Start(e, ssl[e].seqOut)),
           Len(o) + Tls!Start(e, ssl[e].seqOut) = Tls!Start(e, v.seqOut)
    PROVE  \A x \in Tls!Ends : ~(x = "server" /\ Tls!Reset') =>
             (/\ Len(Tls!Before(x)) = Tls!Start(Tls!Peer(x), ssl[Tls!Peer(x)].seqOut)
                     - Tls!Start(Tls!Peer(x), ssl[x].seqIn)
              /\ Tls!InPlace(Tls!Peer(x), Tls!Before(x), Tls!Start(Tls!Peer(x), ssl[x].seqIn)))'
<1> DEFINE p == Tls!Peer(e)
<1>1. p \in Tls!Ends /\ p # e /\ Tls!Peer(p) = e /\ \A x \in Tls!Ends : x = e \/ x = p
  BY TwoEnds
<1>2. /\ ssl'[e] = v /\ ssl'[p] = ssl[p] /\ rbio_'[e] = b /\ rbio_'[p] = rbio_[p]
      /\ tWire'[e] = SubSeq(tWire[e], n + 1, Len(tWire[e])) /\ tWire'[p] = tWire[p] \o o
  <2>1. StepTaken(e, n, v, b, o) /\ Tls!ShapeInv
    OBVIOUS
  <2> QED  BY ONLY <2>1, StepTakenFacts, e \in Tls!Ends, n \in 0..Len(tWire[e]), v \in SslState,
               b \in Seq(Tls!AnyUnit), o \in Seq(Tls!AnyUnit), SMTT(40)
<1>3. /\ ssl[p].part \in Seq(Tls!AnyUnit) /\ rbio_[p] \in Seq(Tls!AnyUnit)
           /\ tWire[p] \in Seq(Tls!AnyUnit)
      /\ ssl[p].seqIn \in Nat \ {0} /\ ssl[e].seqIn \in Nat \ {0}
      /\ ssl[p].seqOut \in Nat \ {0} /\ ssl[e].seqOut \in Nat \ {0}
      /\ v.seqIn \in Nat \ {0} /\ v.seqOut \in Nat \ {0} /\ v.part \in Seq(Tls!AnyUnit)
  BY <1>1 DEF Tls!ShapeInv, SslState
<1>4. /\ Tls!Start(e, ssl[p].seqIn) \in Nat /\ Tls!Start(p, ssl[p].seqOut) \in Nat
      /\ Tls!Start(Tls!Peer(e), ssl[e].seqIn) \in Nat /\ Tls!Start(e, ssl[e].seqOut) \in Nat
      /\ Tls!Start(Tls!Peer(e), v.seqIn) \in Nat
  <2>1. \A r \in Tls!Ends : \A q \in Nat \ {0} : Tls!Start(r, q) \in Nat
    BY StartsFollow
  <2>2. p \in Tls!Ends /\ Tls!Peer(e) \in Tls!Ends
    BY TwoEnds
  <2> HIDE DEF p
  <2> QED  BY <1>3, <2>1, <2>2
<1>5. ASSUME ~(p = "server" /\ Tls!Reset')
      PROVE  (/\ Len(Tls!Before(p)) = Tls!Start(e, ssl[e].seqOut) - Tls!Start(e, ssl[p].seqIn)
              /\ Tls!InPlace(e, Tls!Before(p), Tls!Start(e, ssl[p].seqIn)))'
  <2> DEFINE u == Tls!Before(p)
             a == Tls!Start(e, ssl[p].seqIn)
             c == Tls!Start(e, ssl[e].seqOut)
  <2>1. Len(u) = c - a /\ Tls!InPlace(e, u, a)
    BY <1>1, <1>5 DEF Tls!StreamInv
  <2>2. u \in Seq(Tls!AnyUnit) /\ a \in Nat /\ c \in Nat
    <3>1. a \in Nat /\ c \in Nat
      BY <1>4
    <3>2. u \in Seq(Tls!AnyUnit)
      BY <1>3 DEF Tls!Before
    <3> QED  BY <3>1, <3>2
  <2>3. Tls!Before(p)' = u \o o
    <3> DEFINE x == ssl[p].part \o rbio_[p]
               y == tWire[p]
    <3>1. Tls!Before(p)' = x \o (y \o o) /\ u = x \o y
      BY <1>2 DEF Tls!Before
    <3>2. x \in Seq(Tls!AnyUnit) /\ y \in Seq(Tls!AnyUnit)
      BY <1>3
    <3> HIDE DEF x, y, u
    <3>3. (x \o y) \o o = x \o (y \o o)
      BY ONLY <3>2, RegroupUnits, o \in Seq(Tls!AnyUnit), SMTT(40)
    <3> QED  BY <3>1, <3>3
  <2>4. Tls!Start(e, ssl[e].seqOut)' = Tls!Start(e, v.seqOut) /\ Tls!Start(e, ssl[p].seqIn)' = a
    BY <1>2 DEF Tls!Start
  <2>5. Len(o) + c = Tls!Start(e, v.seqOut) /\ Tls!InPlace(e, o, c)
    OBVIOUS
  <2> HIDE DEF u, a, c
  <2>6. Len(u \o o) = Len(u) + Len(o) /\ Len(u) \in Nat /\ Len(o) \in Nat
    BY <2>2
  <2>7. Tls!InPlace(e, u \o o, a)
    <3>1. a + Len(u) = c
      BY <2>1, <2>2, <2>6
    <3> QED  BY <2>1, <2>2, <2>5, <3>1, InPlaceTogether
  <2>8. Len(u \o o) = Tls!Start(e, v.seqOut) - a
    BY <2>1, <2>2, <2>5, <2>6
  <2> QED  BY <2>3, <2>4, <2>7, <2>8 DEF Tls!InPlace, Tls!Start
<1>6. ASSUME ~(e = "server" /\ Tls!Reset')
      PROVE  (/\ Len(Tls!Before(e)) = Tls!Start(p, ssl[p].seqOut)
                     - Tls!Start(Tls!Peer(e), ssl[e].seqIn)
              /\ Tls!InPlace(Tls!Peer(e), Tls!Before(e), Tls!Start(Tls!Peer(e), ssl[e].seqIn)))'
  <2> DEFINE w == ssl[e].part \o rbio_[e] \o SubSeq(tWire[e], 1, n)
             rest == SubSeq(tWire[e], n + 1, Len(tWire[e]))
             u == v.part \o b
             a == Tls!Start(Tls!Peer(e), ssl[e].seqIn)
             c == Tls!Start(p, ssl[p].seqOut)
             d == Tls!Start(Tls!Peer(e), v.seqIn)
  <2>1. Len(Tls!Before(e)) = c - a /\ Tls!InPlace(Tls!Peer(e), Tls!Before(e), a)
    BY <1>6 DEF Tls!StreamInv
  <2>2. w \in Seq(Tls!AnyUnit) /\ rest \in Seq(Tls!AnyUnit) /\ Tls!Before(e) = w \o rest
    BY WhatIsRead
  <2>3. Tls!InPlace(Tls!Peer(e), u, d) /\ Len(u) + d = Len(w) + a
    BY <1>6
  <2>4. u \in Seq(Tls!AnyUnit) /\ a \in Nat /\ c \in Nat /\ d \in Nat
    <3>1. a \in Nat /\ c \in Nat /\ d \in Nat
      BY <1>4
    <3>2. u \in Seq(Tls!AnyUnit)
      BY <1>3
    <3> QED  BY <3>1, <3>2
  <2>5. Tls!Before(e)' = u \o rest
    BY <1>2 DEF Tls!Before
  <2>6. Tls!Start(p, ssl[p].seqOut)' = c /\ Tls!Start(Tls!Peer(e), ssl[e].seqIn)' = d
    BY <1>2 DEF Tls!Start
  <2> HIDE DEF w, rest, u, a, c, d
  <2>7. /\ Len(w \o rest) = Len(w) + Len(rest) /\ Len(u \o rest) = Len(u) + Len(rest)
        /\ Len(w) \in Nat /\ Len(rest) \in Nat /\ Len(u) \in Nat
    BY <2>2, <2>4
  <2>8. Tls!InPlace(Tls!Peer(e), rest, a + Len(w))
    BY <2>1, <2>2, <2>4, InPlaceTogether
  <2>9. a + Len(w) = d + Len(u)
    BY <2>3, <2>4, <2>7
  <2>10. Tls!InPlace(Tls!Peer(e), u \o rest, d)
    BY <2>2, <2>3, <2>4, <2>8, <2>9, InPlaceTogether
  <2>11. Len(u \o rest) = c - d
    <3>1. Len(w) + Len(rest) = c - a
      BY <2>1, <2>2, <2>7
    <3>2. Len(u) + Len(rest) = c - d
      <4>1. Len(u) + d = Len(w) + a /\ a \in Nat /\ c \in Nat /\ d \in Nat
        BY <2>3, <2>4
      <4>2. Len(w) \in Nat /\ Len(rest) \in Nat /\ Len(u) \in Nat
        BY <2>7
      <4> QED  BY ONLY <3>1, <4>1, <4>2
    <3> QED  BY <2>7, <3>2
  <2> QED  BY <2>5, <2>6, <2>10, <2>11 DEF Tls!InPlace, Tls!Start
<1> HIDE DEF p
<1>7. (~(e = "server" /\ Tls!Reset') =>
         (/\ Len(Tls!Before(e)) = Tls!Start(Tls!Peer(e), ssl[Tls!Peer(e)].seqOut)
                 - Tls!Start(Tls!Peer(e), ssl[e].seqIn)
          /\ Tls!InPlace(Tls!Peer(e), Tls!Before(e), Tls!Start(Tls!Peer(e), ssl[e].seqIn)))')
  BY <1>6 DEF p
<1>8. (~(p = "server" /\ Tls!Reset') =>
         (/\ Len(Tls!Before(p)) = Tls!Start(Tls!Peer(p), ssl[Tls!Peer(p)].seqOut)
                 - Tls!Start(e, ssl[p].seqIn)
          /\ Tls!InPlace(e, Tls!Before(p), Tls!Start(e, ssl[p].seqIn)))')
  BY <1>1, <1>5
<1> QED  BY <1>1, <1>7, <1>8

\* What an exchange puts before the peer: out, unless the kernel did not take
\* it at once.
LEMMA Exchanged ==
    ASSUME Tls!ShapeInv, queued \in 0..MaxQueued, NEW e \in Tls!Ends, NEW n \in 0..Len(tWire[e]),
           NEW M, NEW out \in Seq(Tls!Units(e, M)), Tls!Exchange(e, n, out),
           tDisorder \cup Tls!Queued \subseteq tDisorder'
    PROVE  /\ queued' \in 0..MaxQueued
           /\ ~Tls!Spoilt' => ~Tls!Spoilt
           /\ \E o \in Seq(Tls!Units(e, M)) : Sends(e, n, o) /\ (~Tls!Spoilt' => o = out)
<1>1. Tls!Peer(e) \in Tls!Ends /\ Tls!Peer(e) # e
  BY TwoEnds
<1>2. ~Tls!Spoilt' => ~Tls!Spoilt
  BY DEF Tls!Spoilt
<1>3. CASE /\ tWire' = [tWire EXCEPT ![e] = SubSeq(tWire[e], n + 1, Len(tWire[e])),
                                   ![Tls!Peer(e)] = @ \o out]
           /\ UNCHANGED queued
  BY <1>2, <1>3 DEF Sends
<1>4. ASSUME out # << >>, queued < MaxQueued, queued' = queued + 1,
             NEW taken \in 0..Len(out) - 1,
             tWire' = [tWire EXCEPT ![e] = SubSeq(tWire[e], n + 1, Len(tWire[e])),
                         ![Tls!Peer(e)] = @ \o SubSeq(out, 1, taken)
                                        \o [j \in 1 .. Len(out) - taken |-> Tls!Zero]]
      PROVE  /\ queued' \in 0..MaxQueued
             /\ \E o \in Seq(Tls!Units(e, M)) : Sends(e, n, o) /\ (~Tls!Spoilt' => o = out)
  <2> DEFINE h == SubSeq(out, 1, taken)
             z == [j \in 1 .. Len(out) - taken |-> Tls!Zero]
             w == tWire[Tls!Peer(e)]
             rest == SubSeq(tWire[e], n + 1, Len(tWire[e]))
  <2>1. Len(out) \in Nat /\ taken \in 0..Len(out)
    <3>1. Len(out) \in Nat
      OBVIOUS
    <3> QED  BY <3>1
  <2>2. h \in Seq(Tls!Units(e, M))
    BY <2>1, Beginning
  <2>3. z \in Seq(Tls!Units(e, M))
    <3>1. Tls!Zero \in Tls!Units(e, M)
      BY DEF Tls!Zero, Tls!Units, Tls!AnyUnit
    <3>2. Len(out) - taken \in Nat
      BY <2>1
    <3> QED  BY <3>1, <3>2
  <2>4. h \in Seq(Tls!AnyUnit) /\ z \in Seq(Tls!AnyUnit) /\ w \in Seq(Tls!AnyUnit)
    <3>1. h \in Seq(Tls!AnyUnit) /\ z \in Seq(Tls!AnyUnit)
      <4> HIDE DEF h, z
      <4> QED  BY <2>2, <2>3, UnitsAreUnits
    <3>2. w \in Seq(Tls!AnyUnit)
      BY <1>1 DEF Tls!ShapeInv
    <3> QED  BY <3>1, <3>2
  <2>5. tWire' = [tWire EXCEPT ![e] = rest, ![Tls!Peer(e)] = (w \o h) \o z]
    <3>1. [tWire EXCEPT ![e] = rest][Tls!Peer(e)] = tWire[Tls!Peer(e)]
      BY <1>1
    <3> QED  BY <1>1, <1>4
  <2>6. "write_queued" \in tDisorder'
    BY <1>4 DEF Tls!Queued
  <2>7. Tls!Spoilt'
    BY <2>6 DEF Tls!Spoilt
  <2>8. queued' \in 0..MaxQueued
    BY <1>4, TlsBounds
  <2> HIDE DEF h, z, w, rest
  <2>9. (w \o h) \o z = w \o (h \o z)
    BY ONLY <2>4, RegroupUnits, SMTT(40)
  <2>10. h \o z \in Seq(Tls!Units(e, M))
    BY <2>2, <2>3
  <2>11. tWire' = [tWire EXCEPT ![e] = rest, ![Tls!Peer(e)] = @ \o (h \o z)]
    <3>1. tWire' = [tWire EXCEPT ![e] = rest, ![Tls!Peer(e)] = w \o (h \o z)]
      BY <2>5, <2>9
    <3> QED  BY <1>1, <3>1 DEF w
  <2>12. Sends(e, n, h \o z)
    BY <2>11 DEF Sends, rest
  <2> QED  BY <2>7, <2>8, <2>10, <2>12
<1>5. CASE \E taken \in 0..Len(out) - 1 :
             /\ out # << >> /\ queued < MaxQueued /\ queued' = queued + 1
             /\ tWire' = [tWire EXCEPT ![e] = SubSeq(tWire[e], n + 1, Len(tWire[e])),
                         ![Tls!Peer(e)] = @ \o SubSeq(out, 1, taken)
                                        \o [j \in 1 .. Len(out) - taken |-> Tls!Zero]]
  BY <1>2, <1>4, <1>5
<1> QED  BY <1>3, <1>5 DEF Tls!Exchange

\* An exchange that writes nothing.
LEMMA OnlyRead ==
    ASSUME Tls!ShapeInv, NEW e \in Tls!Ends, NEW n \in 0..Len(tWire[e]), Tls!Exchange(e, n, <<>>)
    PROVE  queued' = queued /\ Sends(e, n, <<>>)
BY DEF Tls!Exchange, Sends

-----------------------------------------------------------------------------
(* What has been decrypted. *)

\* The bytes SSL_write has taken.
LEMMA MessageBytesAre ==
    ASSUME NEW p \in Tls!Ends, NEW a \in Nat
    PROVE  /\ Tls!Bytes(p, a) \in Seq(Nat) /\ Len(Tls!Bytes(p, a)) = a
           /\ \A k \in 1..a : Tls!Bytes(p, a)[k] = Tls!Byte(p, k)
<1>1. ASSUME NEW k \in 1..a PROVE Tls!Byte(p, k) \in Nat
  <2>1. PICK T \in Nat : T = Tls!Took(p) /\ 1 <= T /\ T <= Payload
    BY RecordsOf
  <2>2. k - 1 \in Nat
    OBVIOUS
  <2>3. PICK m \in Nat : m = (k - 1) \div T
    BY <2>1, <2>2, Divided
  <2>4. PICK r \in Nat : r = Payload - T
    BY <2>1, TlsBounds
  <2>5. m * r \in Nat
    BY Products
  <2>6. Tls!Byte(p, k) = k + m * r
    BY <2>1, <2>3, <2>4 DEF Tls!Byte
  <2> QED  BY <2>5, <2>6
<1>2. Tls!Bytes(p, a) = [k \in 1..a |-> Tls!Byte(p, k)]
  BY DEF Tls!Bytes
<1> QED  BY <1>1, <1>2

\* A record carries the bytes that follow those given before it.
LEMMA ByteOf ==
    ASSUME NEW p \in Tls!Ends, NEW c \in Nat,
           NEW j \in 1..Tls!From(p, c + 1) - Tls!From(p, c)
    PROVE  Tls!Byte(p, Tls!From(p, c) + j) = Tls!Given(p, c) + j
<1>1. PICK T \in Nat : /\ T = Tls!Took(p) /\ 1 <= T /\ T <= Payload
                       /\ T = Payload \/ Tls!Records(p) = 1
  BY RecordsOf
<1>2. PICK f \in Nat : f = Tls!From(p, c) /\ j \in Nat /\ 1 <= j
  BY FromFollows
<1>3. Tls!Byte(p, f + j) = f + j + ((f + j - 1) \div T) * (Payload - T)
  BY <1>1 DEF Tls!Byte
<1>4. PICK m \in Nat : m = (f + j - 1) \div T
  <2>1. f + j - 1 \in Nat
    BY <1>2
  <2> QED  BY <1>1, <2>1, Divided
<1>5. CASE T = Payload
  <2>1. Tls!Given(p, c) = Tls!From(p, c)
    BY <1>1, <1>5 DEF Tls!Given, Tls!From
  <2>2. Payload - T = 0 /\ m * 0 = 0
    BY <1>5, TlsBounds
  <2>3. Tls!Byte(p, f + j) = f + j + 0
    BY <1>3, <1>4, <2>2
  <2>4. f + j + 0 = f + j
    BY <1>2
  <2> QED  BY <1>2, <2>1, <2>3, <2>4
<1>6. CASE Tls!Records(p) = 1
  <2>1. c * 1 + 0 = c /\ (c + 1) * 1 + 0 = c + 1 /\ 0 * MaxRecord = 0
    BY TlsBounds
  <2>2. /\ Tls!From(p, c * 1 + 0) = c * T + 0 * MaxRecord
        /\ Tls!Given(p, c * 1 + 0) = c * Payload + 0 * MaxRecord
        /\ c * T \in Nat /\ c * Payload \in Nat
    BY <1>1, <1>6, FromIs
  <2>3. Tls!From(p, (c + 1) * 1 + 0) = (c + 1) * T + 0 * MaxRecord
    BY <1>1, <1>6, FromIs
  <2>4. (c + 1) * T = c * T + T
    BY <1>1, Products
  <2>5. PICK x \in Nat, y \in Nat : x = c * T /\ y = c * Payload
    BY <2>2
  <2>6. f = x /\ Tls!Given(p, c) = y /\ Tls!From(p, c + 1) = x + T
    BY <1>1, <1>2, <2>1, <2>2, <2>3, <2>4, <2>5
  <2>7. j <= T
    BY <1>1, <1>2, <2>6
  <2>8. m = c
    <3>1. PICK r \in Nat : r = j - 1 /\ r < T
      BY <1>1, <1>2, <2>7
    <3>2. (c * T + r) \div T = c
      BY <1>1, <3>1, Quotients
    <3>3. f + j - 1 = c * T + r
      BY <1>2, <2>5, <2>6, <3>1
    <3> QED  BY <1>4, <3>2, <3>3
  <2>9. c * (Payload - T) = y - x
    <3>1. c * (Payload - T) = c * Payload - c * T
      BY <1>1, TlsBounds
    <3> QED  BY <2>5, <3>1
  <2>10. Tls!Byte(p, f + j) = f + j + (y - x)
    BY <1>3, <1>4, <2>8, <2>9
  <2>11. Tls!Byte(p, f + j) = y + j
    BY <1>2, <2>5, <2>6, <2>10
  <2> QED  BY <1>2, <2>6, <2>11
<1> QED  BY <1>1, <1>5, <1>6

\* The plaintext of a record.
Plain(p, q) == [j \in 1..Tls!Size(p, q) - 1 |-> Tls!Given(p, q - 3) + j]

\* The records of the handshake carry nothing; each after them what follows.
LEMMA CarriedFollows ==
    ASSUME NEW p \in Tls!Ends, NEW q \in Nat \ {0}
    PROVE  /\ Tls!Carried(p, q) \in Seq(Nat)
           /\ q <= 3 => Tls!Carried(p, q) = <<>> /\ Tls!Carried(p, q) = Tls!Carried(p, 3)
           /\ q >= 3 => /\ Plain(p, q) \in Seq(Nat) /\ Len(Plain(p, q)) >= 1
                        /\ Len(Plain(p, q)) <= Tls!Least(Payload, MaxRecord)
                        /\ Tls!Carried(p, q) \o Plain(p, q) = Tls!Carried(p, q + 1)
<1>1. PICK c \in Nat : c = Tls!Count(q) /\ (q <= 3 => c = 0) /\ (q >= 3 => c = q - 3)
  <2>1. Tls!Count(q) \in Nat /\ (q <= 3 => Tls!Count(q) = 0) /\ (q >= 3 => Tls!Count(q) = q - 3)
    BY DEF Tls!Count
  <2> QED  BY <2>1
<1>2. PICK f \in Nat, g \in Nat : /\ f = Tls!From(p, c) /\ g = Tls!From(p, c + 1) /\ f < g
                                  /\ g <= f + MaxRecord /\ g <= f + Payload
  BY FromFollows
<1> DEFINE s == Tls!Bytes(p, f)
           t == Tls!Bytes(p, g)
           x == Plain(p, q)
<1>3. Tls!Carried(p, q) = s
  BY <1>1, <1>2 DEF Tls!Carried
<1>4. s \in Seq(Nat) /\ Len(s) = f /\ \A k \in 1..f : s[k] = Tls!Byte(p, k)
  BY MessageBytesAre
<1>5. t \in Seq(Nat) /\ Len(t) = g /\ \A k \in 1..g : t[k] = Tls!Byte(p, k)
  BY MessageBytesAre
<1>6. ASSUME q <= 3 PROVE s = <<>> /\ s = Tls!Carried(p, 3)
  <2>1. c = 0 /\ Tls!Count(3) = 0
    BY <1>1, <1>6 DEF Tls!Count
  <2>2. Tls!From(p, 0) = 0
    BY FromNothing
  <2>3. f = 0
    BY <1>2, <2>1, <2>2
  <2>4. Tls!Carried(p, 3) = Tls!Bytes(p, 0)
    BY <2>1, <2>2 DEF Tls!Carried
  <2> HIDE DEF s
  <2>5. s = <<>>
    BY <1>4, <2>3
  <2> QED  BY <2>3, <2>4, <2>5 DEF s
<1>7. ASSUME q >= 3
      PROVE  /\ x \in Seq(Nat) /\ Len(x) >= 1 /\ Len(x) <= Tls!Least(Payload, MaxRecord)
             /\ s \o x = Tls!Carried(p, q + 1)
  <2>1. c = q - 3 /\ Tls!Count(q + 1) = c + 1 /\ Tls!Size(p, q) = g - f + 1
    <3>1. c = q - 3 /\ c + 1 = q - 2 /\ ~(q <= 2) /\ ~(q + 1 <= 2) /\ q + 1 - 3 = c + 1
      BY <1>1, <1>7
    <3>2. Tls!Size(p, q) = g - f + 1
      BY <1>2, <3>1 DEF Tls!Size
    <3>3. Tls!Count(q + 1) = c + 1
      BY <3>1 DEF Tls!Count
    <3> QED  BY <3>1, <3>2, <3>3
  <2>2. Tls!Carried(p, q + 1) = t
    BY <1>2, <2>1 DEF Tls!Carried
  <2>3. PICK b \in Nat : b = Tls!Given(p, c)
    BY FromFollows
  <2>4. PICK z \in Nat : z = g - f /\ z = Tls!Size(p, q) - 1
    BY <1>2, <2>1
  <2>5. x = [j \in 1..z |-> b + j]
    BY <2>1, <2>3, <2>4 DEF Plain
  <2> HIDE DEF s, t, x
  <2>6. x \in Seq(Nat) /\ Len(x) = z /\ \A j \in 1..z : x[j] = b + j
    BY <2>3, <2>4, <2>5
  <2>7. 1 <= z /\ z <= Tls!Least(Payload, MaxRecord)
    BY <1>2, <2>4, TlsBounds DEF Tls!Least
  <2>8. \A j \in 1..z : Tls!Byte(p, f + j) = b + j
    BY <1>2, <2>3, <2>4, ByteOf
  <2>9. s \o x \in Seq(Nat) /\ Len(s \o x) = g
    <3>1. s \o x \in Seq(Nat) /\ Len(s \o x) = Len(s) + Len(x)
      BY <1>4, <2>6, PutTogether
    <3> QED  BY <1>2, <1>4, <2>4, <2>6, <3>1
  <2>10. ASSUME NEW k \in 1..g PROVE (s \o x)[k] = t[k]
    <3>1. t[k] = Tls!Byte(p, k)
      BY <1>5
    <3>2. CASE k <= f
      <4>1. k \in 1..f
        BY <1>2, <3>2
      <4>2. (s \o x)[k] = s[k]
        BY <1>4, <2>6, <4>1, PutTogether
      <4> QED  BY <1>4, <3>1, <4>1, <4>2
    <3>3. CASE k > f
      <4>1. PICK j \in 1..z : k = f + j
        <5>1. k - f \in 1..z /\ k = f + (k - f)
          BY <1>2, <2>4, <3>3
        <5> QED  BY <5>1
      <4>2. (s \o x)[Len(s) + j] = x[j]
        BY <1>4, <2>6, <4>1, PutTogether
      <4> QED  BY <1>4, <2>6, <2>8, <3>1, <4>1, <4>2
    <3>4. k <= f \/ k > f
      BY <1>2
    <3> QED  BY <3>2, <3>3, <3>4
  <2>11. s \o x = t
    BY <1>5, <2>9, <2>10, SameUnits
  <2> QED  BY <2>2, <2>6, <2>7, <2>11
<1> HIDE DEF s, t, x
<1>8. Plain(p, q) = x
  BY DEF x
<1> QED  BY <1>3, <1>4, <1>6, <1>7, <1>8

\* What is handed up is the beginning of what was taken.
LEMMA BytesBegin ==
    ASSUME NEW p \in Tls!Ends, NEW q \in Nat \ {0}, NEW u \in Nat \ {0}, q <= u,
           NEW g \in Seq(Nat), NEW l \in Seq(Nat), g \o l = Tls!Carried(p, q)
    PROVE  Tls!IsPrefix(g, Tls!Carried(p, u))
<1>1. PICK c \in Nat, d \in Nat : c = Tls!Count(q) /\ d = Tls!Count(u) /\ c <= d
  <2>1. Tls!Count(q) \in Nat /\ Tls!Count(u) \in Nat /\ Tls!Count(q) <= Tls!Count(u)
    BY DEF Tls!Count
  <2> QED  BY <2>1
<1>2. PICK N \in Nat, M \in Nat : N = Tls!From(p, c) /\ M = Tls!From(p, d) /\ N <= M
  <2>1. Tls!From(p, c) \in Nat /\ Tls!From(p, d) \in Nat /\ Tls!From(p, c) < Tls!From(p, c + 1)
          /\ Tls!From(p, c + 1) \in Nat
    BY FromFollows
  <2>2. c < d => Tls!From(p, c + 1) <= Tls!From(p, d)
    BY FromInOrder
  <2>3. c < d \/ c = d
    BY <1>1
  <2> QED  BY <2>1, <2>2, <2>3
<1> DEFINE s == Tls!Bytes(p, N)
           t == Tls!Bytes(p, M)
<1>3. s \in Seq(Nat) /\ Len(s) = N /\ \A k \in 1..N : s[k] = Tls!Byte(p, k)
  BY MessageBytesAre
<1>4. t \in Seq(Nat) /\ Len(t) = M /\ \A k \in 1..M : t[k] = Tls!Byte(p, k)
  BY MessageBytesAre
<1>5. g \o l = s /\ Tls!Carried(p, u) = t
  BY <1>1, <1>2 DEF Tls!Carried
<1> HIDE DEF s, t
<1>6. Len(g) \in Nat /\ Len(g) <= N
  BY <1>3, <1>5
<1>7. \A k \in 1..Len(g) : g[k] = t[k]
  <2> TAKE k \in 1..Len(g)
  <2>1. (g \o l)[k] = g[k]
    OBVIOUS
  <2>2. k \in 1..N /\ k \in 1..M
    BY <1>2, <1>6
  <2> QED  BY <1>3, <1>4, <1>5, <2>1, <2>2
<1>8. Len(g) <= Len(t)
  BY <1>2, <1>4, <1>6
<1> DEFINE a == SubSeq(g, 1, Len(g))
           b == SubSeq(t, 1, Len(g))
<1>9. Len(g) \in 0..Len(g) /\ Len(g) \in 0..Len(t)
  BY <1>4, <1>6, <1>8
<1>10. a \in Seq(Nat) /\ Len(a) = Len(g) /\ \A k \in 1..Len(g) : a[k] = g[k]
  BY <1>9, Beginning
<1>11. b \in Seq(Nat) /\ Len(b) = Len(g) /\ \A k \in 1..Len(g) : b[k] = t[k]
  BY <1>4, <1>9, Beginning
<1> HIDE DEF a, b
<1>12. a = b
  BY <1>7, <1>10, <1>11, SameUnits
<1> QED  BY <1>5, <1>8, <1>12 DEF Tls!IsPrefix, a, b

\* And all of it, when every record has been read.
LEMMA TakenIs ==
    ASSUME NEW p \in Tls!Ends, NEW k \in Nat, NEW q \in Nat \ {0},
           k * Tls!Records(p) = Tls!Count(q)
    PROVE  Tls!Bytes(p, k * Tls!Took(p)) = Tls!Carried(p, q)
<1>1. PICK K \in Nat : K = Tls!Records(p) /\ 1 <= K
  BY RecordsOf
<1>2. Tls!From(p, k * K + 0) = k * Tls!Took(p) + 0 * MaxRecord
  BY <1>1, FromIs
<1>3. k * K + 0 = k * K /\ 0 * MaxRecord = 0 /\ k * Tls!Took(p) + 0 = k * Tls!Took(p)
  <2>1. k * K \in Nat /\ k * Tls!Took(p) \in Nat
    BY <1>1, RecordsOf, Products
  <2> QED  BY <2>1, TlsBounds
<1>4. Tls!From(p, Tls!Count(q)) = k * Tls!Took(p)
  BY <1>1, <1>2, <1>3
<1> QED  BY <1>4 DEF Tls!Carried

-----------------------------------------------------------------------------
(* SSL_read *)

Reads(e, K) ==
    [in : Seq(Tls!Units(Tls!Peer(e), K)), seqIn : Nat \ {0}, plain : Seq(Nat)]

\* The records an end can be about to read, once its handshake is done.
Awaits(e, q) == q >= 3 \/ (e = "client" /\ version = "1.3" /\ q = 2)

Readable(e, K, z) == z \in Reads(e, K) /\ z.seqIn <= K /\ Awaits(e, z.seqIn)

StaysInPlace(e, z, y) ==
    Tls!InPlace(Tls!Peer(e), z.in, Tls!Start(Tls!Peer(e), z.seqIn)) =>
      Tls!InPlace(Tls!Peer(e), y.in, Tls!Start(Tls!Peer(e), y.seqIn))
        /\ Len(y.in) + Tls!Start(Tls!Peer(e), y.seqIn) = Len(z.in) + Tls!Start(Tls!Peer(e), z.seqIn)

\* A record read leaves what follows it.
LEMMA OneRead ==
    ASSUME NEW e \in Tls!Ends, NEW K \in Nat, NEW z, Readable(e, K, z),
           Tls!IsWhole(z.in), ~Tls!IsBad(z.in, z.seqIn), NEW y, y.in = Rest(z.in),
           y.seqIn = z.seqIn + 1
    PROVE  /\ y.in \in Seq(Tls!Units(Tls!Peer(e), K)) /\ y.seqIn \in Nat \ {0} /\ y.seqIn <= K
           /\ Awaits(e, y.seqIn) /\ StaysInPlace(e, z, y)
           /\ z.in[1].kind = Tls!KindOf(Tls!Peer(e), z.seqIn)
           /\ z.in[1].of = Tls!Size(Tls!Peer(e), z.seqIn)
           /\ z.in[1].n = IF z.seqIn <= 2 THEN 0 ELSE Tls!Given(Tls!Peer(e), z.seqIn - 3)
<1> DEFINE s == z.in
           q == z.seqIn
<1>1. /\ s \in Seq(Tls!Units(Tls!Peer(e), K)) /\ q \in Nat \ {0} /\ Tls!IsWhole(s)
           /\ ~Tls!IsBad(s, q)
      /\ q <= K /\ Awaits(e, q) /\ y.in = Rest(s) /\ y.seqIn = q + 1
  BY DEF Readable, Reads
<1> HIDE DEF s, q
<1>2. /\ q < K /\ s[1].kind = Tls!KindOf(Tls!Peer(e), q)
      /\ s[1].of = Tls!Size(Tls!Peer(e), q)
      /\ s[1].n = (IF q <= 2 THEN 0 ELSE Tls!Given(Tls!Peer(e), q - 3))
  BY <1>1, NextRecord
<1>3. /\ Rest(s) \in Seq(Tls!Units(Tls!Peer(e), K))
      /\ Len(Rest(s)) + Tls!Start(Tls!Peer(e), q + 1) = Len(s) + Tls!Start(Tls!Peer(e), q)
      /\ Tls!InPlace(Tls!Peer(e), s, Tls!Start(Tls!Peer(e), q)) =>
           Tls!InPlace(Tls!Peer(e), Rest(s), Tls!Start(Tls!Peer(e), q + 1))
  BY <1>1, TwoEnds, RecordTaken DEF Rest
<1>4. Awaits(e, q + 1) /\ q + 1 \in Nat \ {0} /\ q + 1 <= K
  BY <1>1, <1>2 DEF Awaits
<1> QED  BY <1>1, <1>2, <1>3, <1>4 DEF StaysInPlace, s, q

\* A ticket is passed over, and nothing else.
LEMMA TicketPassed ==
    ASSUME version \in {"1.2", "1.3"}, NEW e \in Tls!Ends, NEW K \in Nat, NEW z, Readable(e, K, z)
    PROVE  /\ Readable(e, K, Tls!AfterTicket(z)) /\ Tls!AfterTicket(z).plain = z.plain
           /\ StaysInPlace(e, z, Tls!AfterTicket(z))
           /\ Tls!AfterTicket(z).seqIn = z.seqIn \/ (z.seqIn = 2 /\ Tls!AfterTicket(z).seqIn = 3)
           /\ Tls!AfterTicket(z).seqIn = 2 =>
                ~Tls!IsWhole(Tls!AfterTicket(z).in) \/ Tls!IsBad(Tls!AfterTicket(z).in, 2)
<1>1. /\ z \in Reads(e, K) /\ z.in \in Seq(Tls!Units(Tls!Peer(e), K)) /\ z.seqIn \in Nat \ {0}
      /\ z.seqIn <= K /\ Awaits(e, z.seqIn) /\ z.plain \in Seq(Nat)
  BY DEF Readable, Reads
<1>2. Tls!Peer(e) \in Tls!Ends /\ (e = "client" <=> Tls!Peer(e) = "server")
  BY TwoEnds
<1> DEFINE y == Tls!AfterTicket(z)
<1> SUFFICES /\ Readable(e, K, y) /\ y.plain = z.plain
             /\ StaysInPlace(e, z, y)
             /\ y.seqIn = z.seqIn \/ (z.seqIn = 2 /\ y.seqIn = 3)
             /\ y.seqIn = 2 => ~Tls!IsWhole(y.in) \/ Tls!IsBad(y.in, 2)
  OBVIOUS
<1>3. CASE Tls!IsWhole(z.in) /\ Tls!InTurn(z.in, z.seqIn) /\ z.in[1].kind = "ticket"
  <2>1. y = [z EXCEPT !.in = Rest(z.in), !.seqIn = @ + 1]
    BY <1>3 DEF Tls!AfterTicket, Rest
  <2> HIDE DEF y
  <2>2. y.in = Rest(z.in) /\ y.seqIn = z.seqIn + 1 /\ y.plain = z.plain
    BY <1>1, <2>1 DEF Reads
  <2>3. ~Tls!IsBad(z.in, z.seqIn)
    <3> DEFINE s == z.in
    <3>1. s \in Seq(Tls!Units(Tls!Peer(e), K)) /\ s # <<>> /\ Tls!InTurn(s, z.seqIn)
      BY <1>1, <1>3 DEF Tls!IsWhole
    <3> HIDE DEF s
    <3>2. s[1] \in Tls!Units(Tls!Peer(e), K)
      BY <3>1
    <3>3. 1 \in 1..s[1].of
      BY <3>2, UnitFacts
    <3>4. s[1].i = 1
      BY <3>1, <3>3 DEF Tls!InTurn
    <3> QED  BY <3>1, <3>4 DEF Tls!IsBad, s
  <2>4. /\ y.in \in Seq(Tls!Units(Tls!Peer(e), K)) /\ y.seqIn \in Nat \ {0} /\ y.seqIn <= K
        /\ Awaits(e, y.seqIn) /\ StaysInPlace(e, z, y)
        /\ z.in[1].kind = Tls!KindOf(Tls!Peer(e), z.seqIn)
    <3>1. Tls!IsWhole(z.in)
      BY <1>3
    <3> QED  BY <2>2, <2>3, <3>1, OneRead
  <2>5. z.seqIn = 2
    <3>1. Tls!KindOf(Tls!Peer(e), z.seqIn) = "ticket"
      BY <1>3, <2>4
    <3>2. z.seqIn >= 3 => Tls!KindOf(Tls!Peer(e), z.seqIn) = "app"
      BY <1>1 DEF Tls!KindOf
    <3> QED  BY <1>1, <3>1, <3>2 DEF Awaits
  <2>6. y \in Reads(e, K)
    BY <1>1, <2>1, <2>4, <2>2 DEF Reads
  <2> QED  BY <2>2, <2>4, <2>5, <2>6 DEF Readable
<1>4. CASE ~(Tls!IsWhole(z.in) /\ Tls!InTurn(z.in, z.seqIn) /\ z.in[1].kind = "ticket")
  <2>1. y = z
    BY <1>4 DEF Tls!AfterTicket
  <2> HIDE DEF y
  <2>2. ASSUME z.seqIn = 2, Tls!IsWhole(z.in), ~Tls!IsBad(z.in, 2) PROVE FALSE
    <3> DEFINE s == z.in
               q == 2
    <3>1. s \in Seq(Tls!Units(Tls!Peer(e), K)) /\ q \in Nat \ {0} /\ Tls!IsWhole(s)
            /\ ~Tls!IsBad(s, q)
      BY <1>1, <2>2
    <3> HIDE DEF s, q
    <3>2. Tls!InTurn(s, q) /\ s[1].kind = Tls!KindOf(Tls!Peer(e), q)
      BY <3>1, NextRecord
    <3>3. Tls!Peer(e) = "server" /\ version = "1.3"
      BY <1>1, <1>2, <2>2 DEF Awaits
    <3>4. Tls!KindOf(Tls!Peer(e), q) = "ticket"
      BY <3>3 DEF Tls!KindOf, q
    <3> QED  BY <1>4, <2>2, <3>2, <3>4 DEF s, q
  <2>3. StaysInPlace(e, z, y)
    BY <2>1 DEF StaysInPlace
  <2> QED  BY <1>1, <2>1, <2>2, <2>3 DEF Readable
<1> QED  BY <1>3, <1>4

\* One record is decrypted, if there is one and no plaintext is left.
LEMMA OneDecrypted ==
    ASSUME NEW e \in Tls!Ends, NEW K \in Nat, NEW z, Readable(e, K, z),
           z.seqIn = 2 => ~Tls!IsWhole(z.in) \/ Tls!IsBad(z.in, 2)
    PROVE  /\ Readable(e, K, Tls!Decrypt(z)) /\ StaysInPlace(e, z, Tls!Decrypt(z))
           /\ \/ /\ Tls!Decrypt(z).seqIn = z.seqIn /\ Tls!Decrypt(z).plain = z.plain
                 /\ \/ z.plain # <<>> \/ ~Tls!IsWhole(Tls!Decrypt(z).in)
                    \/ Tls!IsBad(Tls!Decrypt(z).in, Tls!Decrypt(z).seqIn)
              \/ /\ z.plain = <<>> /\ z.seqIn >= 3 /\ Tls!Decrypt(z).seqIn = z.seqIn + 1
                 /\ Tls!Decrypt(z).plain = Plain(Tls!Peer(e), z.seqIn)
<1>1. /\ z \in Reads(e, K) /\ z.in \in Seq(Tls!Units(Tls!Peer(e), K)) /\ z.seqIn \in Nat \ {0}
      /\ z.seqIn <= K /\ Awaits(e, z.seqIn) /\ z.plain \in Seq(Nat)
  BY DEF Readable, Reads
<1> DEFINE y == Tls!Decrypt(z)
<1> SUFFICES /\ Readable(e, K, y) /\ StaysInPlace(e, z, y)
             /\ \/ /\ y.seqIn = z.seqIn /\ y.plain = z.plain
                   /\ z.plain # <<>> \/ ~Tls!IsWhole(y.in) \/ Tls!IsBad(y.in, y.seqIn)
                \/ /\ z.plain = <<>> /\ z.seqIn >= 3 /\ y.seqIn = z.seqIn + 1
                   /\ y.plain = Plain(Tls!Peer(e), z.seqIn)
  OBVIOUS
<1>2. CASE z.plain # <<>> \/ ~Tls!IsWhole(z.in) \/ Tls!IsBad(z.in, z.seqIn)
  <2>1. y = z
    BY <1>2 DEF Tls!Decrypt
  <2> HIDE DEF y
  <2>2. StaysInPlace(e, z, y)
    BY <2>1 DEF StaysInPlace
  <2> QED  BY <1>2, <2>1, <2>2
<1>3. CASE ~(z.plain # <<>> \/ ~Tls!IsWhole(z.in) \/ Tls!IsBad(z.in, z.seqIn))
  <2> DEFINE new == [j \in 1..z.in[1].of - 1 |-> z.in[1].n + j]
  <2>1. y = [z EXCEPT !.in = Rest(z.in), !.seqIn = @ + 1, !.plain = new]
    BY <1>3 DEF Tls!Decrypt, Rest
  <2> HIDE DEF y, new
  <2>2. y.in = Rest(z.in) /\ y.seqIn = z.seqIn + 1 /\ y.plain = new
    BY <1>1, <2>1 DEF Reads
  <2>3. Tls!IsWhole(z.in) /\ ~Tls!IsBad(z.in, z.seqIn) /\ z.plain = <<>>
    BY <1>3
  <2>4. /\ y.in \in Seq(Tls!Units(Tls!Peer(e), K)) /\ y.seqIn \in Nat \ {0} /\ y.seqIn <= K
        /\ Awaits(e, y.seqIn) /\ StaysInPlace(e, z, y)
        /\ z.in[1].of = Tls!Size(Tls!Peer(e), z.seqIn)
        /\ z.in[1].n = IF z.seqIn <= 2 THEN 0 ELSE Tls!Given(Tls!Peer(e), z.seqIn - 3)
    BY <2>2, <2>3, OneRead
  <2>5. z.seqIn >= 3
    BY <1>1, <2>3 DEF Awaits
  <2>6. z.in[1].n = Tls!Given(Tls!Peer(e), z.seqIn - 3)
    BY <1>1, <2>4, <2>5
  <2>7. new = Plain(Tls!Peer(e), z.seqIn)
    BY <2>4, <2>6 DEF new, Plain
  <2>8. new \in Seq(Nat)
    BY <1>1, <2>5, <2>7, TwoEnds, CarriedFollows
  <2>9. y \in Reads(e, K)
    BY <1>1, <2>1, <2>2, <2>4, <2>8 DEF Reads
  <2> QED  BY <2>2, <2>3, <2>4, <2>5, <2>7, <2>9 DEF Readable
<1> QED  BY <1>2, <1>3

\* What ReadBio does to the read BIO and to the plaintext: handed is what has
\* been handed up.
BioIs(e, K, z, up, x) ==
    /\ Readable(e, K, x) /\ StaysInPlace(e, z, x)
    /\ up \o x.plain = Tls!Carried(Tls!Peer(e), x.seqIn)
    /\ x.plain = z.plain \/ Len(x.plain) <= Tls!Least(Payload, MaxRecord)
    /\ x.plain = <<>> => ~Tls!IsWhole(x.in) \/ Tls!IsBad(x.in, x.seqIn)

\* ReadBio does that.
LEMMA BioRead ==
    ASSUME version \in {"1.2", "1.3"}, NEW e \in Tls!Ends, NEW K \in Nat, NEW z,
           Readable(e, K, z),
           NEW up \in Seq(Nat), up \o z.plain = Tls!Carried(Tls!Peer(e), z.seqIn),
           NEW x, x = Tls!Decrypt(Tls!AfterTicket(z))
    PROVE  BioIs(e, K, z, up, x)
<1> DEFINE y == Tls!AfterTicket(z)
<1>1. /\ Readable(e, K, y) /\ y.plain = z.plain /\ StaysInPlace(e, z, y)
      /\ y.seqIn = z.seqIn \/ (z.seqIn = 2 /\ y.seqIn = 3)
      /\ y.seqIn = 2 => ~Tls!IsWhole(y.in) \/ Tls!IsBad(y.in, 2)
  BY TicketPassed
<1>2. x = Tls!Decrypt(y)
  OBVIOUS
<1> HIDE DEF y
<1>3. /\ Readable(e, K, x) /\ StaysInPlace(e, y, x)
      /\ \/ /\ x.seqIn = y.seqIn /\ x.plain = y.plain
            /\ y.plain # <<>> \/ ~Tls!IsWhole(x.in) \/ Tls!IsBad(x.in, x.seqIn)
         \/ /\ y.plain = <<>> /\ y.seqIn >= 3 /\ x.seqIn = y.seqIn + 1
            /\ x.plain = Plain(Tls!Peer(e), y.seqIn)
  <2>1. /\ Readable(e, K, Tls!Decrypt(y)) /\ StaysInPlace(e, y, Tls!Decrypt(y))
        /\ \/ /\ Tls!Decrypt(y).seqIn = y.seqIn /\ Tls!Decrypt(y).plain = y.plain
              /\ \/ y.plain # <<>> \/ ~Tls!IsWhole(Tls!Decrypt(y).in)
                 \/ Tls!IsBad(Tls!Decrypt(y).in, Tls!Decrypt(y).seqIn)
           \/ /\ y.plain = <<>> /\ y.seqIn >= 3 /\ Tls!Decrypt(y).seqIn = y.seqIn + 1
              /\ Tls!Decrypt(y).plain = Plain(Tls!Peer(e), y.seqIn)
    BY <1>1, OneDecrypted
  <2> QED  BY <1>2, <2>1
<1>4. StaysInPlace(e, z, x)
  BY <1>1, <1>3 DEF StaysInPlace
<1>5. Tls!Carried(Tls!Peer(e), y.seqIn) = Tls!Carried(Tls!Peer(e), z.seqIn)
  <2>1. Tls!Peer(e) \in Tls!Ends
    BY TwoEnds
  <2>2. CASE z.seqIn = 2 /\ y.seqIn = 3
    <3>1. 2 \in Nat \ {0} /\ 2 <= 3
      OBVIOUS
    <3>2. Tls!Carried(Tls!Peer(e), 2) = Tls!Carried(Tls!Peer(e), 3)
      BY <2>1, <3>1, CarriedFollows
    <3> QED  BY <2>2, <3>2
  <2> QED  BY <1>1, <2>2
<1> SUFFICES /\ up \o x.plain = Tls!Carried(Tls!Peer(e), x.seqIn)
             /\ x.plain = z.plain \/ Len(x.plain) <= Tls!Least(Payload, MaxRecord)
             /\ x.plain = <<>> => ~Tls!IsWhole(x.in) \/ Tls!IsBad(x.in, x.seqIn)
  BY <1>3, <1>4 DEF BioIs
<1>6. CASE /\ x.seqIn = y.seqIn /\ x.plain = y.plain
           /\ y.plain # <<>> \/ ~Tls!IsWhole(x.in) \/ Tls!IsBad(x.in, x.seqIn)
  BY <1>1, <1>3, <1>4, <1>5, <1>6
<1>7. CASE /\ y.plain = <<>> /\ y.seqIn >= 3 /\ x.seqIn = y.seqIn + 1
           /\ x.plain = Plain(Tls!Peer(e), y.seqIn)
  <2>1. PICK q \in Nat \ {0} : q = y.seqIn /\ q >= 3
    BY <1>1, <1>7 DEF Readable, Reads
  <2>2. PICK p \in Tls!Ends : p = Tls!Peer(e)
    BY TwoEnds
  <2>3. /\ Plain(p, q) \in Seq(Nat) /\ Len(Plain(p, q)) >= 1
        /\ Len(Plain(p, q)) <= Tls!Least(Payload, MaxRecord)
        /\ Tls!Carried(p, q) \o Plain(p, q) = Tls!Carried(p, q + 1)
    BY <2>1, CarriedFollows
  <2>4. x.plain = Plain(p, q) /\ x.seqIn = q + 1
    BY <1>7, <2>1, <2>2
  <2>5. up = Tls!Carried(p, q)
    <3>1. up \o <<>> = up
      <4>1. up \o <<>> \in Seq(Nat) /\ Len(up \o <<>>) = Len(up)
            /\ \A i \in 1..Len(up) : (up \o <<>>)[i] = up[i]
        <5>1. <<>> \in Seq(Nat) /\ Len(<<>>) = 0
          OBVIOUS
        <5> QED  BY <5>1, PutTogether
      <4> QED  BY <4>1, SameUnits
    <3>2. up \o <<>> = Tls!Carried(p, q)
      BY <1>1, <1>5, <1>7, <2>1, <2>2
    <3> QED  BY <3>1, <3>2
  <2>6. x.plain # <<>>
    <3>1. Len(<<>>) = 0
      OBVIOUS
    <3> QED  BY <2>3, <2>4, <3>1
  <2>7. up \o x.plain = Tls!Carried(Tls!Peer(e), x.seqIn)
    BY <2>2, <2>3, <2>4, <2>5
  <2>8. Len(x.plain) <= Tls!Least(Payload, MaxRecord)
    BY <2>3, <2>4
  <2> QED  BY <2>6, <2>7, <2>8
<1> QED  BY <1>3, <1>6, <1>7

-----------------------------------------------------------------------------
(* The invariant. *)

\* After two calls an end is done, or has failed, or has no whole record left.
LEMMA NoneWhole ==
    ASSUME version \in {"1.2", "1.3"}, NEW e \in Tls!Ends, NEW K \in Nat, NEW w, Sound(e, K, w),
           NEW y, Outcome(w, y), NEW x, Outcome(y, x),
           y = [stage |-> y.stage, out |-> y.out, in |-> y.in, seqIn |-> y.seqIn,
                seqOut |-> y.seqOut],
           x = [stage |-> x.stage, out |-> x.out, in |-> x.in, seqIn |-> x.seqIn,
                seqOut |-> x.seqOut]
    PROVE  /\ Sound(e, K, y) /\ Sound(e, K, x)
           /\ SameCount(w.seqOut, x.seqOut) /\ SameCount(w.seqIn, x.seqIn)
           /\ x.stage \in {"done", "failed"} \/ ~Tls!IsWhole(x.in)
<1>1. /\ Sound(e, K, y) /\ SameCount(w.seqOut, y.seqOut) /\ SameCount(w.seqIn, y.seqIn)
      /\ \/ y.stage \in {"done", "failed"} \/ ~Tls!IsWhole(y.in)
         \/ w.stage = "wait_ch" /\ y.stage = "wait_fin"
         \/ w.stage = "wait_sh" /\ y.stage = "wait_sfin"
  BY HandshakeKeeps
<1>2. /\ Sound(e, K, x) /\ SameCount(y.seqOut, x.seqOut) /\ SameCount(y.seqIn, x.seqIn)
      /\ \/ x.stage \in {"done", "failed"} \/ ~Tls!IsWhole(x.in)
         \/ y.stage = "wait_ch" /\ x.stage = "wait_fin"
         \/ y.stage = "wait_sh" /\ x.stage = "wait_sfin"
  BY <1>1, HandshakeKeeps
<1>3. /\ w.seqIn \in Nat /\ y.seqIn \in Nat /\ x.seqIn \in Nat
      /\ w.seqOut \in Nat /\ y.seqOut \in Nat /\ x.seqOut \in Nat
  BY <1>1, <1>2 DEF Sound, States
<1>4. SameCount(w.seqOut, x.seqOut) /\ SameCount(w.seqIn, x.seqIn)
  BY <1>1, <1>2, <1>3 DEF SameCount
<1>5. ASSUME ~Tls!IsWhole(y.in) PROVE x.stage \in {"done", "failed"} \/ ~Tls!IsWhole(x.in)
  BY <1>5 DEF Outcome, ReadsRecord, ReadsNothing
<1>6. ASSUME y.stage \in {"done", "failed"} PROVE x.stage \in {"done", "failed"}
  BY <1>6 DEF Outcome
<1>7. ASSUME y.stage \in {"wait_fin", "wait_sfin"}
      PROVE  x.stage \in {"done", "failed"} \/ ~Tls!IsWhole(x.in)
  BY <1>2, <1>7
<1> QED  BY <1>1, <1>2, <1>4, <1>5, <1>6, <1>7

\* While nothing is spoilt, what the peer can have written is bounded by the
\* end's stage.
LEMMA PeerBehind ==
    ASSUME Tls!ShapeInv, Tls!StageInv, Tls!StreamInv, ~Tls!Spoilt, NEW e \in Tls!Ends,
           ~(e = "server" /\ Tls!Reset)
    PROVE  PeerIsBehind(ssl[e].stage, ssl[Tls!Peer(e)].seqOut)
<1> DEFINE p == Tls!Peer(e)
<1>1. /\ p \in Tls!Ends /\ Tls!Peer(p) = e /\ (e = "client" <=> p = "server")
      /\ (e = "server" <=> p = "client")
  BY TwoEnds
<1>2. /\ ssl[e].seqIn \in Nat /\ ssl[e].seqOut \in Nat /\ ssl[p].seqIn \in Nat
      /\ ssl[p].seqOut \in Nat /\ ssl[e].seqOut # 0 /\ ssl[p].seqOut # 0
      /\ ssl[p].stage \in Tls!Stages
  BY <1>1 DEF Tls!ShapeInv
<1>3. /\ Tls!AtStage(e, ssl[e].stage, ssl[e].seqIn, ssl[e].seqOut)
      /\ Tls!AtStage(p, ssl[p].stage, ssl[p].seqIn, ssl[p].seqOut)
      /\ ssl[p].seqIn <= ssl[e].seqOut
  BY <1>1 DEF Tls!StageInv
<1>4. ssl[p].stage = "failed" => p = "server" /\ ssl[p].seqIn >= 3
  BY <1>1 DEF Tls!StreamInv
<1> HIDE DEF p
<1>5. ssl[e].stage = "new" => ssl[p].seqOut = 1
  BY <1>1, <1>2, <1>3, <1>4 DEF Tls!AtStage, Tls!Stages
<1>6. ssl[e].stage \in {"wait_ch", "wait_sh"} => ssl[p].seqOut <= 2
  BY <1>1, <1>2, <1>3, <1>4 DEF Tls!AtStage, Tls!Stages
<1>7. ssl[e].stage = "wait_fin" /\ version = "1.2" => ssl[p].seqOut <= 3
  BY <1>1, <1>2, <1>3, <1>4 DEF Tls!AtStage, Tls!Stages
<1> QED  BY <1>5, <1>6, <1>7 DEF PeerIsBehind, p

\* The parts of the invariant that are of each end.
LEMMA TypeKeeps ==
    ASSUME Tls!TypeOK, NEW e \in Tls!Ends, NEW v, ssl'[e] = v,
           ssl'[Tls!Peer(e)] = ssl[Tls!Peer(e)],
           bConencted_' \in [Tls!Ends -> BOOLEAN], tClosed' \in [Tls!Ends -> BOOLEAN],
           bConencted_'[Tls!Peer(e)] = bConencted_[Tls!Peer(e)],
           bConencted_'[e] <=> v.stage = "done",
           v.stage \in Tls!Stages, v.plain # <<>> => Len(v.plain) < Tls!Least(Payload, MaxRecord),
           Tls!IsWhole(v.part) => v.stage = "failed", queued' \in 0..MaxQueued
    PROVE  Tls!TypeOK'
<1> DEFINE p == Tls!Peer(e)
<1>1. p \in Tls!Ends /\ \A x \in Tls!Ends : x = e \/ x = p
  BY TwoEnds
<1>2. (/\ ssl[p].stage \in {"new", "wait_ch", "wait_sh", "wait_fin", "wait_sfin", "done", "failed"}
       /\ bConencted_[p] <=> ssl[p].stage = "done"
       /\ ssl[p].plain # << >> => Len(ssl[p].plain) < Tls!Least(Payload, MaxRecord)
       /\ Tls!IsWhole(ssl[p].part) => ssl[p].stage = "failed")'
  <2>1. /\ ssl[p].stage \in {"new", "wait_ch", "wait_sh", "wait_fin", "wait_sfin", "done", "failed"}
        /\ bConencted_[p] <=> ssl[p].stage = "done"
        /\ ssl[p].plain # << >> => Len(ssl[p].plain) < Tls!Least(Payload, MaxRecord)
        /\ Tls!IsWhole(ssl[p].part) => ssl[p].stage = "failed"
    BY <1>1 DEF Tls!TypeOK
  <2>2. ssl'[p] = ssl[p] /\ bConencted_'[p] = bConencted_[p]
    OBVIOUS
  <2> QED  BY <2>1, <2>2 DEF Tls!IsWhole
<1>3. (/\ ssl[e].stage \in {"new", "wait_ch", "wait_sh", "wait_fin", "wait_sfin", "done", "failed"}
       /\ bConencted_[e] <=> ssl[e].stage = "done"
       /\ ssl[e].plain # << >> => Len(ssl[e].plain) < Tls!Least(Payload, MaxRecord)
       /\ Tls!IsWhole(ssl[e].part) => ssl[e].stage = "failed")'
  BY DEF Tls!IsWhole, Tls!Stages
<1> HIDE DEF p
<1>4. \A x \in Tls!Ends :
      (/\ ssl[x].stage \in {"new", "wait_ch", "wait_sh", "wait_fin", "wait_sfin", "done", "failed"}
       /\ bConencted_[x] <=> ssl[x].stage = "done"
       /\ ssl[x].plain # << >> => Len(ssl[x].plain) < Tls!Least(Payload, MaxRecord)
       /\ Tls!IsWhole(ssl[x].part) => ssl[x].stage = "failed")'
  BY <1>1, <1>2, <1>3
<1> QED  BY <1>4 DEF Tls!TypeOK

\* What has been decrypted.
LEMMA HandedKeeps ==
    ASSUME Tls!HandedInv, NEW e \in Tls!Ends, NEW v, ssl'[e] = v,
           ssl'[Tls!Peer(e)] = ssl[Tls!Peer(e)],
           got'[Tls!Peer(e)] = got[Tls!Peer(e)],
           got'[e] \o v.plain = Tls!Carried(Tls!Peer(e), v.seqIn)
    PROVE  Tls!HandedInv'
<1> DEFINE p == Tls!Peer(e)
<1>1. p \in Tls!Ends /\ \A x \in Tls!Ends : x = e \/ x = p
  BY TwoEnds
<1>2. got'[p] \o ssl'[p].plain = Tls!Carried(Tls!Peer(p), ssl'[p].seqIn)
  BY <1>1 DEF Tls!HandedInv
<1>3. got'[e] \o ssl'[e].plain = Tls!Carried(Tls!Peer(e), ssl'[e].seqIn)
  OBVIOUS
<1> HIDE DEF p
<1>4. \A x \in Tls!Ends : (got[x] \o ssl[x].plain = Tls!Carried(Tls!Peer(x), ssl[x].seqIn))'
  BY <1>1, <1>2, <1>3 DEF Tls!Bytes, Tls!Count
<1> QED  BY <1>4 DEF Tls!HandedInv

\* What nothing changes holds on.
LEMMA TlsUnchanged ==
    ASSUME Tls!TlsInv,
           UNCHANGED <<version, bConencted_, ssl, rbio_, tWire, tClosed, tSent, queued,
                               got, tDisorder>>
    PROVE  Tls!TlsInv'
<1>1. Tls!TypeOK'
  BY DEF Tls!TlsInv, Tls!TypeOK, Tls!IsWhole
<1>2. Tls!ShapeInv'
  BY DEF Tls!TlsInv, Tls!ShapeInv
<1>3. Tls!UnitsInv'
  <2>1. ASSUME NEW e \in Tls!Ends
        PROVE  (/\ ssl[e].part \in Seq(Tls!Units(Tls!Peer(e), ssl[Tls!Peer(e)].seqOut))
                /\ rbio_[e] \in Seq(Tls!Units(Tls!Peer(e), ssl[Tls!Peer(e)].seqOut))
                /\ tWire[e] \in Seq(Tls!Units(Tls!Peer(e), ssl[Tls!Peer(e)].seqOut)))'
    <3>1. Tls!Peer(e) \in Tls!Ends
      BY TwoEnds
    <3>2. PICK K \in Nat : K = ssl[Tls!Peer(e)].seqOut
      BY <3>1 DEF Tls!TlsInv, Tls!ShapeInv
    <3>3. Tls!Units(Tls!Peer(e), K)' = Tls!Units(Tls!Peer(e), K)
      BY UnitsStay
    <3>4. /\ ssl[e].part \in Seq(Tls!Units(Tls!Peer(e), K))
               /\ rbio_[e] \in Seq(Tls!Units(Tls!Peer(e), K))
          /\ tWire[e] \in Seq(Tls!Units(Tls!Peer(e), K))
      BY <3>2 DEF Tls!TlsInv, Tls!UnitsInv
    <3> QED  BY <3>2, <3>3, <3>4
  <2> QED  BY <2>1 DEF Tls!UnitsInv
<1>4. Tls!StageInv'
  BY DEF Tls!TlsInv, Tls!StageInv, Tls!AtStage, Tls!Count
<1>5. Tls!HandedInv'
  BY DEF Tls!TlsInv, Tls!HandedInv
<1>6. Tls!StreamInv'
  <2>1. Tls!Spoilt' = Tls!Spoilt /\ Tls!Reset' = Tls!Reset
    BY DEF Tls!Spoilt, Tls!Reset
  <2>2. \A e \in Tls!Ends : Tls!Before(e)' = Tls!Before(e)
    BY DEF Tls!Before
  <2>3. \A e \in Tls!Ends :
          Tls!InPlace(Tls!Peer(e), Tls!Before(e), Tls!Start(Tls!Peer(e), ssl[e].seqIn)) =>
            Tls!InPlace(Tls!Peer(e), Tls!Before(e), Tls!Start(Tls!Peer(e), ssl[e].seqIn))'
    BY <2>2 DEF Tls!InPlace, Tls!Start
  <2>4. \A e \in Tls!Ends : (Tls!Start(Tls!Peer(e), ssl[Tls!Peer(e)].seqOut)
            - Tls!Start(Tls!Peer(e), ssl[e].seqIn))'
                          = Tls!Start(Tls!Peer(e), ssl[Tls!Peer(e)].seqOut)
                              - Tls!Start(Tls!Peer(e), ssl[e].seqIn)
    BY DEF Tls!Start
  <2> QED  BY <2>1, <2>2, <2>3, <2>4 DEF Tls!TlsInv, Tls!StreamInv
<1>7. Tls!SlackInv'
  BY DEF Tls!TlsInv, Tls!SlackInv
<1> QED  BY <1>1, <1>2, <1>3, <1>4, <1>5, <1>6, <1>7 DEF Tls!TlsInv

\* It holds initially.
LEMMA TlsInitially == Tls!Init => Tls!TlsInv
<1> SUFFICES ASSUME Tls!Init PROVE Tls!TlsInv
  OBVIOUS
<1>1. /\ version \in {"1.2", "1.3"} /\ bConencted_ = [e \in Tls!Ends |-> FALSE]
      /\ ssl = [e \in Tls!Ends |-> Tls!Fresh(IF e = "client" THEN "new" ELSE "wait_ch")]
      /\ rbio_ = [e \in Tls!Ends |-> << >>] /\ tWire = [e \in Tls!Ends |-> << >>]
      /\ tClosed = [e \in Tls!Ends |-> FALSE] /\ tSent = [e \in Tls!Ends |-> 0] /\ queued = 0
      /\ got = [e \in Tls!Ends |-> << >>] /\ tDisorder = {}
  BY DEF Tls!Init
<1>2. \A e \in Tls!Ends :
             /\ e = "client" => ssl[e].stage = "new"
             /\ e = "server" => ssl[e].stage = "wait_ch"
             /\ ssl[e].part = << >> /\ ssl[e].seqIn = 1 /\ ssl[e].seqOut = 1
             /\ ssl[e].plain = << >> /\ ssl[e] = Tls!Fresh(ssl[e].stage)
             /\ rbio_[e] = << >> /\ tWire[e] = << >> /\ bConencted_[e] = FALSE
             /\ tSent[e] = 0 /\ got[e] = << >> /\ Tls!Peer(e) \in Tls!Ends
             /\ e \in {"client", "server"}
  <2> TAKE e \in Tls!Ends
  <2> DEFINE stage == IF e = "client" THEN "new" ELSE "wait_ch"
  <2>1. ssl[e] = Tls!Fresh(stage)
    BY <1>1
  <2>2. stage = (IF e = "client" THEN "new" ELSE "wait_ch")
    OBVIOUS
  <2> HIDE DEF stage
  <2>3. /\ ssl[e].stage = stage /\ ssl[e].part = << >> /\ ssl[e].seqIn = 1
        /\ ssl[e].seqOut = 1 /\ ssl[e].plain = << >>
    BY <2>1 DEF Tls!Fresh
  <2>4. /\ rbio_[e] = << >> /\ tWire[e] = << >> /\ bConencted_[e] = FALSE
        /\ tSent[e] = 0 /\ got[e] = << >>
    BY <1>1
  <2> QED  BY <2>1, <2>2, <2>3, <2>4, TwoEnds DEF Tls!Ends
<1>3. \A S : <<>> \in Seq(S)
  OBVIOUS
<1>4. Len(<<>>) = 0 /\ ~Tls!IsWhole(<<>>)
  BY DEF Tls!IsWhole
<1>5. Tls!TypeOK
  <2>1. bConencted_ \in [Tls!Ends -> BOOLEAN] /\ tClosed \in [Tls!Ends -> BOOLEAN]
    BY <1>1
  <2>2. queued \in 0..MaxQueued
    BY <1>1, TlsBounds
  <2>3. ASSUME NEW e \in Tls!Ends
        PROVE  /\ ssl[e].stage \in {"new", "wait_ch"} /\ bConencted_[e] = FALSE
               /\ ssl[e].plain = <<>> /\ ssl[e].part = <<>>
    BY <1>2
  <2> QED  BY <1>4, <2>1, <2>2, <2>3 DEF Tls!TypeOK
<1>6. Tls!ShapeInv
  <2>1. ssl \in [Tls!Ends -> SslState]
    <3>1. ASSUME NEW e \in Tls!Ends PROVE ssl[e] \in SslState
      <4> DEFINE stage == ssl[e].stage
      <4>1. ssl[e] = Tls!Fresh(stage) /\ stage \in Tls!Stages
        BY <1>2 DEF Tls!Stages
      <4> HIDE DEF stage
      <4> QED  BY <1>3, <4>1 DEF SslState, Tls!Fresh
    <3> QED  BY <1>1, <3>1
  <2> QED  BY <1>1, <1>3, <2>1 DEF Tls!ShapeInv, SslState
<1>7. Tls!UnitsInv
  <2>1. ASSUME NEW e \in Tls!Ends, NEW S
        PROVE  ssl[e].part \in Seq(S) /\ rbio_[e] \in Seq(S) /\ tWire[e] \in Seq(S)
    <3>1. ssl[e].part = <<>> /\ rbio_[e] = <<>> /\ tWire[e] = <<>>
      BY <1>2
    <3>2. <<>> \in Seq(S)
      OBVIOUS
    <3> QED  BY ONLY <3>1, <3>2
  <2> QED  BY <2>1 DEF Tls!UnitsInv
<1>8. Tls!StageInv
  <2>1. ASSUME NEW e \in Tls!Ends PROVE tSent[e] * Tls!Records(e) = Tls!Count(ssl[e].seqOut)
    <3>1. tSent[e] = 0 /\ ssl[e].seqOut = 1 /\ Tls!Count(1) = 0
      BY <1>2 DEF Tls!Count
    <3>2. 0 * Tls!Records(e) = 0
      BY RecordsOf
    <3> QED  BY <3>1, <3>2
  <2>2. ASSUME NEW e \in Tls!Ends
        PROVE  /\ Tls!AtStage(e, ssl[e].stage, ssl[e].seqIn, ssl[e].seqOut)
               /\ ssl[e].seqIn <= ssl[Tls!Peer(e)].seqOut
    BY <1>2 DEF Tls!AtStage
  <2> QED  BY <2>1, <2>2 DEF Tls!StageInv
<1>9. Tls!HandedInv
  <2>4. ASSUME NEW e \in Tls!Ends
        PROVE  got[e] \o ssl[e].plain = Tls!Carried(Tls!Peer(e), ssl[e].seqIn)
    <3>1. got[e] = <<>> /\ ssl[e].plain = <<>> /\ ssl[e].seqIn = 1
      BY <1>2
    <3>2. Tls!Peer(e) \in Tls!Ends /\ 1 \in Nat \ {0} /\ 1 <= 3
      BY TwoEnds
    <3>3. Tls!Carried(Tls!Peer(e), 1) = <<>>
      BY <3>2, CarriedFollows
    <3>4. <<>> \o <<>> = <<>>
      OBVIOUS
    <3> QED  BY <3>1, <3>3, <3>4
  <2> QED  BY <2>4 DEF Tls!HandedInv
<1>10. Tls!StreamInv
  <2>1. ~Tls!Reset
    BY <1>1 DEF Tls!Reset
  <2>2. ASSUME NEW e \in Tls!Ends
        PROVE  /\ Len(Tls!Before(e)) = Tls!Start(Tls!Peer(e), ssl[Tls!Peer(e)].seqOut)
                      - Tls!Start(Tls!Peer(e), ssl[e].seqIn)
               /\ Tls!InPlace(Tls!Peer(e), Tls!Before(e), Tls!Start(Tls!Peer(e), ssl[e].seqIn))
    <3>1. Tls!Before(e) = <<>>
      BY <1>2 DEF Tls!Before
    <3>2. ssl[Tls!Peer(e)].seqOut = 1 /\ ssl[e].seqIn = 1
      BY <1>2
    <3>3. Tls!Start(Tls!Peer(e), 1) = 1
      BY DEF Tls!Start
    <3> QED  BY <1>4, <3>1, <3>2, <3>3 DEF Tls!InPlace
  <2>3. \A e \in Tls!Ends : ssl[e].stage # "failed"
    BY <1>2
  <2> QED  BY <2>1, <2>2, <2>3 DEF Tls!StreamInv
<1>11. Tls!SlackInv
  BY <1>2 DEF Tls!SlackInv
<1> QED  BY <1>5, <1>6, <1>7, <1>8, <1>9, <1>10, <1>11 DEF Tls!TlsInv

\* OpenSSL's state once it has written.
Becomes(e, v)      == ssl' = [ssl EXCEPT ![e] = v]
Advances(e, a, r)  == ssl' = [ssl EXCEPT ![e].stage = a, ![e].seqOut = r]

\* The second is of the form of the first.
LEMMA StateWritten ==
    ASSUME ssl \in [Tls!Ends -> SslState], NEW e \in Tls!Ends, NEW a \in Tls!Stages,
           NEW r \in Nat \ {0}, Advances(e, a, r)
    PROVE  \E v \in SslState :
             /\ v.stage = a /\ v.part = ssl[e].part /\ v.seqIn = ssl[e].seqIn
             /\ v.seqOut = r /\ v.plain = ssl[e].plain /\ Becomes(e, v)
<1>1. PICK s \in SslState : s = ssl[e]
  OBVIOUS
<1> DEFINE v == [s EXCEPT !.stage = a, !.seqOut = r]
<1>2. Becomes(e, v)
  BY <1>1 DEF Becomes, Advances
<1>3. /\ v \in SslState /\ v.stage = a /\ v.seqOut = r
      /\ v.part = s.part /\ v.seqIn = s.seqIn /\ v.plain = s.plain
  BY <1>1 DEF SslState
<1> HIDE DEF v
<1> QED  BY <1>1, <1>2, <1>3

\* What an end writes of its own accord: the next records, of which nothing but
\* seqOut, the stage and the count tell.
LEMMA WritesOne ==
    ASSUME Tls!TlsInv, NEW e \in Tls!Ends, NEW q \in Nat \ {0}, q = ssl[e].seqOut,
           NEW M \in Nat \ {0}, q < M,
           NEW stage \in Tls!Stages \ {"failed"}, Tls!AtStage(e, stage, ssl[e].seqIn, M),
           ssl[e].stage # "failed", bConencted_[e] <=> stage = "done",
           NEW out \in Seq(Tls!Units(e, M)), Tls!InPlace(e, out, Tls!Start(e, q)),
           Len(out) = Tls!Start(e, M) - Tls!Start(e, q), Tls!Exchange(e, 0, out),
           tDisorder' = tDisorder \cup Tls!Queued,
           Advances(e, stage, M),
           tSent' \in [Tls!Ends -> Nat], tSent'[e] * Tls!Records(e) = Tls!Count(M),
           tSent'[Tls!Peer(e)] = tSent[Tls!Peer(e)],
           UNCHANGED <<version, bConencted_, rbio_, tClosed, got>>
    PROVE  Tls!TlsInv'
<1>1. /\ Tls!TypeOK /\ Tls!ShapeInv /\ Tls!UnitsInv /\ Tls!StageInv /\ Tls!HandedInv
           /\ Tls!StreamInv /\ Tls!SlackInv
  BY DEF Tls!TlsInv
<1>2. /\ Tls!Peer(e) \in Tls!Ends /\ Tls!Peer(e) # e /\ Tls!Peer(Tls!Peer(e)) = e
      /\ \A x \in Tls!Ends : x = e \/ x = Tls!Peer(e)
  BY TwoEnds
<1>3. /\ ssl \in [Tls!Ends -> SslState] /\ rbio_ \in [Tls!Ends -> Seq(Tls!AnyUnit)]
      /\ tWire \in [Tls!Ends -> Seq(Tls!AnyUnit)] /\ got \in [Tls!Ends -> Seq(Nat)]
  BY <1>1 DEF Tls!ShapeInv, SslState
<1>4. PICK K \in Nat : K = ssl[Tls!Peer(e)].seqOut
  BY <1>2, <1>3 DEF SslState
<1>5. PICK v \in SslState :
         /\ v.stage = stage /\ v.part = ssl[e].part /\ v.seqIn = ssl[e].seqIn
         /\ v.seqOut = M /\ v.plain = ssl[e].plain /\ Becomes(e, v)
  <2>1. stage \in Tls!Stages
    OBVIOUS
  <2>2. Advances(e, stage, M)
    OBVIOUS
  <2> QED  BY ONLY <1>3, <2>1, <2>2, StateWritten, e \in Tls!Ends, M \in Nat \ {0}
<1>6. PICK b \in Seq(Tls!Units(Tls!Peer(e), K)) : b = rbio_[e] /\ rbio_' = [rbio_ EXCEPT ![e] = b]
  <2>1. rbio_[e] \in Seq(Tls!Units(Tls!Peer(e), K))
    BY <1>1, <1>4 DEF Tls!UnitsInv
  <2>2. rbio_' = [rbio_ EXCEPT ![e] = rbio_[e]]
    BY <1>3
  <2> QED  BY <2>1, <2>2
<1>7. PICK n \in 0..Len(tWire[e]) : n = 0
  BY <1>3
<1>8. /\ queued' \in 0..MaxQueued
      /\ ~Tls!Spoilt' => ~Tls!Spoilt
      /\ \E o \in Seq(Tls!Units(e, M)) : Sends(e, n, o) /\ (~Tls!Spoilt' => o = out)
  <2>1. queued \in 0..MaxQueued
    BY <1>1 DEF Tls!TypeOK
  <2>2. tDisorder \cup Tls!Queued \subseteq tDisorder'
    OBVIOUS
  <2>3. Tls!Exchange(e, n, out)
    BY <1>7
  <2> QED  BY ONLY <1>1, <2>1, <2>2, <2>3, Exchanged, e \in Tls!Ends, n \in 0..Len(tWire[e]),
               out \in Seq(Tls!Units(e, M)), M \in Nat
<1>9. PICK o \in Seq(Tls!Units(e, M)) : Sends(e, n, o) /\ (~Tls!Spoilt' => o = out)
  BY <1>8
<1>10. StepTaken(e, n, v, b, o)
  BY <1>5, <1>6, <1>9 DEF StepTaken, Becomes
<1>11. b \in Seq(Tls!AnyUnit) /\ o \in Seq(Tls!AnyUnit)
  BY UnitsAreUnits
<1>12. ssl'[e] = v /\ ssl'[Tls!Peer(e)] = ssl[Tls!Peer(e)]
  BY <1>2, <1>3, <1>5 DEF Becomes
<1>13. Tls!ShapeInv' /\ Tls!UnitsInv' /\ Tls!StageInv'
  <2>1. o \in Seq(Tls!Units(e, v.seqOut))
    BY <1>5
  <2>2. v.part \in Seq(Tls!Units(Tls!Peer(e), K))
    BY <1>1, <1>4, <1>5 DEF Tls!UnitsInv
  <2>3. ssl[e].seqOut <= v.seqOut
    BY <1>5
  <2>4. Tls!AtStage(e, v.stage, v.seqIn, v.seqOut)
    BY <1>5
  <2>5. v.seqIn <= K
    BY <1>1, <1>4, <1>5 DEF Tls!StageInv
  <2>6. tSent'[e] * Tls!Records(e) = Tls!Count(v.seqOut)
    BY <1>5
  <2>7. got' \in [Tls!Ends -> Seq(Nat)]
    BY <1>3
  <2>8. tSent' \in [Tls!Ends -> Nat] /\ tSent'[Tls!Peer(e)] = tSent[Tls!Peer(e)]
    OBVIOUS
  <2> QED  BY ONLY <1>1, <1>4, <1>10, <2>1, <2>2, <2>3, <2>4, <2>5, <2>6, <2>7, <2>8, StepKeeps,
               e \in Tls!Ends, K \in Nat, n \in 0..Len(tWire[e]), v \in SslState,
               b \in Seq(Tls!Units(Tls!Peer(e), K))
<1>14. Tls!TypeOK'
  <2>1. v.stage \in Tls!Stages /\ (bConencted_'[e] <=> v.stage = "done")
    BY <1>5
  <2>2. bConencted_' \in [Tls!Ends -> BOOLEAN] /\ tClosed' \in [Tls!Ends -> BOOLEAN]
        /\ bConencted_'[Tls!Peer(e)] = bConencted_[Tls!Peer(e)]
    BY <1>1 DEF Tls!TypeOK
  <2>3. v.plain # <<>> => Len(v.plain) < Tls!Least(Payload, MaxRecord)
    BY <1>1, <1>5 DEF Tls!TypeOK
  <2>4. Tls!IsWhole(v.part) => v.stage = "failed"
    BY <1>1, <1>5 DEF Tls!TypeOK
  <2> QED  BY ONLY <1>1, <1>8, <1>12, <2>1, <2>2, <2>3, <2>4, TypeKeeps, e \in Tls!Ends
<1>15. Tls!HandedInv'
  <2>1. got'[e] \o v.plain = Tls!Carried(Tls!Peer(e), v.seqIn)
            /\ got'[Tls!Peer(e)] = got[Tls!Peer(e)]
    BY <1>1, <1>5 DEF Tls!HandedInv
  <2> QED  BY ONLY <1>1, <1>12, <2>1, HandedKeeps, e \in Tls!Ends
<1>16. Tls!StreamInv'
  <2> SUFFICES ASSUME ~Tls!Spoilt'
               PROVE  /\ \A x \in Tls!Ends : ~(x = "server" /\ Tls!Reset') =>
                          (/\ Len(Tls!Before(x))
                                  = Tls!Start(Tls!Peer(x), ssl[Tls!Peer(x)].seqOut)
                                      - Tls!Start(Tls!Peer(x), ssl[x].seqIn)
                           /\ Tls!InPlace(Tls!Peer(x), Tls!Before(x),
                                  Tls!Start(Tls!Peer(x), ssl[x].seqIn)))'
                      /\ (Tls!Reset => ssl["server"].stage \in {"done", "failed"}
                                    /\ ssl["server"].seqIn >= 3)'
                      /\ (\A x \in Tls!Ends : ssl[x].stage = "failed" =>
                                             x = "server" /\ Tls!Reset /\ tClosed[x])'
    BY DEF Tls!StreamInv
  <2>1. ~Tls!Spoilt /\ o = out
    BY <1>8, <1>9
  <2>2. Tls!Reset' <=> Tls!Reset
    BY DEF Tls!Reset, Tls!Queued
  <2>3. \A x \in Tls!Ends : ~(x = "server" /\ Tls!Reset') =>
          (/\ Len(Tls!Before(x)) = Tls!Start(Tls!Peer(x), ssl[Tls!Peer(x)].seqOut)
                  - Tls!Start(Tls!Peer(x), ssl[x].seqIn)
           /\ Tls!InPlace(Tls!Peer(x), Tls!Before(x), Tls!Start(Tls!Peer(x), ssl[x].seqIn)))'
    <3>1. ~(e = "server" /\ Tls!Reset') =>
             LET w == ssl[e].part \o rbio_[e] \o SubSeq(tWire[e], 1, n)
             IN  /\ Tls!InPlace(Tls!Peer(e), v.part \o b, Tls!Start(Tls!Peer(e), v.seqIn))
                 /\ Len(v.part \o b) + Tls!Start(Tls!Peer(e), v.seqIn)
                        = Len(w) + Tls!Start(Tls!Peer(e), ssl[e].seqIn)
      <4> SUFFICES ASSUME ~(e = "server" /\ Tls!Reset)
                   PROVE  LET w == ssl[e].part \o rbio_[e] \o SubSeq(tWire[e], 1, n)
                          IN  /\ Tls!InPlace(Tls!Peer(e), v.part \o b,
                                     Tls!Start(Tls!Peer(e), v.seqIn))
                              /\ Len(v.part \o b) + Tls!Start(Tls!Peer(e), v.seqIn)
                                     = Len(w) + Tls!Start(Tls!Peer(e), ssl[e].seqIn)
        BY <2>2
      <4> DEFINE a == ssl[e].part \o rbio_[e]
                 z == tWire[e]
      <4>1. a \in Seq(Tls!AnyUnit) /\ z \in Seq(Tls!AnyUnit)
        BY <1>3 DEF SslState
      <4>2. v.part \o b = a /\ v.seqIn = ssl[e].seqIn
        BY <1>5, <1>6
      <4>3. Tls!InPlace(Tls!Peer(e), a \o SubSeq(z, 1, n), Tls!Start(Tls!Peer(e), ssl[e].seqIn))
        BY <1>1, <2>1, ReadsInPlace
      <4> HIDE DEF a, z
      <4>4. a \o SubSeq(z, 1, n) = a
        <5>1. SubSeq(z, 1, 0) = <<>>
          BY <4>1
        <5>2. a \o <<>> \in Seq(Tls!AnyUnit) /\ Len(a \o <<>>) = Len(a)
              /\ \A i \in 1..Len(a) : (a \o <<>>)[i] = a[i]
          BY <4>1
        <5>3. a \o <<>> = a
          BY <4>1, <5>2, SameUnits
        <5> QED  BY <1>7, <5>1, <5>3
      <4> QED  BY <4>2, <4>3, <4>4 DEF a, z
    <3>2. Tls!InPlace(e, o, Tls!Start(e, ssl[e].seqOut))
            /\ Len(o) + Tls!Start(e, ssl[e].seqOut) = Tls!Start(e, v.seqOut)
      <4>1. Tls!Start(e, q) \in Nat /\ Tls!Start(e, M) \in Nat
        BY StartsFollow
      <4>2. Len(o) = Tls!Start(e, M) - Tls!Start(e, q) /\ v.seqOut = M
              /\ ssl[e].seqOut = q
        BY <1>5, <2>1
      <4>3. Tls!InPlace(e, o, Tls!Start(e, ssl[e].seqOut))
        BY <2>1
      <4>4. Len(o) + Tls!Start(e, ssl[e].seqOut) = Tls!Start(e, v.seqOut)
        BY ONLY <4>1, <4>2
      <4> QED  BY <4>3, <4>4
    <3>3. Tls!Reset => Tls!Reset'
      BY <2>2
    <3> QED  BY ONLY <1>1, <1>10, <1>11, <2>1, <3>1, <3>2, <3>3, StreamKeeps, e \in Tls!Ends,
                 n \in 0..Len(tWire[e]), v \in SslState
  <2>4. (Tls!Reset => ssl["server"].stage \in {"done", "failed"} /\ ssl["server"].seqIn >= 3)'
    <3> SUFFICES ASSUME Tls!Reset
                 PROVE  ssl'["server"].stage \in {"done", "failed"} /\ ssl'["server"].seqIn >= 3
      BY <2>2
    <3>1. ssl["server"].stage \in {"done", "failed"} /\ ssl["server"].seqIn >= 3
      BY <1>1, <2>1 DEF Tls!StreamInv
    <3>2. CASE e = "server"
      <4>1. stage = "done"
        BY <1>1, <3>1, <3>2 DEF Tls!TypeOK
      <4> QED  BY <1>5, <1>12, <3>1, <3>2, <4>1
    <3>3. CASE e # "server"
      BY <1>2, <1>12, <3>1, <3>3 DEF Tls!Ends
    <3> QED  BY <3>2, <3>3
  <2>5. (\A x \in Tls!Ends : ssl[x].stage = "failed" => x = "server" /\ Tls!Reset /\ tClosed[x])'
    <3>1. \A x \in Tls!Ends : ssl'[x].stage = "failed" => ssl[x].stage = "failed"
      BY <1>2, <1>5, <1>12
    <3> QED  BY <1>1, <2>1, <2>2, <3>1 DEF Tls!StreamInv
  <2> QED  BY <2>3, <2>4, <2>5
<1>17. Tls!SlackInv'
  <2>1. ASSUME tDisorder' = {}, NEW x \in Tls!Ends PROVE rbio_'[x] = <<>> /\ ssl'[x].plain = <<>>
    <3>1. tDisorder = {}
      BY <2>1
    <3>2. rbio_[x] = <<>> /\ ssl[x].plain = <<>>
      BY <1>1, <3>1 DEF Tls!SlackInv
    <3> QED  BY <1>2, <1>5, <1>12, <3>2
  <2> QED  BY <2>1 DEF Tls!SlackInv
<1> QED  BY <1>13, <1>14, <1>15, <1>16, <1>17 DEF Tls!TlsInv

\* The client's first flight.
LEMMA TlsConnectKeeps == Tls!TlsInv /\ Tls!Connect => Tls!TlsInv'
<1> SUFFICES ASSUME Tls!TlsInv, Tls!Connect PROVE Tls!TlsInv'
  OBVIOUS
<1> DEFINE e == "client"
<1>1. /\ Tls!TypeOK /\ Tls!ShapeInv /\ Tls!StageInv
  BY DEF Tls!TlsInv
<1>2. e \in Tls!Ends /\ ssl[e].stage = "new"
  BY DEF Tls!Connect, Tls!Ends
<1>3. /\ Tls!Exchange(e, 0, Tls!Record("ch", 1, 0, 2)) /\ tDisorder' = tDisorder \cup Tls!Queued
      /\ Advances(e, "wait_sh", 2)
      /\ UNCHANGED <<version, bConencted_, rbio_, tClosed, got>> /\ tSent' = tSent
  BY DEF Tls!Connect, Advances
<1>4. e = "client"
  OBVIOUS
<1> HIDE DEF e
<1>5. PICK q \in Nat \ {0} : q = 1
  OBVIOUS
<1>6. PICK M \in Nat \ {0} : M = 2
  OBVIOUS
<1>7. M = q + 1 /\ q = ssl[e].seqOut /\ ssl[e].seqIn = 1
  BY <1>1, <1>2, <1>5, <1>6 DEF Tls!StageInv, Tls!AtStage
<1>30. PICK out : out = Tls!Record("ch", q, 0, 2)
  OBVIOUS
<1>8. /\ version \in {"1.2", "1.3"} /\ tSent \in [Tls!Ends -> Nat]
  BY <1>1 DEF Tls!ShapeInv
<1>9. /\ out \in Seq(Tls!Units(e, M)) /\ Len(out) = Tls!Start(e, M) - Tls!Start(e, q)
      /\ Tls!InPlace(e, out, Tls!Start(e, q))
  <2>1. PICK k : k = "ch"
    OBVIOUS
  <2>2. PICK n : n = 0
    OBVIOUS
  <2>3. PICK z : z = 2
    OBVIOUS
  <2>4. k = Tls!KindOf(e, q)
    BY <1>4, <1>5, <2>1 DEF Tls!KindOf
  <2>8. n = (IF q <= 2 THEN 0 ELSE Tls!Given(e, q - 3))
    BY <1>5, <2>2
  <2>9. z = Tls!Size(e, q)
    BY <1>5, <2>3 DEF Tls!Size
  <2>5. /\ Tls!Record(k, q, n, z) \in Seq(Tls!Units(e, q + 1)) /\ Len(Tls!Record(k, q, n, z)) = z
        /\ Tls!InPlace(e, Tls!Record(k, q, n, z), Tls!Start(e, q))
    <3>1. e \in Tls!Ends
      BY <1>2
    <3>2. version \in {"1.2", "1.3"}
      BY <1>8
    <3> QED  BY ONLY <3>1, <3>2, <2>4, <2>8, <2>9, RecordWritten, q \in Nat \ {0}
  <2>6. /\ Tls!Size(e, q) \in Nat /\ Tls!Start(e, q) \in Nat
        /\ Tls!Start(e, q + 1) = Tls!Start(e, q) + Tls!Size(e, q)
    BY <1>2, StartsFollow
  <2>7. Tls!Start(e, M) - Tls!Start(e, q) = z
    BY <1>7, <2>9, <2>6
  <2> QED  BY <1>7, <1>30, <2>1, <2>2, <2>3, <2>5, <2>7
<1>10. Tls!Exchange(e, 0, out)
  BY <1>3, <1>5, <1>30
<1>16. q < M
  BY <1>7
<1>11. PICK stage \in Tls!Stages \ {"failed"} : stage = "wait_sh"
  BY DEF Tls!Stages
<1>12. Tls!AtStage(e, stage, ssl[e].seqIn, M)
  BY <1>4, <1>6, <1>7, <1>11 DEF Tls!AtStage
<1>13. ssl[e].stage # "failed" /\ (bConencted_[e] <=> stage = "done")
  BY <1>1, <1>2, <1>11 DEF Tls!TypeOK
<1>14. Advances(e, stage, M)
  BY <1>3, <1>6, <1>11
<1>15. /\ tSent' \in [Tls!Ends -> Nat] /\ tSent'[e] * Tls!Records(e) = Tls!Count(M)
            /\ tSent'[Tls!Peer(e)] = tSent[Tls!Peer(e)]
  <2>1. tSent[e] * Tls!Records(e) = Tls!Count(q)
    BY <1>1, <1>2, <1>7 DEF Tls!StageInv
  <2>2. Tls!Count(q) = Tls!Count(M)
    BY <1>5, <1>6 DEF Tls!Count
  <2> QED  BY <1>3, <1>8, <2>1, <2>2
<1> QED  BY ONLY Tls!TlsInv, <1>2, <1>3, <1>7, <1>9, <1>10, <1>12, <1>13, <1>14, <1>15, <1>16,
             WritesOne,
             q \in Nat \ {0}, M \in Nat \ {0}, stage \in Tls!Stages \ {"failed"}

\* A message is the next records.
LEMMA SendsRecord ==
    ASSUME Tls!TlsInv, NEW e \in Tls!Ends, Tls!SendData(e), bConencted_[e]
    PROVE  Tls!TlsInv'
<1>1. /\ Tls!TypeOK /\ Tls!ShapeInv /\ Tls!StageInv
  BY DEF Tls!TlsInv
<1>2. /\ ssl \in [Tls!Ends -> SslState] /\ version \in {"1.2", "1.3"}
           /\ tSent \in [Tls!Ends -> Nat]
  BY <1>1 DEF Tls!ShapeInv, SslState
<1>3. /\ tSent' = [tSent EXCEPT ![e] = @ + 1]
      /\ ssl' = [ssl EXCEPT ![e].seqOut = @ + Tls!Records(e)]
      /\ Tls!Exchange(e, 0, Tls!DataRecords(e, ssl[e].seqOut, tSent[e] * Payload))
      /\ tDisorder' = tDisorder \cup Tls!Queued
      /\ UNCHANGED <<version, bConencted_, rbio_, tClosed, got>>
  BY DEF Tls!SendData
<1>4. ssl[e].stage = "done" /\ ssl[e].seqOut >= 3
          /\ tSent[e] * Tls!Records(e) = Tls!Count(ssl[e].seqOut)
  BY <1>1 DEF Tls!TypeOK, Tls!StageInv, Tls!AtStage
<1>5. PICK q \in Nat \ {0} : q = ssl[e].seqOut
  BY <1>2 DEF SslState
<1>20. PICK K \in Nat : K = Tls!Records(e) /\ 1 <= K
  BY RecordsOf
<1>6. PICK M \in Nat \ {0} : M = q + K /\ q < M
  <2>1. q + K \in Nat \ {0} /\ q < q + K
    BY <1>20
  <2> QED  BY <2>1
<1>21. PICK k \in Nat : k = tSent[e]
  BY <1>2
<1>7. q >= 3 /\ M >= 3 /\ k * Tls!Records(e) = q - 3 /\ Tls!Count(M) = M - 3
  <2>1. q >= 3 /\ Tls!Count(q) = q - 3
    BY <1>4, <1>5 DEF Tls!Count
  <2>2. M >= 3 /\ Tls!Count(M) = M - 3
    BY <1>6, <1>20, <2>1 DEF Tls!Count
  <2> QED  BY <1>4, <1>5, <1>21, <2>1, <2>2
<1>8. PICK n \in Nat : n = k * Payload
  BY TlsBounds, Products
<1>30. PICK out : out = Tls!DataRecords(e, q, n)
  OBVIOUS
<1>11. /\ out \in Seq(Tls!Units(e, M)) /\ Len(out) = Tls!Start(e, M) - Tls!Start(e, q)
       /\ Tls!InPlace(e, out, Tls!Start(e, q)) /\ (k + 1) * Tls!Records(e) = M - 3
  <2>1. q \in Nat /\ M \in Nat /\ q >= 3 /\ M = q + Tls!Records(e)
          /\ k * Tls!Records(e) = q - 3
    BY <1>6, <1>7, <1>20
  <2> QED  BY ONLY <1>8, <1>30, <2>1, DataWritten, e \in Tls!Ends, k \in Nat, n \in Nat
<1>12. Tls!Exchange(e, 0, out)
  BY <1>3, <1>5, <1>8, <1>21, <1>30
<1>13. PICK stage \in Tls!Stages \ {"failed"} : stage = "done"
  BY DEF Tls!Stages
<1>14. Tls!AtStage(e, stage, ssl[e].seqIn, M)
  <2>1. Tls!AtStage(e, ssl[e].stage, ssl[e].seqIn, ssl[e].seqOut)
    BY <1>1 DEF Tls!StageInv
  <2> QED  BY <1>4, <1>7, <1>13, <2>1 DEF Tls!AtStage
<1>15. ssl[e].stage # "failed" /\ (bConencted_[e] <=> stage = "done")
  BY <1>4, <1>13
<1>16. Advances(e, stage, M)
  <2>1. PICK s \in SslState : s = ssl[e]
    BY <1>2
  <2>2. s.stage = stage /\ s.seqOut = q
    BY <1>4, <1>5, <1>13, <2>1
  <2>3. [s EXCEPT !.seqOut = @ + K] = [s EXCEPT !.stage = stage, !.seqOut = M]
    BY <1>6, <2>1, <2>2 DEF SslState
  <2>4. ssl' = [ssl EXCEPT ![e] = [s EXCEPT !.seqOut = @ + K]]
    BY <1>2, <1>3, <1>20, <2>1
  <2>5. ssl' = [ssl EXCEPT ![e] = [s EXCEPT !.stage = stage, !.seqOut = M]]
    BY <2>3, <2>4
  <2> QED  BY <1>2, <2>1, <2>5 DEF Advances
<1>17. /\ tSent' \in [Tls!Ends -> Nat] /\ tSent'[e] * Tls!Records(e) = Tls!Count(M)
            /\ tSent'[Tls!Peer(e)] = tSent[Tls!Peer(e)]
  <2>1. /\ tSent' \in [Tls!Ends -> Nat] /\ tSent'[e] = k + 1
        /\ tSent'[Tls!Peer(e)] = tSent[Tls!Peer(e)]
    BY <1>2, <1>3, <1>21, TwoEnds
  <2> QED  BY <1>7, <1>11, <2>1
<1> QED  BY ONLY Tls!TlsInv, <1>3, <1>6, <1>5, <1>11, <1>12, <1>14, <1>15, <1>16, <1>17,
                 WritesOne,
             q \in Nat \ {0}, M \in Nat \ {0}, stage \in Tls!Stages \ {"failed"}, e \in Tls!Ends

\* A sequence of one element, and one appended.
LEMMA Appended ==
    ASSUME NEW S, NEW s \in Seq(S), NEW x \in S
    PROVE  <<x>> \in Seq(S) /\ Append(s, x) = s \o <<x>> /\ SubSeq(s, 1, Len(s)) = s
<1>1. /\ Append(s, x) \in Seq(S) /\ <<x>> \in Seq(S) /\ s \o <<x>> \in Seq(S)
      /\ Len(Append(s, x)) = Len(s) + 1 /\ Len(s \o <<x>>) = Len(s) + 1
  OBVIOUS
<1>2. \A i \in 1..Len(s) + 1 : Append(s, x)[i] = (s \o <<x>>)[i]
  OBVIOUS
<1>3. Append(s, x) = s \o <<x>>
  BY ONLY <1>1, <1>2, SameUnits
<1> QED  BY <1>1, <1>3

\* What is sent in the clear spoils the stream, and nothing else.
LEMMA SendsClear ==
    ASSUME Tls!TlsInv, NEW e \in Tls!Ends, Tls!SendData(e), ~bConencted_[e]
    PROVE  Tls!TlsInv'
<1>1. /\ Tls!TypeOK /\ Tls!ShapeInv /\ Tls!UnitsInv /\ Tls!StageInv /\ Tls!HandedInv
  BY DEF Tls!TlsInv
<1>2. /\ Tls!Peer(e) \in Tls!Ends /\ Tls!Peer(e) # e
           /\ \A x \in Tls!Ends : x = e \/ x = Tls!Peer(e)
  BY TwoEnds
<1>3. /\ ssl \in [Tls!Ends -> SslState] /\ rbio_ \in [Tls!Ends -> Seq(Tls!AnyUnit)]
      /\ tWire \in [Tls!Ends -> Seq(Tls!AnyUnit)] /\ tSent \in [Tls!Ends -> Nat]
      /\ got \in [Tls!Ends -> Seq(Nat)]
  BY <1>1 DEF Tls!ShapeInv, SslState
<1>4. /\ tWire' = [tWire EXCEPT ![Tls!Peer(e)] = Append(@, Tls!Clear)]
      /\ tDisorder' = tDisorder \cup {"sent_in_the_clear"}
      /\ tSent' = tSent /\ ssl' = ssl /\ queued' = queued /\ version' = version
      /\ bConencted_' = bConencted_ /\ rbio_' = rbio_ /\ tClosed' = tClosed /\ got' = got
  BY DEF Tls!SendData
<1>5. PICK K \in Nat : K = ssl[Tls!Peer(e)].seqOut
  BY <1>2, <1>3 DEF SslState
<1>6. PICK n \in 0..Len(tWire[e]) : n = 0
  BY <1>3
<1>7. PICK v \in SslState : v = ssl[e]
  BY <1>3
<1>8. PICK b \in Seq(Tls!Units(Tls!Peer(e), K)) : b = rbio_[e]
  BY <1>1, <1>5 DEF Tls!UnitsInv
<1>9. PICK o \in Seq(Tls!Units(e, v.seqOut)) : o = <<Tls!Clear>>
  <2>1. Tls!Clear \in Tls!Units(e, v.seqOut)
    BY DEF Tls!Clear, Tls!Units, Tls!AnyUnit
  <2>2. PICK c \in Tls!Units(e, v.seqOut) : c = Tls!Clear
    BY <2>1
  <2>3. <<c>> \in Seq(Tls!Units(e, v.seqOut))
    OBVIOUS
  <2> QED  BY <2>2, <2>3
<1>10. StepTaken(e, n, v, b, o)
  <2>1. Sends(e, n, o)
    <3> DEFINE w == tWire[e]
               z == tWire[Tls!Peer(e)]
    <3>1. w \in Seq(Tls!AnyUnit) /\ z \in Seq(Tls!AnyUnit) /\ Tls!Clear \in Tls!AnyUnit
      BY <1>2, <1>3 DEF Tls!Clear, Tls!AnyUnit
    <3>2. tWire' = [tWire EXCEPT ![e] = w, ![Tls!Peer(e)] = Append(z, Tls!Clear)]
      BY <1>2, <1>3, <1>4
    <3>3. SubSeq(w, 1, Len(w)) = w /\ Append(z, Tls!Clear) = z \o <<Tls!Clear>>
      <4> HIDE DEF w, z
      <4>1. PICK c \in Tls!AnyUnit : c = Tls!Clear
        BY <3>1
      <4>2. SubSeq(w, 1, Len(w)) = w /\ Append(z, c) = z \o <<c>>
        BY ONLY <3>1, Appended, c \in Tls!AnyUnit
      <4> QED  BY <4>1, <4>2
    <3> DEFINE y == z \o <<Tls!Clear>>
    <3>4. tWire' = [tWire EXCEPT ![e] = SubSeq(w, n + 1, Len(w)), ![Tls!Peer(e)] = y]
      <4>1. n + 1 = 1
        BY <1>6
      <4>2. SubSeq(w, n + 1, Len(w)) = w
        BY <3>3, <4>1
      <4>3. tWire' = [tWire EXCEPT ![e] = w, ![Tls!Peer(e)] = y]
        BY <3>2, <3>3
      <4> QED  BY <4>2, <4>3
    <3>5. y = z \o o
      BY <1>9
    <3> HIDE DEF y
    <3>6. [tWire EXCEPT ![e] = SubSeq(w, n + 1, Len(w))][Tls!Peer(e)] = z
      BY <1>2
    <3> QED  BY <1>2, <3>4, <3>5, <3>6 DEF Sends
  <2>2. ssl' = [ssl EXCEPT ![e] = v] /\ rbio_' = [rbio_ EXCEPT ![e] = b]
    BY <1>3, <1>4, <1>7, <1>8
  <2> QED  BY <1>4, <2>1, <2>2 DEF StepTaken
<1>11. ssl'[e] = v /\ ssl'[Tls!Peer(e)] = ssl[Tls!Peer(e)]
  BY <1>4, <1>7
<1>12. Tls!ShapeInv' /\ Tls!UnitsInv' /\ Tls!StageInv'
  <2>1. v.part \in Seq(Tls!Units(Tls!Peer(e), K))
    BY <1>1, <1>5, <1>7 DEF Tls!UnitsInv
  <2>2. /\ ssl[e].seqOut <= v.seqOut /\ Tls!AtStage(e, v.stage, v.seqIn, v.seqOut)
        /\ v.seqIn <= K
    <3>1. ssl[e].seqOut \in Nat /\ v.seqOut \in Nat
      BY <1>3 DEF SslState
    <3>2. /\ Tls!AtStage(e, ssl[e].stage, ssl[e].seqIn, ssl[e].seqOut)
          /\ ssl[e].seqIn <= ssl[Tls!Peer(e)].seqOut
      BY <1>1 DEF Tls!StageInv
    <3> QED  BY <1>1, <1>5, <1>7, <3>1, <3>2
  <2>3. tSent' \in [Tls!Ends -> Nat] /\ tSent'[Tls!Peer(e)] = tSent[Tls!Peer(e)]
          /\ tSent'[e] * Tls!Records(e) = Tls!Count(v.seqOut)
    BY <1>1, <1>3, <1>4, <1>7 DEF Tls!StageInv
  <2>4. got' \in [Tls!Ends -> Seq(Nat)]
    BY <1>3, <1>4
  <2> QED  BY ONLY <1>1, <1>5, <1>10, <2>1, <2>2, <2>3, <2>4, StepKeeps, e \in Tls!Ends,
                   K \in Nat,
               n \in 0..Len(tWire[e]), v \in SslState, b \in Seq(Tls!Units(Tls!Peer(e), K)),
               o \in Seq(Tls!Units(e, v.seqOut))
<1>13. Tls!TypeOK'
  BY <1>1, <1>4 DEF Tls!TypeOK, Tls!IsWhole
<1>14. Tls!HandedInv'
  <2>1. got'[e] \o v.plain = Tls!Carried(Tls!Peer(e), v.seqIn)
            /\ got'[Tls!Peer(e)] = got[Tls!Peer(e)]
    BY <1>1, <1>4, <1>7 DEF Tls!HandedInv
  <2> QED  BY ONLY <1>1, <1>11, <2>1, HandedKeeps, e \in Tls!Ends
<1>15. Tls!StreamInv' /\ Tls!SlackInv'
  BY <1>4 DEF Tls!StreamInv, Tls!SlackInv, Tls!Spoilt
<1> QED  BY <1>12, <1>13, <1>14, <1>15 DEF Tls!TlsInv

\* Both kinds of writes.
LEMMA SendDataKeeps ==
    ASSUME Tls!TlsInv, NEW e \in Tls!Ends, Tls!SendData(e)
    PROVE  Tls!TlsInv'
BY SendsRecord, SendsClear

-----------------------------------------------------------------------------
(* The handshake's segments. *)

\* What SSL_do_handshake has before it when n units have been read.
Faced(e, n) ==
    [stage |-> ssl[e].stage, out |-> << >>,
     in |-> ssl[e].part \o rbio_[e] \o SubSeq(tWire[e], 1, n),
     seqIn |-> ssl[e].seqIn, seqOut |-> ssl[e].seqOut]

\* What readData writes back.
Takes(e, n, x) ==
    /\ ssl' = [ssl EXCEPT ![e].stage = x.stage, ![e].seqIn = x.seqIn, ![e].seqOut = x.seqOut,
                          ![e].part = IF x.stage = "done" THEN << >> ELSE x.in]
    /\ rbio_' = [rbio_ EXCEPT ![e] = Tls!LeftInBio(x)]
    /\ bConencted_' = [bConencted_ EXCEPT ![e] = Tls!IsDone(x)]
    /\ Tls!Exchange(e, n, x.out)
    /\ tDisorder' = tDisorder \cup Tls!Queued
         \cup (IF x.stage = "done" /\ x.in # << >> THEN {"data_with_handshake"} ELSE {})
    /\ tClosed' = tClosed /\ got' = got

\* Both calls, and what they leave.
TwoSteps(e, K, w, y, x) ==
    /\ Sound(e, K, w) /\ Sound(e, K, y) /\ Sound(e, K, x)
    /\ Outcome(w, y) /\ Outcome(y, x)
    /\ SameCount(w.seqOut, x.seqOut) /\ SameCount(w.seqIn, x.seqIn)
    /\ x.stage \in {"done", "failed"} \/ ~Tls!IsWhole(x.in)

\* It is sound.
LEMMA FacedIsSound ==
    ASSUME Tls!TlsInv, NEW e \in Tls!Ends, NEW n \in 0..Len(tWire[e]),
           NEW K \in Nat, K = ssl[Tls!Peer(e)].seqOut
    PROVE  Sound(e, K, Faced(e, n))
<1>1. /\ Tls!ShapeInv /\ Tls!UnitsInv /\ Tls!StageInv
  BY DEF Tls!TlsInv
<1>2. PICK s \in SslState : s = ssl[e]
  BY <1>1 DEF Tls!ShapeInv, SslState
<1>3. PICK a \in Seq(Tls!Units(Tls!Peer(e), K)) : a = ssl[e].part
  BY <1>1 DEF Tls!UnitsInv
<1>4. PICK b \in Seq(Tls!Units(Tls!Peer(e), K)) : b = rbio_[e]
  BY <1>1 DEF Tls!UnitsInv
<1>5. PICK c \in Seq(Tls!Units(Tls!Peer(e), K)) : c = tWire[e]
  BY <1>1 DEF Tls!UnitsInv
<1>6. SubSeq(c, 1, n) \in Seq(Tls!Units(Tls!Peer(e), K))
  <2>1. n \in 0..Len(c)
    BY <1>5
  <2> QED  BY <2>1, Beginning
<1>7. PICK d \in Seq(Tls!Units(Tls!Peer(e), K)) : d = SubSeq(c, 1, n)
  BY <1>6
<1>8. (a \o b) \o d \in Seq(Tls!Units(Tls!Peer(e), K))
  OBVIOUS
<1>9. PICK w : w = Faced(e, n)
  OBVIOUS
<1>10. /\ w.stage = s.stage /\ w.out = <<>> /\ w.seqIn = s.seqIn /\ w.seqOut = s.seqOut
       /\ w.in = (a \o b) \o d
  BY <1>2, <1>3, <1>4, <1>5, <1>7, <1>9 DEF Faced
<1>11. w = [stage |-> w.stage, out |-> w.out, in |-> w.in, seqIn |-> w.seqIn,
            seqOut |-> w.seqOut]
  BY <1>9 DEF Faced
<1>12. w \in States(e, K)
  <2>1. /\ w.stage \in Tls!Stages /\ w.seqIn \in Nat \ {0} /\ w.seqOut \in Nat \ {0}
    BY <1>10 DEF SslState
  <2>2. w.out \in Seq(Tls!AnyUnit) /\ w.in \in Seq(Tls!Units(Tls!Peer(e), K))
    BY <1>8, <1>10
  <2> QED  BY ONLY <1>11, <2>1, <2>2 DEF States
<1>13. w.seqIn <= K /\ Tls!AtStage(e, w.stage, w.seqIn, w.seqOut)
  BY <1>1, <1>2, <1>10 DEF Tls!StageInv
<1>14. w.out \in Seq(Tls!Units(e, w.seqOut))
  BY <1>10
<1> QED  BY <1>9, <1>12, <1>13, <1>14 DEF Sound

\* HandshakeStep, twice.
LEMMA TwoStepsTaken ==
    ASSUME version \in {"1.2", "1.3"}, NEW e \in Tls!Ends, NEW K \in Nat, NEW w, Sound(e, K, w),
           NEW y, y = Tls!HandshakeStep(w), NEW x, x = Tls!HandshakeStep(y)
    PROVE  TwoSteps(e, K, w, y, x)
<1>1. Outcome(w, y)
  BY HandshakeOutcome DEF Sound
<1>2. y = [stage |-> y.stage, out |-> y.out, in |-> y.in, seqIn |-> y.seqIn,
           seqOut |-> y.seqOut]
  BY HandshakeShape DEF Sound
<1>3. Sound(e, K, y)
  BY ONLY <1>1, <1>2, HandshakeKeeps, version \in {"1.2", "1.3"}, e \in Tls!Ends, K \in Nat,
          Sound(e, K, w)
<1>4. Outcome(y, x)
  BY <1>3, HandshakeOutcome DEF Sound
<1>5. x = [stage |-> x.stage, out |-> x.out, in |-> x.in, seqIn |-> x.seqIn,
           seqOut |-> x.seqOut]
  BY <1>3, HandshakeShape DEF Sound
<1>6. /\ Sound(e, K, y) /\ Sound(e, K, x)
      /\ SameCount(w.seqOut, x.seqOut) /\ SameCount(w.seqIn, x.seqIn)
      /\ x.stage \in {"done", "failed"} \/ ~Tls!IsWhole(x.in)
  BY ONLY <1>1, <1>2, <1>4, <1>5, NoneWhole, version \in {"1.2", "1.3"}, e \in Tls!Ends,
          K \in Nat,
          Sound(e, K, w)
<1> QED  BY <1>1, <1>4, <1>6 DEF TwoSteps

\* ReadHandshake, in these terms.
LEMMA ReadHandshakeIs ==
    ASSUME NEW e \in Tls!Ends, NEW n, Tls!ReadHandshake(e, n)
    PROVE  \E x : x = Tls!HandshakeStep(Tls!HandshakeStep(Faced(e, n))) /\ Takes(e, n, x)
BY DEF Tls!ReadHandshake, Faced, Takes, Tls!Flushed

\* OpenSSL's state after them.
LEMMA StateTaken ==
    ASSUME ssl \in [Tls!Ends -> SslState], NEW e \in Tls!Ends, NEW n, NEW x, Takes(e, n, x),
           x.stage \in Tls!Stages, x.in \in Seq(Tls!AnyUnit), x.seqIn \in Nat \ {0},
           x.seqOut \in Nat \ {0}
    PROVE  \E v \in SslState :
             /\ v.stage = x.stage /\ v.seqIn = x.seqIn /\ v.seqOut = x.seqOut
             /\ v.part = (IF x.stage = "done" THEN << >> ELSE x.in)
             /\ v.plain = ssl[e].plain /\ Becomes(e, v)
<1>1. PICK s \in SslState : s = ssl[e]
  OBVIOUS
<1>2. PICK p \in Seq(Tls!AnyUnit) : p = IF x.stage = "done" THEN << >> ELSE x.in
  <2>1. << >> \in Seq(Tls!AnyUnit)
    OBVIOUS
  <2>2. CASE x.stage = "done"
    BY <2>1, <2>2
  <2>3. CASE x.stage # "done"
    BY <2>3
  <2> QED  BY <2>2, <2>3
<1> DEFINE v == [s EXCEPT !.stage = x.stage, !.seqIn = x.seqIn, !.seqOut = x.seqOut,
                          !.part = p]
<1>3. Becomes(e, v)
  BY <1>1, <1>2 DEF Becomes, Takes
<1>4. /\ v \in SslState /\ v.stage = x.stage /\ v.seqIn = x.seqIn /\ v.seqOut = x.seqOut
      /\ v.part = p /\ v.plain = s.plain
  BY <1>1, <1>2 DEF SslState
<1> HIDE DEF v
<1> QED  BY <1>1, <1>2, <1>3, <1>4

\* While nothing is spoilt, both calls leave the stream in place.
LEMMA HandshakeInPlace ==
    ASSUME Tls!TlsInv, NEW e \in Tls!Ends, NEW n \in 0..Len(tWire[e]), ~tClosed[e],
           ~bConencted_[e],
           ~Tls!Spoilt, NEW K \in Nat, K = ssl[Tls!Peer(e)].seqOut,
           NEW w, w = Faced(e, n), NEW y, NEW x, TwoSteps(e, K, w, y, x)
    PROVE  /\ ~(e = "server" /\ Tls!Reset)
           /\ Straight(e, x) /\ Len(x.in) + Tls!Start(Tls!Peer(e), x.seqIn)
                  = Len(w.in) + Tls!Start(Tls!Peer(e), w.seqIn)
           /\ Tls!InPlace(e, x.out, Tls!Start(e, w.seqOut))
                /\ Len(x.out) + Tls!Start(e, w.seqOut) = Tls!Start(e, x.seqOut)
           /\ x.stage = "done" /\ x.out # <<>> => x.in = <<>> \/ (e = "server" /\ version = "1.3")
           /\ x.stage = "done" /\ version = "1.3" => x.in = <<>> \/ e = "server"
<1>1. /\ Tls!TypeOK /\ Tls!ShapeInv /\ Tls!StageInv /\ Tls!StreamInv
  BY DEF Tls!TlsInv
<1>2. version \in {"1.2", "1.3"}
  BY <1>1 DEF Tls!ShapeInv
<1>3. ssl[e].stage # "done" /\ ssl[e].stage # "failed"
  BY <1>1 DEF Tls!TypeOK, Tls!StreamInv
<1>4. ~(e = "server" /\ Tls!Reset)
  BY <1>1, <1>3 DEF Tls!StreamInv
<1>5. /\ w.stage = ssl[e].stage /\ w.out = <<>> /\ w.seqIn = ssl[e].seqIn
      /\ w.in = ssl[e].part \o rbio_[e] \o SubSeq(tWire[e], 1, n)
  BY DEF Faced
<1>6. Tls!InPlace(Tls!Peer(e), ssl[e].part \o rbio_[e] \o SubSeq(tWire[e], 1, n),
          Tls!Start(Tls!Peer(e), ssl[e].seqIn))
  BY ONLY <1>1, <1>4, ReadsInPlace, ~Tls!Spoilt, e \in Tls!Ends, n \in 0..Len(tWire[e])
<1>7. Straight(e, w)
  BY <1>3, <1>5, <1>6 DEF Straight
<1>8. PeerIsBehind(ssl[e].stage, ssl[Tls!Peer(e)].seqOut)
  BY ONLY <1>1, <1>4, PeerBehind, ~Tls!Spoilt, e \in Tls!Ends
<1>9. PeerIsBehind(w.stage, K)
  BY <1>5, <1>8
<1>10. Sound(e, K, w) /\ Sound(e, K, y) /\ Outcome(w, y) /\ Outcome(y, x)
  BY DEF TwoSteps
<1>11. w.out = <<>> /\ w.stage # "done"
  BY <1>3, <1>5
<1>12. /\ Straight(e, x) /\ Len(x.in) + Tls!Start(Tls!Peer(e), x.seqIn)
              = Len(w.in) + Tls!Start(Tls!Peer(e), w.seqIn)
       /\ Tls!InPlace(e, x.out, Tls!Start(e, w.seqOut))
            /\ Len(x.out) + Tls!Start(e, w.seqOut) = Tls!Start(e, x.seqOut)
       /\ x.stage = "done" /\ x.out # <<>> => x.in = <<>> \/ (e = "server" /\ version = "1.3")
       /\ x.stage = "done" /\ version = "1.3" => x.in = <<>> \/ e = "server"
  BY ONLY <1>2, <1>7, <1>9, <1>10, <1>11, TwoCalls, e \in Tls!Ends, K \in Nat
<1> QED  BY <1>4, <1>12

\* Records that carry no data do not count.
LEMMA CountsSame ==
    ASSUME NEW q \in Nat, NEW t \in Nat, SameCount(q, t)
    PROVE  Tls!Count(q) = Tls!Count(t) /\ q <= t
BY DEF SameCount, Tls!Count

\* A segment of the handshake keeps the invariant.
LEMMA HandshakeRead ==
    ASSUME Tls!TlsInv, NEW e \in Tls!Ends, NEW n \in 0..Len(tWire[e]), ~tClosed[e],
           ~bConencted_[e],
           NEW x, x = Tls!HandshakeStep(Tls!HandshakeStep(Faced(e, n))), Takes(e, n, x),
           version' = version, tSent' = tSent
    PROVE  Tls!TlsInv'
<1>1. /\ Tls!TypeOK /\ Tls!ShapeInv /\ Tls!UnitsInv /\ Tls!StageInv /\ Tls!HandedInv
           /\ Tls!StreamInv /\ Tls!SlackInv
  BY DEF Tls!TlsInv
<1>2. /\ Tls!Peer(e) \in Tls!Ends /\ Tls!Peer(e) # e /\ Tls!Peer(Tls!Peer(e)) = e
      /\ \A i \in Tls!Ends : i = e \/ i = Tls!Peer(e)
  BY TwoEnds
<1>3. /\ ssl \in [Tls!Ends -> SslState] /\ rbio_ \in [Tls!Ends -> Seq(Tls!AnyUnit)]
      /\ tWire \in [Tls!Ends -> Seq(Tls!AnyUnit)] /\ got \in [Tls!Ends -> Seq(Nat)]
      /\ tSent \in [Tls!Ends -> Nat] /\ version \in {"1.2", "1.3"}
  BY <1>1 DEF Tls!ShapeInv, SslState
<1>4. PICK K \in Nat : K = ssl[Tls!Peer(e)].seqOut
  BY <1>2, <1>3 DEF SslState
<1>5. PICK w : w = Faced(e, n)
  OBVIOUS
<1>6. PICK y : y = Tls!HandshakeStep(w)
  OBVIOUS
<1>7. TwoSteps(e, K, w, y, x)
  <2>1. Sound(e, K, w)
    BY <1>4, <1>5, FacedIsSound
  <2>2. x = Tls!HandshakeStep(y)
    BY <1>5, <1>6
  <2> QED  BY ONLY <1>3, <1>6, <2>1, <2>2, TwoStepsTaken, e \in Tls!Ends, K \in Nat
<1>8. /\ w.stage = ssl[e].stage /\ w.out = <<>> /\ w.seqIn = ssl[e].seqIn
      /\ w.seqOut = ssl[e].seqOut
      /\ w.in = ssl[e].part \o rbio_[e] \o SubSeq(tWire[e], 1, n)
  BY <1>5 DEF Faced
<1>9. /\ Sound(e, K, x) /\ x.stage \in Tls!Stages /\ x.in \in Seq(Tls!Units(Tls!Peer(e), K))
      /\ x.seqIn \in Nat \ {0} /\ x.seqOut \in Nat \ {0} /\ x.seqIn <= K
      /\ Tls!AtStage(e, x.stage, x.seqIn, x.seqOut) /\ x.out \in Seq(Tls!Units(e, x.seqOut))
      /\ SameCount(w.seqOut, x.seqOut) /\ SameCount(w.seqIn, x.seqIn)
      /\ x.stage \in {"done", "failed"} \/ ~Tls!IsWhole(x.in)
  BY <1>7 DEF TwoSteps, Sound, States
<1>10. x.in \in Seq(Tls!AnyUnit)
  BY <1>9, UnitsAreUnits
<1>11. PICK v \in SslState :
         /\ v.stage = x.stage /\ v.seqIn = x.seqIn /\ v.seqOut = x.seqOut
         /\ v.part = (IF x.stage = "done" THEN << >> ELSE x.in)
         /\ v.plain = ssl[e].plain /\ Becomes(e, v)
  <2>1. /\ x.stage \in Tls!Stages /\ x.seqIn \in Nat \ {0} /\ x.seqOut \in Nat \ {0}
    BY <1>9
  <2> QED  BY ONLY <1>3, <1>10, <2>1, StateTaken, e \in Tls!Ends, Takes(e, n, x)
<1>12. PICK b \in Seq(Tls!Units(Tls!Peer(e), K)) :
          b = Tls!LeftInBio(x) /\ rbio_' = [rbio_ EXCEPT ![e] = b]
  <2>1. Tls!LeftInBio(x) \in Seq(Tls!Units(Tls!Peer(e), K))
    <3>1. CASE x.stage = "done" /\ x.out = <<>>
      BY <1>9, <3>1 DEF Tls!LeftInBio
    <3>2. CASE ~(x.stage = "done" /\ x.out = <<>>)
      BY <3>2 DEF Tls!LeftInBio
    <3> QED  BY <3>1, <3>2
  <2>2. rbio_' = [rbio_ EXCEPT ![e] = Tls!LeftInBio(x)]
    BY DEF Takes
  <2> QED  BY <2>1, <2>2
<1>13. PICK M \in Nat \ {0} : M = x.seqOut
  BY <1>9
<1>14. PICK out \in Seq(Tls!Units(e, M)) : out = x.out
  BY <1>9, <1>13
<1>15. /\ queued' \in 0..MaxQueued
       /\ ~Tls!Spoilt' => ~Tls!Spoilt
       /\ \E o \in Seq(Tls!Units(e, M)) : Sends(e, n, o) /\ (~Tls!Spoilt' => o = out)
  <2>1. queued \in 0..MaxQueued
    BY <1>1 DEF Tls!TypeOK
  <2>2. tDisorder \cup Tls!Queued \subseteq tDisorder'
    BY DEF Takes
  <2>3. Tls!Exchange(e, n, out)
    BY <1>14 DEF Takes
  <2> QED  BY ONLY <1>1, <2>1, <2>2, <2>3, Exchanged, e \in Tls!Ends, n \in 0..Len(tWire[e]),
               out \in Seq(Tls!Units(e, M)), M \in Nat
<1>16. PICK o \in Seq(Tls!Units(e, M)) : Sends(e, n, o) /\ (~Tls!Spoilt' => o = out)
  BY <1>15
<1>17. StepTaken(e, n, v, b, o)
  BY <1>11, <1>12, <1>16 DEF StepTaken, Becomes
<1>18. ssl'[e] = v /\ ssl'[Tls!Peer(e)] = ssl[Tls!Peer(e)]
  BY <1>2, <1>3, <1>11 DEF Becomes
<1>19. rbio_'[e] = b /\ rbio_'[Tls!Peer(e)] = rbio_[Tls!Peer(e)]
  BY <1>2, <1>3, <1>12
<1>20. tClosed' = tClosed /\ got' = got
  BY DEF Takes
<1>21. Tls!Count(ssl[e].seqIn) = Tls!Count(v.seqIn)
         /\ Tls!Count(ssl[e].seqOut) = Tls!Count(v.seqOut)
       /\ ssl[e].seqOut <= v.seqOut
  <2>1. ssl[e].seqIn \in Nat \ {0} /\ ssl[e].seqOut \in Nat \ {0}
    BY <1>3 DEF SslState
  <2>2. SameCount(ssl[e].seqIn, v.seqIn) /\ SameCount(ssl[e].seqOut, v.seqOut)
    BY <1>8, <1>9, <1>11
  <2>3. v.seqIn \in Nat /\ v.seqOut \in Nat
    BY DEF SslState
  <2> QED  BY ONLY <2>1, <2>2, <2>3, CountsSame
<1>22. Tls!ShapeInv' /\ Tls!UnitsInv' /\ Tls!StageInv'
  <2>1. v.part \in Seq(Tls!Units(Tls!Peer(e), K))
    <3>1. CASE x.stage = "done"
      BY <1>11, <3>1
    <3>2. CASE x.stage # "done"
      BY <1>9, <1>11, <3>2
    <3> QED  BY <3>1, <3>2
  <2>2. /\ Tls!AtStage(e, v.stage, v.seqIn, v.seqOut) /\ v.seqIn <= K
        /\ ssl[e].seqOut <= v.seqOut
    BY <1>9, <1>11, <1>21
  <2>3. tSent' \in [Tls!Ends -> Nat] /\ tSent'[Tls!Peer(e)] = tSent[Tls!Peer(e)]
          /\ tSent'[e] * Tls!Records(e) = Tls!Count(v.seqOut)
    BY <1>1, <1>3, <1>21 DEF Tls!StageInv
  <2>4. got' \in [Tls!Ends -> Seq(Nat)]
    BY <1>3, <1>20
  <2>5. o \in Seq(Tls!Units(e, v.seqOut))
    BY <1>11, <1>13
  <2> QED  BY ONLY <1>1, <1>4, <1>17, <2>1, <2>2, <2>3, <2>4, <2>5, StepKeeps, e \in Tls!Ends,
               K \in Nat, n \in 0..Len(tWire[e]), v \in SslState,
               b \in Seq(Tls!Units(Tls!Peer(e), K))
<1>23. Tls!TypeOK'
  <2>1. bConencted_' = [bConencted_ EXCEPT ![e] = (x.stage = "done")]
    BY DEF Takes, Tls!IsDone
  <2>2. bConencted_ \in [Tls!Ends -> BOOLEAN] /\ tClosed' \in [Tls!Ends -> BOOLEAN]
    BY <1>1, <1>20 DEF Tls!TypeOK
  <2>3. bConencted_' \in [Tls!Ends -> BOOLEAN]
          /\ bConencted_'[Tls!Peer(e)] = bConencted_[Tls!Peer(e)]
        /\ (bConencted_'[e] <=> v.stage = "done")
    BY <1>2, <1>11, <2>1, <2>2
  <2>4. v.stage \in Tls!Stages
    BY <1>9, <1>11
  <2>5. v.plain # <<>> => Len(v.plain) < Tls!Least(Payload, MaxRecord)
    BY <1>1, <1>11 DEF Tls!TypeOK
  <2>6. Tls!IsWhole(v.part) => v.stage = "failed"
    <3>1. CASE x.stage = "done"
      BY <1>11, <3>1 DEF Tls!IsWhole
    <3>2. CASE x.stage # "done"
      BY <1>9, <1>11, <3>2
    <3> QED  BY <3>1, <3>2
  <2> QED  BY ONLY <1>1, <1>15, <1>18, <2>2, <2>3, <2>4, <2>5, <2>6, TypeKeeps, e \in Tls!Ends
<1>24. Tls!HandedInv'
  <2>1. got[e] \o ssl[e].plain = Tls!Carried(Tls!Peer(e), ssl[e].seqIn)
    BY <1>1 DEF Tls!HandedInv
  <2>2. Tls!Carried(Tls!Peer(e), ssl[e].seqIn) = Tls!Carried(Tls!Peer(e), v.seqIn)
    BY <1>21 DEF Tls!Carried
  <2>3. /\ got'[e] \o v.plain = Tls!Carried(Tls!Peer(e), v.seqIn)
        /\ got'[Tls!Peer(e)] = got[Tls!Peer(e)]
    BY <1>11, <1>20, <2>1, <2>2
  <2> QED  BY ONLY <1>1, <1>18, <2>3, HandedKeeps, e \in Tls!Ends
<1>25. tDisorder' = tDisorder \cup Tls!Queued
         \cup (IF x.stage = "done" /\ x.in # << >> THEN {"data_with_handshake"} ELSE {})
  BY DEF Takes
<1>26. Tls!StreamInv'
  <2> SUFFICES ASSUME ~Tls!Spoilt'
               PROVE  /\ \A i \in Tls!Ends : ~(i = "server" /\ Tls!Reset') =>
                          (/\ Len(Tls!Before(i))
                                  = Tls!Start(Tls!Peer(i), ssl[Tls!Peer(i)].seqOut)
                                      - Tls!Start(Tls!Peer(i), ssl[i].seqIn)
                           /\ Tls!InPlace(Tls!Peer(i), Tls!Before(i),
                                  Tls!Start(Tls!Peer(i), ssl[i].seqIn)))'
                      /\ (Tls!Reset => ssl["server"].stage \in {"done", "failed"}
                                    /\ ssl["server"].seqIn >= 3)'
                      /\ (\A i \in Tls!Ends : ssl[i].stage = "failed" =>
                                             i = "server" /\ Tls!Reset /\ tClosed[i])'
    BY DEF Tls!StreamInv
  <2>1. ~Tls!Spoilt /\ o = x.out
    BY <1>14, <1>15, <1>16
  <2>2. /\ ~(e = "server" /\ Tls!Reset)
        /\ Straight(e, x) /\ Len(x.in) + Tls!Start(Tls!Peer(e), x.seqIn)
               = Len(w.in) + Tls!Start(Tls!Peer(e), w.seqIn)
        /\ Tls!InPlace(e, x.out, Tls!Start(e, w.seqOut))
             /\ Len(x.out) + Tls!Start(e, w.seqOut) = Tls!Start(e, x.seqOut)
        /\ x.stage = "done" /\ x.out # <<>> => x.in = <<>> \/ (e = "server" /\ version = "1.3")
        /\ x.stage = "done" /\ version = "1.3" => x.in = <<>> \/ e = "server"
    BY ONLY <1>4, <1>5, <1>7, <2>1, HandshakeInPlace, Tls!TlsInv, e \in Tls!Ends,
            n \in 0..Len(tWire[e]), ~tClosed[e], ~bConencted_[e], K \in Nat
  <2>3. Tls!Reset => Tls!Reset'
    BY <1>25 DEF Tls!Reset
  <2>4. Tls!Reset' => \/ Tls!Reset
                      \/ e = "server" /\ x.stage = "done"
    BY <1>25, <2>2 DEF Tls!Reset, Tls!Queued
  <2>5. x.stage = "done" /\ x.in # <<>> /\ version = "1.3" => Tls!Reset'
    BY <1>25 DEF Tls!Reset
  <2>6. \A i \in Tls!Ends : ~(i = "server" /\ Tls!Reset') =>
          (/\ Len(Tls!Before(i)) = Tls!Start(Tls!Peer(i), ssl[Tls!Peer(i)].seqOut)
                  - Tls!Start(Tls!Peer(i), ssl[i].seqIn)
           /\ Tls!InPlace(Tls!Peer(i), Tls!Before(i), Tls!Start(Tls!Peer(i), ssl[i].seqIn)))'
    <3>1. ~(e = "server" /\ Tls!Reset') =>
             LET h == ssl[e].part \o rbio_[e] \o SubSeq(tWire[e], 1, n)
             IN  /\ Tls!InPlace(Tls!Peer(e), v.part \o b, Tls!Start(Tls!Peer(e), v.seqIn))
                 /\ Len(v.part \o b) + Tls!Start(Tls!Peer(e), v.seqIn)
                        = Len(h) + Tls!Start(Tls!Peer(e), ssl[e].seqIn)
      <4> SUFFICES ASSUME ~(e = "server" /\ Tls!Reset')
                   PROVE  LET h == ssl[e].part \o rbio_[e] \o SubSeq(tWire[e], 1, n)
                          IN  /\ Tls!InPlace(Tls!Peer(e), v.part \o b,
                                     Tls!Start(Tls!Peer(e), v.seqIn))
                              /\ Len(v.part \o b) + Tls!Start(Tls!Peer(e), v.seqIn)
                                     = Len(h) + Tls!Start(Tls!Peer(e), ssl[e].seqIn)
        OBVIOUS
      <4>1. v.part \o b = x.in
        <5> DEFINE z == x.in
        <5>1. z \in Seq(Tls!AnyUnit)
          BY <1>10
        <5>2. <<>> \o z = z /\ z \o <<>> = z
          <6> HIDE DEF z
          <6> QED  BY <5>1
        <5>3. CASE x.stage # "done"
          <6>1. v.part = z /\ b = <<>>
            BY <1>11, <1>12, <5>3 DEF Tls!LeftInBio
          <6> QED  BY <5>2, <6>1
        <5>4. CASE x.stage = "done" /\ x.out = <<>>
          <6>1. v.part = <<>> /\ b = z
            BY <1>11, <1>12, <5>4 DEF Tls!LeftInBio
          <6> QED  BY <5>2, <6>1
        <5>5. CASE x.stage = "done" /\ x.out # <<>>
          <6>1. v.part = <<>> /\ b = <<>>
            BY <1>11, <1>12, <5>5 DEF Tls!LeftInBio
          <6>2. z = <<>>
            BY <2>2, <2>5, <5>5
          <6> QED  BY <5>2, <6>1, <6>2
        <5> QED  BY <5>3, <5>4, <5>5
      <4>2. Tls!InPlace(Tls!Peer(e), x.in, Tls!Start(Tls!Peer(e), x.seqIn))
        BY <2>2 DEF Straight
      <4> QED  BY <1>8, <1>11, <2>2, <4>1, <4>2
    <3>2. Tls!InPlace(e, o, Tls!Start(e, ssl[e].seqOut))
            /\ Len(o) + Tls!Start(e, ssl[e].seqOut) = Tls!Start(e, v.seqOut)
      BY <1>8, <1>11, <2>1, <2>2
    <3>3. b \in Seq(Tls!AnyUnit) /\ o \in Seq(Tls!AnyUnit)
      BY UnitsAreUnits
    <3> QED  BY ONLY <1>1, <1>17, <2>1, <2>3, <3>1, <3>2, <3>3, StreamKeeps, e \in Tls!Ends,
                 n \in 0..Len(tWire[e]), v \in SslState
  <2>7. (Tls!Reset => ssl["server"].stage \in {"done", "failed"} /\ ssl["server"].seqIn >= 3)'
    <3> SUFFICES ASSUME Tls!Reset'
                 PROVE  ssl'["server"].stage \in {"done", "failed"} /\ ssl'["server"].seqIn >= 3
      OBVIOUS
    <3>1. CASE Tls!Reset
      <4>1. e # "server" /\ "server" \in Tls!Ends
        BY <2>2, <3>1 DEF Tls!Ends
      <4>2. ssl'["server"] = ssl["server"]
        BY <1>2, <1>18, <4>1
      <4> QED  BY <1>1, <2>1, <3>1, <4>2 DEF Tls!StreamInv
    <3>2. CASE e = "server" /\ x.stage = "done"
      BY <1>9, <1>11, <1>18, <3>2 DEF Tls!AtStage
    <3> QED  BY <2>4, <3>1, <3>2
  <2>8. (\A i \in Tls!Ends : ssl[i].stage = "failed" => i = "server" /\ Tls!Reset /\ tClosed[i])'
    <3>1. \A i \in Tls!Ends : ssl'[i].stage = "failed" => ssl[i].stage = "failed"
      BY <1>2, <1>11, <1>18, <2>2 DEF Straight
    <3> QED  BY <1>1, <1>20, <2>1, <2>3, <3>1 DEF Tls!StreamInv
  <2> QED  BY <2>6, <2>7, <2>8
<1>27. Tls!SlackInv'
  <2>1. ASSUME tDisorder' = {}, NEW i \in Tls!Ends PROVE rbio_'[i] = <<>> /\ ssl'[i].plain = <<>>
    <3>1. tDisorder = {} /\ ~(x.stage = "done" /\ x.in # <<>>)
      BY <1>25, <2>1
    <3>2. rbio_[i] = <<>> /\ ssl[i].plain = <<>>
      BY <1>1, <3>1 DEF Tls!SlackInv
    <3>3. b = <<>>
      BY <1>12, <3>1 DEF Tls!LeftInBio
    <3> QED  BY <1>2, <1>11, <1>18, <1>19, <3>2, <3>3
  <2> QED  BY <2>1 DEF Tls!SlackInv
<1> QED  BY <1>22, <1>23, <1>24, <1>26, <1>27 DEF Tls!TlsInv

-----------------------------------------------------------------------------
(* The segments of an end whose handshake is done. *)

\* What SSL_read has before it when n units have been read.
Facing(e, n) ==
    [in |-> ssl[e].part \o rbio_[e] \o SubSeq(tWire[e], 1, n),
     seqIn |-> ssl[e].seqIn, plain |-> ssl[e].plain]

\* What readData hands up of x and leaves.
Hands(e, n, x, r, bad) ==
    /\ Tls!Exchange(e, n, << >>)
    /\ got' = [got EXCEPT ![e] = @ \o SubSeq(x.plain, 1, r)]
    /\ ssl' = [ssl EXCEPT ![e].seqIn = x.seqIn,
                          ![e].plain = SubSeq(x.plain, r + 1, Len(x.plain)),
                          ![e].part  = IF r = 0 THEN x.in ELSE << >>,
                          ![e].stage = IF bad THEN "failed" ELSE @]
    /\ rbio_' = [rbio_ EXCEPT ![e] = IF r = 0 THEN << >> ELSE x.in]
    /\ bConencted_' = [bConencted_ EXCEPT ![e] = ~bad]
    /\ tClosed' = [tClosed EXCEPT ![e] = bad]
    /\ tDisorder' = tDisorder
         \cup (IF r > 0 /\ x.in # << >> THEN {"coalesced"} ELSE {})
         \cup (IF r < Len(x.plain) THEN {"short_segment"} ELSE {})

\* ReadApplication, in these terms.
LEMMA ReadApplicationIs ==
    ASSUME NEW e \in Tls!Ends, NEW n, Tls!ReadApplication(e, n)
    PROVE  \E x : \E r : \E bad \in BOOLEAN :
             /\ x = Tls!Decrypt(Tls!AfterTicket(Facing(e, n))) /\ r = Tls!Least(n, Len(x.plain))
             /\ bad <=> r = 0 /\ Tls!IsBad(x.in, x.seqIn)
             /\ Hands(e, n, x, r, bad)
<1>1. PICK x \in {Tls!ReadBio(e, n)} : \E r \in {Tls!Least(n, Len(x.plain))} :
        \E bad \in {r = 0 /\ Tls!IsBad(x.in, x.seqIn)} : Hands(e, n, x, r, bad)
  BY DEF Tls!ReadApplication, Hands
<1>2. PICK r \in {Tls!Least(n, Len(x.plain))} :
        \E bad \in {r = 0 /\ Tls!IsBad(x.in, x.seqIn)} : Hands(e, n, x, r, bad)
  BY <1>1
<1>3. PICK bad \in {r = 0 /\ Tls!IsBad(x.in, x.seqIn)} : Hands(e, n, x, r, bad)
  BY <1>2
<1>4. x = Tls!Decrypt(Tls!AfterTicket(Facing(e, n))) /\ r = Tls!Least(n, Len(x.plain))
  BY DEF Tls!ReadBio, Facing
<1>5. bad \in BOOLEAN /\ (bad <=> r = 0 /\ Tls!IsBad(x.in, x.seqIn))
  OBVIOUS
<1> QED  BY <1>3, <1>4, <1>5

\* It is readable.
LEMMA FacingIsReadable ==
    ASSUME Tls!TlsInv, NEW e \in Tls!Ends, NEW n \in 0..Len(tWire[e]), bConencted_[e],
           NEW K \in Nat, K = ssl[Tls!Peer(e)].seqOut
    PROVE  Readable(e, K, Facing(e, n))
<1>1. /\ Tls!TypeOK /\ Tls!ShapeInv /\ Tls!UnitsInv /\ Tls!StageInv
  BY DEF Tls!TlsInv
<1>2. PICK s \in SslState : s = ssl[e]
  BY <1>1 DEF Tls!ShapeInv, SslState
<1>3. PICK a \in Seq(Tls!Units(Tls!Peer(e), K)) : a = ssl[e].part
  BY <1>1 DEF Tls!UnitsInv
<1>4. PICK b \in Seq(Tls!Units(Tls!Peer(e), K)) : b = rbio_[e]
  BY <1>1 DEF Tls!UnitsInv
<1>5. PICK c \in Seq(Tls!Units(Tls!Peer(e), K)) : c = tWire[e]
  BY <1>1 DEF Tls!UnitsInv
<1>6. SubSeq(c, 1, n) \in Seq(Tls!Units(Tls!Peer(e), K))
  <2>1. n \in 0..Len(c)
    BY <1>5
  <2> QED  BY <2>1, Beginning
<1>7. PICK d \in Seq(Tls!Units(Tls!Peer(e), K)) : d = SubSeq(c, 1, n)
  BY <1>6
<1>8. (a \o b) \o d \in Seq(Tls!Units(Tls!Peer(e), K))
  OBVIOUS
<1>9. PICK z : z = Facing(e, n)
  OBVIOUS
<1>10. z.seqIn = s.seqIn /\ z.plain = s.plain /\ z.in = (a \o b) \o d
  BY <1>2, <1>3, <1>4, <1>5, <1>7, <1>9 DEF Facing
<1>11. z = [in |-> z.in, seqIn |-> z.seqIn, plain |-> z.plain]
  BY <1>9 DEF Facing
<1>12. z \in Reads(e, K)
  <2>1. z.seqIn \in Nat \ {0} /\ z.plain \in Seq(Nat)
    BY <1>10 DEF SslState
  <2>2. z.in \in Seq(Tls!Units(Tls!Peer(e), K))
    BY <1>8, <1>10
  <2> QED  BY ONLY <1>11, <2>1, <2>2 DEF Reads
<1>13. z.seqIn <= K /\ Awaits(e, z.seqIn)
  <2>1. s.stage = "done" /\ Tls!AtStage(e, s.stage, s.seqIn, s.seqOut) /\ s.seqIn <= K
    BY <1>1, <1>2 DEF Tls!TypeOK, Tls!StageInv
  <2> QED  BY <1>10, <2>1 DEF Tls!AtStage, Awaits
<1> QED  BY <1>9, <1>12, <1>13 DEF Readable

\* OpenSSL's state after SSL_read.
HandedOn(e, x, r, bad, v) ==
    /\ v.stage = (IF bad THEN "failed" ELSE ssl[e].stage)
    /\ v.seqIn = x.seqIn /\ v.seqOut = ssl[e].seqOut
    /\ v.part = (IF r = 0 THEN x.in ELSE << >>)
    /\ v.plain = SubSeq(x.plain, r + 1, Len(x.plain)) /\ Becomes(e, v)

\* There is one of that form.
LEMMA StateHanded ==
    ASSUME ssl \in [Tls!Ends -> SslState], NEW e \in Tls!Ends, NEW n, NEW x,
           NEW r \in Nat, r <= Len(x.plain), NEW bad \in BOOLEAN, Hands(e, n, x, r, bad),
           x.in \in Seq(Tls!AnyUnit), x.seqIn \in Nat \ {0}, x.plain \in Seq(Nat)
    PROVE  \E v \in SslState : HandedOn(e, x, r, bad, v)
<1>1. PICK s \in SslState : s = ssl[e]
  OBVIOUS
<1>2. PICK p \in Seq(Tls!AnyUnit) : p = IF r = 0 THEN x.in ELSE << >>
  <2>1. << >> \in Seq(Tls!AnyUnit)
    OBVIOUS
  <2>2. CASE r = 0
    BY <2>2
  <2>3. CASE r # 0
    BY <2>1, <2>3
  <2> QED  BY <2>2, <2>3
<1>3. PICK l \in Seq(Nat) : l = SubSeq(x.plain, r + 1, Len(x.plain))
  <2>1. PICK g \in Seq(Nat) : g = x.plain
    OBVIOUS
  <2>2. r \in 0..Len(g)
    BY <2>1
  <2>3. SubSeq(g, r + 1, Len(g)) \in Seq(Nat)
    BY <2>2, Beheaded
  <2> QED  BY <2>1, <2>3
<1>4. PICK a \in Tls!Stages : a = IF bad THEN "failed" ELSE s.stage
  BY DEF SslState, Tls!Stages
<1> DEFINE v == [s EXCEPT !.seqIn = x.seqIn, !.plain = l, !.part = p, !.stage = a]
<1>5. Becomes(e, v)
  <2>1. ssl' = [ssl EXCEPT ![e].seqIn = x.seqIn, ![e].plain = l, ![e].part = p,
                           ![e].stage = IF bad THEN "failed" ELSE @]
    BY <1>2, <1>3 DEF Hands
  <2> QED  BY <1>1, <1>4, <2>1 DEF Becomes
<1>6. /\ v \in SslState /\ v.stage = a /\ v.seqIn = x.seqIn /\ v.seqOut = s.seqOut
      /\ v.part = p /\ v.plain = l
  BY DEF SslState
<1> HIDE DEF v
<1> QED  BY <1>1, <1>2, <1>3, <1>4, <1>5, <1>6 DEF HandedOn

\* What is handed up and what is left make up what there was.
LEMMA HandedUp ==
    ASSUME NEW S, NEW g \in Seq(S), NEW p \in Seq(S), NEW r \in 0..Len(p)
    PROVE  (g \o SubSeq(p, 1, r)) \o SubSeq(p, r + 1, Len(p)) = g \o p
<1>1. SubSeq(p, 1, r) \in Seq(S)
  BY Beginning
<1>2. SubSeq(p, r + 1, Len(p)) \in Seq(S)
  BY Beheaded
<1>3. SubSeq(p, 1, r) \o SubSeq(p, r + 1, Len(p)) = p
  BY TwoParts
<1> DEFINE h == SubSeq(p, 1, r)
           t == SubSeq(p, r + 1, Len(p))
<1>4. h \in Seq(S) /\ t \in Seq(S) /\ h \o t = p
  BY <1>1, <1>2, <1>3
<1> HIDE DEF h, t
<1>5. (g \o h) \o t = g \o (h \o t)
  <2>1. h \in Seq(S) /\ t \in Seq(S)
    BY <1>4
  <2> QED  BY ONLY <2>1, RegroupUnits, g \in Seq(S), SMTT(40)
<1> QED  BY <1>4, <1>5 DEF h, t

\* A segment after the handshake keeps the invariant.
LEMMA ApplicationRead ==
    ASSUME Tls!TlsInv, NEW e \in Tls!Ends, NEW n \in 0..Len(tWire[e]), n # 0,
           ~tClosed[e], bConencted_[e],
           NEW x, x = Tls!Decrypt(Tls!AfterTicket(Facing(e, n))), NEW r,
           r = Tls!Least(n, Len(x.plain)),
           NEW bad \in BOOLEAN, bad <=> r = 0 /\ Tls!IsBad(x.in, x.seqIn), Hands(e, n, x, r, bad),
           version' = version, tSent' = tSent
    PROVE  Tls!TlsInv'
<1>1. /\ Tls!TypeOK /\ Tls!ShapeInv /\ Tls!UnitsInv /\ Tls!StageInv /\ Tls!HandedInv
           /\ Tls!StreamInv /\ Tls!SlackInv
  BY DEF Tls!TlsInv
<1>2. /\ Tls!Peer(e) \in Tls!Ends /\ Tls!Peer(e) # e /\ Tls!Peer(Tls!Peer(e)) = e
      /\ \A i \in Tls!Ends : i = e \/ i = Tls!Peer(e)
  BY TwoEnds
<1>3. /\ ssl \in [Tls!Ends -> SslState] /\ rbio_ \in [Tls!Ends -> Seq(Tls!AnyUnit)]
      /\ tWire \in [Tls!Ends -> Seq(Tls!AnyUnit)] /\ got \in [Tls!Ends -> Seq(Nat)]
      /\ tSent \in [Tls!Ends -> Nat] /\ version \in {"1.2", "1.3"}
  BY <1>1 DEF Tls!ShapeInv, SslState
<1>4. PICK K \in Nat : K = ssl[Tls!Peer(e)].seqOut
  BY <1>2, <1>3 DEF SslState
<1>5. PICK z : z = Facing(e, n)
  OBVIOUS
<1>6. Readable(e, K, z)
  BY <1>4, <1>5, FacingIsReadable
<1>7. /\ z.in = ssl[e].part \o rbio_[e] \o SubSeq(tWire[e], 1, n)
      /\ z.seqIn = ssl[e].seqIn /\ z.plain = ssl[e].plain
  BY <1>5 DEF Facing
<1>8. PICK up \in Seq(Nat) : up = got[e]
  BY <1>3
<1>9. /\ Readable(e, K, x) /\ StaysInPlace(e, z, x)
      /\ up \o x.plain = Tls!Carried(Tls!Peer(e), x.seqIn)
      /\ x.plain = z.plain \/ Len(x.plain) <= Tls!Least(Payload, MaxRecord)
      /\ x.plain = <<>> => ~Tls!IsWhole(x.in) \/ Tls!IsBad(x.in, x.seqIn)
  <2>1. up \o z.plain = Tls!Carried(Tls!Peer(e), z.seqIn)
    BY <1>1, <1>7, <1>8 DEF Tls!HandedInv
  <2>2. x = Tls!Decrypt(Tls!AfterTicket(z))
    BY <1>5
  <2>3. version \in {"1.2", "1.3"}
    BY <1>3
  <2>4. BioIs(e, K, z, up, x)
    BY ONLY <1>6, <2>1, <2>2, <2>3, BioRead, e \in Tls!Ends, K \in Nat,
            up \in Seq(Nat)
  <2> QED  BY <2>4 DEF BioIs
<1>10. /\ x.in \in Seq(Tls!Units(Tls!Peer(e), K)) /\ x.seqIn \in Nat \ {0} /\ x.seqIn <= K
       /\ x.plain \in Seq(Nat) /\ Awaits(e, x.seqIn)
  BY <1>9 DEF Readable, Reads
<1>11. x.in \in Seq(Tls!AnyUnit)
  BY <1>10, UnitsAreUnits
<1>12. PICK p \in Seq(Nat) : p = x.plain
  BY <1>10
<1>13. /\ r \in Nat /\ r <= Len(p) /\ r \in 0..Len(p) /\ (r = 0 <=> p = <<>>)
  <2>1. n \in Nat /\ Len(p) \in Nat /\ (Len(p) = 0 <=> p = <<>>)
    BY <1>3
  <2> QED  BY <1>12, <2>1 DEF Tls!Least
<1>14. PICK v \in SslState :
         /\ v.stage = (IF bad THEN "failed" ELSE ssl[e].stage)
         /\ v.seqIn = x.seqIn /\ v.seqOut = ssl[e].seqOut
         /\ v.part = (IF r = 0 THEN x.in ELSE << >>)
         /\ v.plain = SubSeq(x.plain, r + 1, Len(x.plain)) /\ Becomes(e, v)
  <2>1. r \in Nat /\ r <= Len(x.plain)
    BY <1>12, <1>13
  <2>2. ssl \in [Tls!Ends -> SslState]
    BY <1>3
  <2>3. x.seqIn \in Nat \ {0}
    BY <1>10
  <2>4. x.plain \in Seq(Nat)
    BY <1>10
  <2>5. r \in Nat
    BY <2>1
  <2>6. r <= Len(x.plain)
    BY <2>1
  <2>7. \E u \in SslState : HandedOn(e, x, r, bad, u)
    BY ONLY <1>11, <2>2, <2>3, <2>4, <2>5, <2>6, StateHanded, e \in Tls!Ends, bad \in BOOLEAN,
            Hands(e, n, x, r, bad)
  <2> QED  BY <2>7 DEF HandedOn
<1>15. v.plain = SubSeq(p, r + 1, Len(p)) /\ Len(v.plain) = Len(p) - r
  <2>1. v.plain = SubSeq(p, r + 1, Len(p))
    BY <1>12, <1>14
  <2>2. Len(SubSeq(p, r + 1, Len(p))) = Len(p) - r
    BY ONLY <1>13, Beheaded, p \in Seq(Nat)
  <2> QED  BY <2>1, <2>2
<1>16. ssl[e].stage = "done"
  BY <1>1 DEF Tls!TypeOK
<1>17. PICK b \in Seq(Tls!Units(Tls!Peer(e), K)) :
          /\ b = (IF r = 0 THEN << >> ELSE x.in)
          /\ rbio_' = [rbio_ EXCEPT ![e] = b]
  <2>1. (IF r = 0 THEN << >> ELSE x.in) \in Seq(Tls!Units(Tls!Peer(e), K))
    <3>1. CASE r = 0
      BY <3>1
    <3>2. CASE r # 0
      BY <1>10, <3>2
    <3> QED  BY <3>1, <3>2
  <2>2. rbio_' = [rbio_ EXCEPT ![e] = IF r = 0 THEN << >> ELSE x.in]
    BY DEF Hands
  <2> QED  BY <2>1, <2>2
<1>18. queued' = queued /\ Sends(e, n, <<>>)
  <2>1. Tls!Exchange(e, n, <<>>)
    BY DEF Hands
  <2> QED  BY ONLY <1>1, <2>1, OnlyRead, e \in Tls!Ends, n \in 0..Len(tWire[e])
<1>19. PICK o \in Seq(Tls!Units(e, v.seqOut)) : o = <<>>
  <2>1. \A S : <<>> \in Seq(S)
    OBVIOUS
  <2> QED  BY <2>1
<1>20. StepTaken(e, n, v, b, o)
  BY <1>14, <1>17, <1>18, <1>19 DEF StepTaken, Becomes
<1>21. ssl'[e] = v /\ ssl'[Tls!Peer(e)] = ssl[Tls!Peer(e)]
  BY <1>2, <1>3, <1>14 DEF Becomes
<1>22. rbio_'[e] = b /\ rbio_'[Tls!Peer(e)] = rbio_[Tls!Peer(e)]
  BY <1>2, <1>3, <1>17
<1>23. v.part \o b = x.in
  <2> DEFINE i == x.in
  <2>1. i \in Seq(Tls!AnyUnit)
    BY <1>11
  <2>2. <<>> \o i = i /\ i \o <<>> = i
    <3> HIDE DEF i
    <3> QED  BY <2>1
  <2>3. CASE r = 0
    <3>1. v.part = i /\ b = <<>>
      BY <1>14, <1>17, <2>3
    <3> QED  BY <2>2, <3>1
  <2>4. CASE r # 0
    <3>1. v.part = <<>> /\ b = i
      BY <1>14, <1>17, <2>4
    <3> QED  BY <2>2, <3>1
  <2> QED  BY <2>3, <2>4
<1>24. got'[e] = up \o SubSeq(p, 1, r) /\ got'[Tls!Peer(e)] = got[Tls!Peer(e)]
       /\ got' \in [Tls!Ends -> Seq(Nat)]
  <2>1. up \o SubSeq(p, 1, r) \in Seq(Nat)
    <3>1. SubSeq(p, 1, r) \in Seq(Nat)
      BY ONLY <1>13, Beginning, p \in Seq(Nat)
    <3> DEFINE h == SubSeq(p, 1, r)
    <3>2. h \in Seq(Nat)
      BY <3>1
    <3> HIDE DEF h
    <3>3. up \o h \in Seq(Nat)
      BY ONLY <3>2, PutTogether, up \in Seq(Nat)
    <3> QED  BY <3>3 DEF h
  <2> DEFINE g == up \o SubSeq(p, 1, r)
  <2>2. got' = [got EXCEPT ![e] = g] /\ g \in Seq(Nat)
    BY <1>8, <1>12, <2>1 DEF Hands
  <2> HIDE DEF g
  <2>3. got'[e] = g /\ got'[Tls!Peer(e)] = got[Tls!Peer(e)]
          /\ got' \in [Tls!Ends -> Seq(Nat)]
    BY <1>2, <1>3, <2>2
  <2> QED  BY <2>3 DEF g
<1>25. Tls!ShapeInv' /\ Tls!UnitsInv' /\ Tls!StageInv'
  <2>1. v.part \in Seq(Tls!Units(Tls!Peer(e), K))
    <3>1. CASE r = 0
      BY <1>10, <1>14, <3>1
    <3>2. CASE r # 0
      BY <1>14, <3>2
    <3> QED  BY <3>1, <3>2
  <2>2. v.seqIn <= K /\ ssl[e].seqOut <= v.seqOut
    <3>1. v.seqIn = x.seqIn /\ v.seqOut = ssl[e].seqOut
      BY <1>14
    <3>2. ssl[e].seqOut \in Nat
      BY <1>3 DEF SslState
    <3>3. x.seqIn <= K
      BY <1>10
    <3> QED  BY ONLY <3>1, <3>2, <3>3
  <2>3. Tls!AtStage(e, v.stage, v.seqIn, v.seqOut)
    <3>1. ssl[e].seqOut >= 3
      BY <1>1, <1>16 DEF Tls!StageInv, Tls!AtStage
    <3> QED  BY <1>10, <1>14, <1>16, <3>1 DEF Tls!AtStage, Awaits
  <2>4. tSent' \in [Tls!Ends -> Nat] /\ tSent'[Tls!Peer(e)] = tSent[Tls!Peer(e)]
          /\ tSent'[e] * Tls!Records(e) = Tls!Count(v.seqOut)
    BY <1>1, <1>3, <1>14 DEF Tls!StageInv
  <2> QED  BY ONLY <1>1, <1>4, <1>20, <1>24, <2>1, <2>2, <2>3, <2>4, StepKeeps, e \in Tls!Ends,
               K \in Nat, n \in 0..Len(tWire[e]), v \in SslState,
               b \in Seq(Tls!Units(Tls!Peer(e), K)),
               o \in Seq(Tls!Units(e, v.seqOut))
<1>26. tClosed' = [tClosed EXCEPT ![e] = bad] /\ bConencted_' = [bConencted_ EXCEPT ![e] = ~bad]
  BY DEF Hands
<1>27. Tls!TypeOK'
  <2>1. bConencted_ \in [Tls!Ends -> BOOLEAN] /\ tClosed \in [Tls!Ends -> BOOLEAN]
        /\ queued' \in 0..MaxQueued
    BY <1>1, <1>18 DEF Tls!TypeOK
  <2>2. bConencted_' \in [Tls!Ends -> BOOLEAN]
          /\ bConencted_'[Tls!Peer(e)] = bConencted_[Tls!Peer(e)]
        /\ (bConencted_'[e] <=> ~bad) /\ tClosed' \in [Tls!Ends -> BOOLEAN]
    BY <1>2, <1>26, <2>1
  <2>3. v.stage \in Tls!Stages /\ (v.stage = "done" <=> ~bad)
    BY <1>14, <1>16 DEF Tls!Stages
  <2>4. v.plain # <<>> => Len(v.plain) < Tls!Least(Payload, MaxRecord)
    <3> SUFFICES ASSUME v.plain # <<>> PROVE Len(v.plain) < Tls!Least(Payload, MaxRecord)
      OBVIOUS
    <3>1. Len(p) \in Nat /\ r # 0
      <4>1. p = <<>> => v.plain = <<>>
        <5>1. ASSUME p = <<>> PROVE Len(v.plain) = 0
          BY <1>13, <1>15, <5>1
        <5>2. v.plain \in Seq(Nat)
          BY DEF SslState
        <5> QED  BY <5>1, <5>2
      <4> QED  BY <1>13, <4>1
    <3>2. PICK most \in Nat : most = Tls!Least(Payload, MaxRecord)
      BY TlsBounds DEF Tls!Least
    <3>3. r \in Nat /\ r <= Len(p) /\ Len(v.plain) = Len(p) - r
      BY <1>13, <1>15
    <3>4. CASE p = z.plain
      <4>1. p # <<>>
        BY <1>13, <3>1
      <4>2. Len(p) < most
        BY <1>1, <1>7, <3>2, <3>4, <4>1 DEF Tls!TypeOK
      <4> QED  BY ONLY <3>1, <3>2, <3>3, <4>2
    <3>5. CASE Len(p) <= most
      BY ONLY <3>1, <3>2, <3>3, <3>5
    <3> QED  BY <1>9, <1>12, <3>2, <3>4, <3>5
  <2>5. Tls!IsWhole(v.part) => v.stage = "failed"
    <3>1. CASE r = 0
      <4>1. v.part = x.in
        BY <1>14, <3>1
      <4>2. Tls!IsWhole(x.in) => Tls!IsBad(x.in, x.seqIn)
        BY <1>9, <1>12, <1>13, <3>1
      <4> QED  BY <1>14, <3>1, <4>1, <4>2
    <3>2. CASE r # 0
      BY <1>14, <3>2 DEF Tls!IsWhole
    <3> QED  BY <3>1, <3>2
  <2>6. bConencted_'[e] <=> v.stage = "done"
    BY <2>2, <2>3
  <2> QED  BY ONLY <1>1, <1>21, <2>1, <2>2, <2>3, <2>4, <2>5, <2>6, TypeKeeps, e \in Tls!Ends
<1>28. Tls!HandedInv'
  <2>1. (up \o SubSeq(p, 1, r)) \o SubSeq(p, r + 1, Len(p)) = up \o p
    BY ONLY <1>13, HandedUp, up \in Seq(Nat), p \in Seq(Nat)
  <2>2. got'[e] \o v.plain = Tls!Carried(Tls!Peer(e), v.seqIn)
    BY <1>9, <1>12, <1>14, <1>15, <1>24, <2>1
  <2> QED  BY ONLY <1>1, <1>21, <1>24, <2>2, HandedKeeps, e \in Tls!Ends
<1>29. tDisorder' = tDisorder
         \cup (IF r > 0 /\ x.in # << >> THEN {"coalesced"} ELSE {})
         \cup (IF r < Len(x.plain) THEN {"short_segment"} ELSE {})
  BY DEF Hands
<1>30. (Tls!Spoilt' <=> Tls!Spoilt) /\ (Tls!Reset' <=> Tls!Reset)
  BY <1>29 DEF Tls!Spoilt, Tls!Reset
<1>31. Tls!StreamInv'
  <2> SUFFICES ASSUME ~Tls!Spoilt'
               PROVE  /\ \A i \in Tls!Ends : ~(i = "server" /\ Tls!Reset') =>
                          (/\ Len(Tls!Before(i))
                                  = Tls!Start(Tls!Peer(i), ssl[Tls!Peer(i)].seqOut)
                                      - Tls!Start(Tls!Peer(i), ssl[i].seqIn)
                           /\ Tls!InPlace(Tls!Peer(i), Tls!Before(i),
                                  Tls!Start(Tls!Peer(i), ssl[i].seqIn)))'
                      /\ (Tls!Reset => ssl["server"].stage \in {"done", "failed"}
                                    /\ ssl["server"].seqIn >= 3)'
                      /\ (\A i \in Tls!Ends : ssl[i].stage = "failed" =>
                                             i = "server" /\ Tls!Reset /\ tClosed[i])'
    BY DEF Tls!StreamInv
  <2>1. ~Tls!Spoilt
    BY <1>30
  <2>2. ~(e = "server" /\ Tls!Reset) =>
          /\ Tls!InPlace(Tls!Peer(e), x.in, Tls!Start(Tls!Peer(e), x.seqIn))
          /\ Len(x.in) + Tls!Start(Tls!Peer(e), x.seqIn)
                 = Len(z.in) + Tls!Start(Tls!Peer(e), z.seqIn)
    <3> SUFFICES ASSUME ~(e = "server" /\ Tls!Reset)
                 PROVE  /\ Tls!InPlace(Tls!Peer(e), x.in, Tls!Start(Tls!Peer(e), x.seqIn))
                        /\ Len(x.in) + Tls!Start(Tls!Peer(e), x.seqIn)
                               = Len(z.in) + Tls!Start(Tls!Peer(e), z.seqIn)
      OBVIOUS
    <3>1. Tls!InPlace(Tls!Peer(e), ssl[e].part \o rbio_[e] \o SubSeq(tWire[e], 1, n),
              Tls!Start(Tls!Peer(e), ssl[e].seqIn))
      BY ONLY <1>1, <2>1, ReadsInPlace, ~(e = "server" /\ Tls!Reset), e \in Tls!Ends,
              n \in 0..Len(tWire[e])
    <3>2. Tls!InPlace(Tls!Peer(e), z.in, Tls!Start(Tls!Peer(e), z.seqIn))
      BY <1>7, <3>1
    <3> QED  BY <1>9, <3>2 DEF StaysInPlace
  <2>3. \A i \in Tls!Ends : ~(i = "server" /\ Tls!Reset') =>
          (/\ Len(Tls!Before(i)) = Tls!Start(Tls!Peer(i), ssl[Tls!Peer(i)].seqOut)
                  - Tls!Start(Tls!Peer(i), ssl[i].seqIn)
           /\ Tls!InPlace(Tls!Peer(i), Tls!Before(i), Tls!Start(Tls!Peer(i), ssl[i].seqIn)))'
    <3>1. ~(e = "server" /\ Tls!Reset') =>
             LET h == ssl[e].part \o rbio_[e] \o SubSeq(tWire[e], 1, n)
             IN  /\ Tls!InPlace(Tls!Peer(e), v.part \o b, Tls!Start(Tls!Peer(e), v.seqIn))
                 /\ Len(v.part \o b) + Tls!Start(Tls!Peer(e), v.seqIn)
                        = Len(h) + Tls!Start(Tls!Peer(e), ssl[e].seqIn)
      BY <1>7, <1>14, <1>23, <1>30, <2>2
    <3>2. Tls!InPlace(e, o, Tls!Start(e, ssl[e].seqOut))
            /\ Len(o) + Tls!Start(e, ssl[e].seqOut) = Tls!Start(e, v.seqOut)
      <4>1. Tls!Start(e, v.seqOut) \in Nat /\ v.seqOut = ssl[e].seqOut
        <5>1. v.seqOut \in Nat \ {0}
          BY DEF SslState
        <5> QED  BY <1>14, <5>1, StartsFollow
      <4> QED  BY <1>19, <4>1 DEF Tls!InPlace
    <3>3. b \in Seq(Tls!AnyUnit) /\ o \in Seq(Tls!AnyUnit)
      BY UnitsAreUnits
    <3>4. Tls!Reset => Tls!Reset'
      BY <1>30
    <3> QED  BY ONLY <1>1, <1>20, <2>1, <3>1, <3>2, <3>3, <3>4, StreamKeeps, e \in Tls!Ends,
                 n \in 0..Len(tWire[e]), v \in SslState
  <2>4. (Tls!Reset => ssl["server"].stage \in {"done", "failed"} /\ ssl["server"].seqIn >= 3)'
    <3> SUFFICES ASSUME Tls!Reset
                 PROVE  ssl'["server"].stage \in {"done", "failed"} /\ ssl'["server"].seqIn >= 3
      BY <1>30
    <3>1. CASE e = "server"
      BY <1>10, <1>14, <1>16, <1>21, <3>1 DEF Awaits
    <3>2. CASE e # "server"
      <4>1. ssl'["server"] = ssl["server"]
        BY <1>2, <1>21, <3>2 DEF Tls!Ends
      <4> QED  BY <1>1, <2>1, <4>1 DEF Tls!StreamInv
    <3> QED  BY <3>1, <3>2
  <2>5. (\A i \in Tls!Ends : ssl[i].stage = "failed" => i = "server" /\ Tls!Reset /\ tClosed[i])'
    <3>1. ASSUME bad PROVE e = "server" /\ Tls!Reset
      <4> SUFFICES ASSUME ~(e = "server" /\ Tls!Reset) PROVE FALSE
        OBVIOUS
      <4>1. Tls!InPlace(Tls!Peer(e), x.in, Tls!Start(Tls!Peer(e), x.seqIn))
        BY <2>2
      <4>2. PICK s \in Seq(Tls!Units(Tls!Peer(e), K)) : s = x.in
        BY <1>10
      <4>3. PICK q \in Nat \ {0} : q = x.seqIn
        BY <1>10
      <4>4. Tls!InPlace(Tls!Peer(e), s, Tls!Start(Tls!Peer(e), q))
        BY <4>1, <4>2, <4>3
      <4>5. ~Tls!IsBad(s, q)
        BY ONLY <4>4, InPlaceIsGood, TwoEnds, e \in Tls!Ends, K \in Nat,
                s \in Seq(Tls!Units(Tls!Peer(e), K)), q \in Nat \ {0}
      <4> QED  BY <3>1, <4>2, <4>3, <4>5
    <3>2. tClosed \in [Tls!Ends -> BOOLEAN]
      BY <1>1 DEF Tls!TypeOK
    <3>3. tClosed'[e] = bad /\ tClosed'[Tls!Peer(e)] = tClosed[Tls!Peer(e)]
      BY <1>2, <1>26, <3>2
    <3>4. ASSUME NEW i \in Tls!Ends, ssl'[i].stage = "failed"
          PROVE  i = "server" /\ Tls!Reset' /\ tClosed'[i]
      <4>1. CASE i = e
        <5>1. bad
          BY <1>14, <1>16, <1>21, <3>4, <4>1
        <5> QED  BY <1>30, <3>1, <3>3, <4>1, <5>1
      <4>2. CASE i = Tls!Peer(e)
        <5>1. ssl[i].stage = "failed"
          BY <1>21, <3>4, <4>2
        <5> QED  BY <1>1, <1>30, <2>1, <3>3, <4>2, <5>1 DEF Tls!StreamInv
      <4> QED  BY <1>2, <4>1, <4>2
    <3> QED  BY <3>4
  <2> QED  BY <2>3, <2>4, <2>5
<1>32. Tls!SlackInv'
  <2>1. ASSUME tDisorder' = {}, NEW i \in Tls!Ends PROVE rbio_'[i] = <<>> /\ ssl'[i].plain = <<>>
    <3>1. tDisorder = {} /\ ~(r > 0 /\ x.in # <<>>) /\ ~(r < Len(p))
      BY <1>12, <1>29, <2>1
    <3>2. rbio_[i] = <<>> /\ ssl[i].plain = <<>>
      BY <1>1, <3>1 DEF Tls!SlackInv
    <3>3. b = <<>>
      BY <1>13, <1>17, <3>1
    <3>4. v.plain = <<>>
      <4>1. Len(v.plain) = 0
        BY <1>13, <1>15, <3>1
      <4>2. v.plain \in Seq(Nat)
        BY DEF SslState
      <4> QED  BY <4>1, <4>2
    <3> QED  BY <1>2, <1>21, <1>22, <3>2, <3>3, <3>4
  <2> QED  BY <2>1 DEF Tls!SlackInv
<1> QED  BY <1>25, <1>27, <1>28, <1>31, <1>32 DEF Tls!TlsInv

\* Without ssl_ the process is lost, and nothing else happens.
LEMMA OnMessageKeeps ==
    ASSUME Tls!TlsInv, NEW e \in Tls!Ends, NEW n, Tls!OnMessage(e, n)
    PROVE  Tls!TlsInv'
<1>1. n \in 1..Len(tWire[e]) /\ ~tClosed[e] /\ version' = version /\ tSent' = tSent
  BY DEF Tls!OnMessage
<1>2. n \in 0..Len(tWire[e]) /\ n # 0
  <2>1. Len(tWire[e]) \in Nat
    <3>1. tWire[e] \in Seq(Tls!AnyUnit)
      BY DEF Tls!TlsInv, Tls!ShapeInv
    <3> QED  BY <3>1
  <2> QED  BY <1>1, <2>1
<1>3. CASE e = "server" /\ ~created
  <2>1. UNCHANGED <<version, bConencted_, ssl, rbio_, tWire, tClosed, tSent, queued, got, tDisorder>>
    BY <1>1, <1>3 DEF Tls!OnMessage
  <2> QED  BY <2>1, TlsUnchanged
<1>4. CASE Tls!ReadHandshake(e, n)
  <2>1. ~bConencted_[e]
    BY <1>4 DEF Tls!ReadHandshake
  <2>2. PICK x : x = Tls!HandshakeStep(Tls!HandshakeStep(Faced(e, n))) /\ Takes(e, n, x)
    BY <1>4, ReadHandshakeIs
  <2> QED  BY ONLY Tls!TlsInv, e \in Tls!Ends, <1>1, <1>2, <2>1, <2>2, HandshakeRead
<1>5. CASE Tls!ReadApplication(e, n)
  <2>1. bConencted_[e]
    BY <1>5 DEF Tls!ReadApplication
  <2>2. \E x : \E r : \E bad \in BOOLEAN :
          /\ x = Tls!Decrypt(Tls!AfterTicket(Facing(e, n))) /\ r = Tls!Least(n, Len(x.plain))
          /\ bad <=> r = 0 /\ Tls!IsBad(x.in, x.seqIn)
          /\ Hands(e, n, x, r, bad)
    BY <1>5, ReadApplicationIs
  <2>3. PICK x : \E r : \E bad \in BOOLEAN :
          /\ x = Tls!Decrypt(Tls!AfterTicket(Facing(e, n))) /\ r = Tls!Least(n, Len(x.plain))
          /\ bad <=> r = 0 /\ Tls!IsBad(x.in, x.seqIn)
          /\ Hands(e, n, x, r, bad)
    BY <2>2
  <2>4. PICK r : \E bad \in BOOLEAN :
          /\ x = Tls!Decrypt(Tls!AfterTicket(Facing(e, n))) /\ r = Tls!Least(n, Len(x.plain))
          /\ bad <=> r = 0 /\ Tls!IsBad(x.in, x.seqIn)
          /\ Hands(e, n, x, r, bad)
    BY <2>3
  <2>5. PICK bad \in BOOLEAN :
          /\ x = Tls!Decrypt(Tls!AfterTicket(Facing(e, n))) /\ r = Tls!Least(n, Len(x.plain))
          /\ bad <=> r = 0 /\ Tls!IsBad(x.in, x.seqIn)
          /\ Hands(e, n, x, r, bad)
    BY <2>4
  <2> QED  BY ONLY Tls!TlsInv, e \in Tls!Ends, <1>1, <1>2, <2>1, <2>5, bad \in BOOLEAN,
                   ApplicationRead
<1> QED  BY <1>3, <1>4, <1>5 DEF Tls!OnMessage

\* Every step does.
LEMMA TlsKept == Tls!TlsInv /\ [Tls!Next]_tls => Tls!TlsInv'
<1> SUFFICES ASSUME Tls!TlsInv, [Tls!Next]_tls PROVE Tls!TlsInv'
  OBVIOUS
<1>1. CASE Tls!Connect
  BY <1>1, TlsConnectKeeps
<1>2. ASSUME NEW e \in Tls!Ends, Tls!SendData(e) PROVE Tls!TlsInv'
  BY <1>2, SendDataKeeps
<1>3. ASSUME NEW e \in Tls!Ends, NEW n, Tls!OnMessage(e, n) PROVE Tls!TlsInv'
  BY <1>3, OnMessageKeeps
<1>4. CASE UNCHANGED tls
  <2>1. UNCHANGED <<version, bConencted_, ssl, rbio_, tWire, tClosed, tSent, queued, got, tDisorder>>
    BY <1>4 DEF tls
  <2> QED  BY <2>1, TlsUnchanged
<1> QED  BY <1>1, <1>2, <1>3, <1>4 DEF Tls!Next

\* What the invariant says of the end it is about.
LEMMA TlsSafe == Tls!TlsInv => Tls!InOrder /\ Tls!NothingHeldBack /\ Tls!FailsOnlyByReset
<1> SUFFICES ASSUME Tls!TlsInv PROVE Tls!InOrder /\ Tls!NothingHeldBack /\ Tls!FailsOnlyByReset
  OBVIOUS
<1>1. /\ Tls!TypeOK /\ Tls!ShapeInv /\ Tls!UnitsInv /\ Tls!StageInv /\ Tls!HandedInv
           /\ Tls!StreamInv /\ Tls!SlackInv
  BY DEF Tls!TlsInv
<1>2. ASSUME NEW e \in Tls!Ends
      PROVE  /\ Tls!Peer(e) \in Tls!Ends /\ ssl[e].seqIn \in Nat \ {0}
             /\ ssl[Tls!Peer(e)].seqOut \in Nat \ {0}
             /\ ssl[e].seqIn <= ssl[Tls!Peer(e)].seqOut
             /\ Tls!Taken(Tls!Peer(e)) = Tls!Carried(Tls!Peer(e), ssl[Tls!Peer(e)].seqOut)
  <2>1. Tls!Peer(e) \in Tls!Ends
    BY TwoEnds
  <2>2. /\ ssl[e].seqIn \in Nat \ {0} /\ ssl[Tls!Peer(e)].seqOut \in Nat \ {0}
        /\ tSent[Tls!Peer(e)] \in Nat
    BY <1>1, <2>1 DEF Tls!ShapeInv
  <2>3. ssl[e].seqIn <= ssl[Tls!Peer(e)].seqOut
          /\ tSent[Tls!Peer(e)] * Tls!Records(Tls!Peer(e)) = Tls!Count(ssl[Tls!Peer(e)].seqOut)
    BY <1>1, <2>1 DEF Tls!StageInv
  <2>4. PICK p \in Tls!Ends, k \in Nat, q \in Nat \ {0} :
          p = Tls!Peer(e) /\ k = tSent[p] /\ q = ssl[p].seqOut
    BY <2>1, <2>2
  <2>5. Tls!Bytes(p, k * Tls!Took(p)) = Tls!Carried(p, q)
    BY <2>3, <2>4, TakenIs
  <2>6. Tls!Taken(p) = Tls!Bytes(p, k * Tls!Took(p))
    BY <2>4 DEF Tls!Taken
  <2> QED  BY <2>1, <2>2, <2>3, <2>4, <2>5, <2>6
<1>3. Tls!InOrder
  <2>1. ASSUME NEW e \in Tls!Ends PROVE Tls!IsPrefix(got[e], Tls!Taken(Tls!Peer(e)))
    <3>1. PICK p \in Tls!Ends, q \in Nat \ {0}, u \in Nat \ {0} :
            p = Tls!Peer(e) /\ q = ssl[e].seqIn /\ u = ssl[Tls!Peer(e)].seqOut
      BY <1>2
    <3>3. PICK g \in Seq(Nat) : g = got[e]
      BY <1>1 DEF Tls!ShapeInv
    <3>4. PICK l \in Seq(Nat) : l = ssl[e].plain
      BY <1>1 DEF Tls!ShapeInv
    <3>5. q <= u /\ g \o l = Tls!Carried(p, q)
      BY <1>1, <1>2, <3>1, <3>3, <3>4 DEF Tls!HandedInv
    <3>6. Tls!IsPrefix(g, Tls!Carried(p, u))
      BY ONLY <3>5, BytesBegin, p \in Tls!Ends, q \in Nat \ {0}, u \in Nat \ {0},
              g \in Seq(Nat), l \in Seq(Nat)
    <3> QED  BY <1>2, <3>1, <3>3, <3>6
  <2> QED  BY <2>1 DEF Tls!InOrder
<1>4. Tls!FailsOnlyByReset
  BY <1>1 DEF Tls!FailsOnlyByReset, Tls!StreamInv, Tls!Spoilt, Tls!Reset
<1>5. Tls!NothingHeldBack
  <2>1. ASSUME NEW e \in Tls!Ends, tWire[e] = <<>>, tDisorder = {}
        PROVE  got[e] = Tls!Taken(Tls!Peer(e))
    <3>1. ~Tls!Spoilt /\ ~Tls!Reset
      BY <2>1 DEF Tls!Spoilt, Tls!Reset
    <3>2. rbio_[e] = <<>> /\ ssl[e].plain = <<>>
      BY <1>1, <2>1 DEF Tls!SlackInv
    <3>3. PICK K \in Nat \ {0} : K = ssl[Tls!Peer(e)].seqOut
      BY <1>1, <1>2 DEF Tls!ShapeInv
    <3>4. PICK q \in Nat \ {0} : q = ssl[e].seqIn
      BY <1>1 DEF Tls!ShapeInv
    <3>5. PICK s \in Seq(Tls!Units(Tls!Peer(e), K)) : s = ssl[e].part
      BY <1>1, <3>3 DEF Tls!UnitsInv
    <3>6. ~Tls!IsWhole(s) /\ q <= K
      BY <1>1, <3>1, <3>3, <3>4, <3>5 DEF Tls!TypeOK, Tls!StreamInv, Tls!StageInv
    <3>7. Tls!Before(e) = s
      <4>1. s \in Seq(Tls!AnyUnit)
        BY UnitsAreUnits
      <4>2. (s \o <<>>) \o <<>> = s
        BY <4>1
      <4> QED  BY <2>1, <3>2, <3>5, <4>2 DEF Tls!Before
    <3>8. Len(s) = Tls!Start(Tls!Peer(e), K)
              - Tls!Start(Tls!Peer(e), q)
                  /\ Tls!InPlace(Tls!Peer(e), s, Tls!Start(Tls!Peer(e), q))
      BY <1>1, <3>1, <3>3, <3>4, <3>7 DEF Tls!StreamInv
    <3>9. q = K
      <4> SUFFICES ASSUME q < K PROVE FALSE
        BY <3>6
      <4>1. /\ Tls!Start(Tls!Peer(e), q) + Tls!Size(Tls!Peer(e), q) <= Tls!Start(Tls!Peer(e), K)
            /\ Tls!Start(Tls!Peer(e), q) \in Nat /\ Tls!Size(Tls!Peer(e), q) \in Nat
            /\ Tls!Start(Tls!Peer(e), K) \in Nat /\ 1 <= Tls!Size(Tls!Peer(e), q)
        BY TwoEnds, StartsFollow, StartsInOrder
      <4>2. Len(s) >= Tls!Size(Tls!Peer(e), q) /\ s # <<>>
        <5>1. Len(s) >= Tls!Size(Tls!Peer(e), q) /\ Len(s) >= 1
          BY <3>8, <4>1
        <5> QED  BY <5>1
      <4>3. s[1].of = Tls!Size(Tls!Peer(e), q)
        BY ONLY <3>8, <4>2, InPlaceFirst, TwoEnds, e \in Tls!Ends, K \in Nat,
                s \in Seq(Tls!Units(Tls!Peer(e), K)), q \in Nat \ {0}
      <4> QED  BY <3>6, <4>2, <4>3 DEF Tls!IsWhole
    <3>10. got[e] \o <<>> = Tls!Taken(Tls!Peer(e))
      BY <1>1, <1>2, <3>2, <3>3, <3>4, <3>9 DEF Tls!HandedInv
    <3>11. got[e] \o <<>> = got[e]
      <4>1. PICK g \in Seq(Nat) : g = got[e]
        BY <1>1 DEF Tls!ShapeInv
      <4>2. <<>> \in Seq(Nat) /\ Len(<<>>) = 0
        OBVIOUS
      <4>3. g \o <<>> \in Seq(Nat) /\ Len(g \o <<>>) = Len(g)
            /\ \A i \in 1..Len(g) : (g \o <<>>)[i] = g[i]
        BY <4>2, PutTogether
      <4>4. g \o <<>> = g
        BY <4>3, SameUnits
      <4> QED  BY <4>1, <4>4
    <3> QED  BY <1>2, <3>10, <3>11
  <2> QED  BY <2>1 DEF Tls!NothingHeldBack
<1> QED  BY <1>3, <1>4, <1>5

\* Over every segmentation of the two streams and every write the kernel takes in
\* part, for any length of messages and of records: what an end of a TLS connection
\* is handed is a prefix of what the other's SSL_write took, every byte of a client
\* and the first record of each message of a server; it is all of it once
\* everything has arrived in segments that fit their records; and only a server of
\* TLS 1.3 that was sent data with the end of the handshake fails of itself (tls.cc).
THEOREM TlsEndsSurvive == MCSpec => []TlsSurvives
<1>1. MCInit => Tls!TlsInv
  BY TlsInitially DEF MCInit
<1>2. Tls!TlsInv /\ [MCNext]_all => Tls!TlsInv'
  <2>1. [MCNext]_all => [Tls!Next]_tls
    BY DEF MCNext, Ended, all
  <2> QED  BY <2>1, TlsKept
<1>3. MCSpec => MCInit /\ [][MCNext]_all
  BY DEF MCSpec
<1>4. Tls!TlsInv => TlsSurvives
  BY TlsSafe DEF TlsSurvives
<1> QED  BY <1>1, <1>2, <1>3, <1>4, PTL
=============================================================================
