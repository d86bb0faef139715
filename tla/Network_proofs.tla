--------------------------- MODULE Network_proofs ---------------------------
(***************************************************************************)
(* Proofs about the systems of MCNetwork, for any values of its constants: *)
(* AsyncPost loses no wakeup and implements PostQueue, the table of        *)
(* SocketServer is right, DataBuffers implements ByteQueue, the two ends   *)
(* of HTTP keep their bodies, and all of them their types.                 *)
(***************************************************************************)
EXTENDS MCNetwork, FiniteSetTheorems, TLAPS

-----------------------------------------------------------------------------
(* Sequences and cardinalities *)

\* What a sequence is with x before it.
LEMMA Prepended ==
    ASSUME NEW S, NEW s \in Seq(S), NEW x \in S
    PROVE  /\ <<x>> \o s \in Seq(S) /\ DOMAIN (<<x>> \o s) = 1..(Len(s) + 1)
           /\ (<<x>> \o s)[1] = x
           /\ \A i \in 1..(Len(s) + 1) :
                 i = 1 \/ (i - 1 \in 1..Len(s) /\ (<<x>> \o s)[i] = s[i - 1])
OBVIOUS

\* What it is without its head.
LEMMA Beheaded ==
    ASSUME NEW S, NEW s \in Seq(S), s # <<>>
    PROVE  /\ Head(s) = s[1] /\ 1 \in DOMAIN s /\ s[1] \in S
           /\ Tail(s) \in Seq(S) /\ DOMAIN Tail(s) = 1..(Len(s) - 1)
           /\ \A i \in DOMAIN Tail(s) : i + 1 \in DOMAIN s /\ i + 1 # 1 /\ Tail(s)[i] = s[i + 1]
OBVIOUS

\* What it is with x behind it.
LEMMA Appended ==
    ASSUME NEW S, NEW s \in Seq(S), NEW x \in S
    PROVE  /\ Append(s, x) \in Seq(S)
           /\ \A i \in DOMAIN Append(s, x) :
                 (i \in DOMAIN s /\ Append(s, x)[i] = s[i]) \/ Append(s, x)[i] = x
OBVIOUS

\* The instances count as this module does.
LEMMA SameCardinality == \A S : Server!Cardinality(S) = Cardinality(S)
BY DEF Server!Cardinality, Cardinality

-----------------------------------------------------------------------------
(* AsyncPost *)

(* libuv calls async_callback only when the last batch has run, and never  *)
(* for a handle that is closing: otherwise the swap would put new          *)
(* callbacks before old ones, or run some after the close.                 *)
BatchInv == woken => callbacks = << >> /\ async = "open"

PostsInv == TypeOK /\ NoLostWakeup /\ BatchInv

-----------------------------------------------------------------------------
(* A callback numbered by its thread is one of AllCallbacks.               *)
LEMMA NewCallback ==
  ASSUME TypeOK, NEW t \in Threads, posts[t] < MaxPosts
  PROVE  posts[t] + 1 \in 1 .. MaxPosts /\ <<t, posts[t] + 1>> \in AllCallbacks
  BY MaxPostsAssumption DEF TypeOK, AllCallbacks

(* Sequences: one element more, one less, and two of them in a row.        *)
LEMMA SeqFacts ==
  ASSUME NEW S, NEW e \in S, NEW s \in Seq(S), NEW r \in Seq(S)
  PROVE  /\ << >> \in Seq(S) /\ Append(s, e) \in Seq(S)
         /\ s # << >> => Head(s) \in S /\ Tail(s) \in Seq(S)
         /\ s \o r \in Seq(S)
         /\ << >> \o s = s /\ s \o << >> = s
  OBVIOUS

LEMMA AppendToConcat ==
  ASSUME NEW S, NEW e \in S, NEW s \in Seq(S), NEW r \in Seq(S)
  PROVE  s \o Append(r, e) = Append(s \o r, e)
  OBVIOUS

LEMMA HeadOfConcat ==
  ASSUME NEW S, NEW s \in Seq(S), NEW r \in Seq(S), s # << >>
  PROVE  /\ s \o r # << >>
         /\ Head(s \o r) = Head(s)
         /\ Tail(s \o r) = Tail(s) \o r
         /\ Len(s) > 0 /\ Len(Tail(s)) = Len(s) - 1
  OBVIOUS

-----------------------------------------------------------------------------
LEMMA PostsInit == Init => PostsInv
<1> SUFFICES ASSUME Init PROVE PostsInv
  OBVIOUS
<1>1. << >> \in Seq(AllCallbacks)
  OBVIOUS
<1>2. poster \in [Threads -> {"idle", "pushed"}] /\ posts \in [Threads -> 0 .. MaxPosts]
  BY MaxPostsAssumption DEF Init
<1>3. TypeOK
  BY <1>1, <1>2 DEF Init, TypeOK
<1> QED
  BY <1>3 DEF Init, PostsInv, NoLostWakeup, BatchInv

LEMMA PostsStep == PostsInv /\ [Next]_vars => PostsInv'
<1> SUFFICES ASSUME PostsInv, [Next]_vars PROVE PostsInv'
  OBVIOUS
<1> USE DEF PostsInv
<1>1. ASSUME NEW t \in Threads, PushCallback(t) PROVE PostsInv'
  <2>1. TypeOK'
    <3>1. <<t, posts[t] + 1>> \in AllCallbacks /\ posts[t] + 1 \in 0 .. MaxPosts
      BY <1>1, NewCallback, MaxPostsAssumption DEF PushCallback
    <3>2. cbQueue' \in Seq(AllCallbacks)
      BY <1>1, <3>1, SeqFacts DEF PushCallback, TypeOK
    <3> QED
      BY <1>1, <3>1, <3>2 DEF PushCallback, TypeOK
  <2>2. NoLostWakeup'
    BY <1>1 DEF PushCallback, NoLostWakeup, TypeOK
  <2>3. BatchInv'
    BY <1>1 DEF PushCallback, BatchInv
  <2> QED
    BY <2>1, <2>2, <2>3
<1>2. ASSUME NEW t \in Threads, SendAsync(t) PROVE PostsInv'
  <2>1. TypeOK'
    <3>1. pending' \in BOOLEAN /\ fault' \in BOOLEAN
      BY <1>2 DEF SendAsync
    <3> QED
      BY <1>2, <3>1 DEF SendAsync, TypeOK
  <2>2. NoLostWakeup'
    <3>1. async' = "open" => pending'
      BY <1>2 DEF SendAsync
    <3> QED
      BY <3>1 DEF NoLostWakeup
  <2>3. BatchInv'
    BY <1>2 DEF SendAsync, BatchInv
  <2> QED
    BY <2>1, <2>2, <2>3
<1>3. ASSUME Wake PROVE PostsInv'
  BY <1>3 DEF Wake, LoopFree, TypeOK, NoLostWakeup, BatchInv
<1>4. ASSUME SwapQueue PROVE PostsInv'
  BY <1>4, << >> \in Seq(AllCallbacks) DEF SwapQueue, TypeOK, NoLostWakeup, BatchInv
<1>5. ASSUME RunCallback PROVE PostsInv'
  <2>1. ran' \in Seq(AllCallbacks) /\ callbacks' \in Seq(AllCallbacks)
    BY <1>5, SeqFacts DEF RunCallback, TypeOK
  <2> QED
    BY <1>5, <2>1 DEF RunCallback, TypeOK, NoLostWakeup, BatchInv
<1>6. ASSUME CloseAsync PROVE PostsInv'
  BY <1>6 DEF CloseAsync, TypeOK, NoLostWakeup, BatchInv
<1>7. ASSUME FreeAsync PROVE PostsInv'
  BY <1>7 DEF FreeAsync, TypeOK, NoLostWakeup, BatchInv
<1>8. CASE UNCHANGED vars
  BY <1>8 DEF vars, TypeOK, NoLostWakeup, BatchInv
<1> QED
  BY <1>1, <1>2, <1>3, <1>4, <1>5, <1>6, <1>7, <1>8 DEF Next

(* The inductive invariant holds in every behaviour, also an unfair one.   *)
THEOREM PostsInvariance == Init /\ [][Next]_vars => []PostsInv
  BY PostsInit, PostsStep, PTL

(* TypeOK: what the fields of AsyncCore and of its handle hold.            *)
THEOREM PostsAreTyped == Spec => []TypeOK
<1>1. PostsInv => TypeOK
  BY DEF PostsInv
<1> QED
  BY <1>1, PostsInvariance, PTL DEF Spec

(* NoLostWakeup: although sends are coalesced, a callback in an open queue *)
(* is always about to be noticed (postAsyncEvent, process_callback).       *)
THEOREM WakeupsAreKept == Spec => []NoLostWakeup
<1>1. PostsInv => NoLostWakeup
  BY DEF PostsInv
<1> QED
  BY <1>1, PostsInvariance, PTL DEF Spec

-----------------------------------------------------------------------------
LEMMA PostsInitMaps == Init => Abstract!QInit
  BY DEF Init, Abstract!QInit

(* Each step is a step of the abstract queue or changes nothing of it.     *)
LEMMA PostsStepMaps == PostsInv /\ [Next]_vars => [Abstract!QNext]_(Abstract!qvars)
<1> SUFFICES ASSUME PostsInv, [Next]_vars PROVE [Abstract!QNext]_(Abstract!qvars)
  OBVIOUS
<1> USE DEF PostsInv
<1>1. ASSUME NEW t \in Threads, PushCallback(t) PROVE Abstract!QNext
  <2>1. <<t, posts[t] + 1>> \in AllCallbacks
    BY <1>1, NewCallback DEF PushCallback
  <2>2. Abstract!Post(<<t, posts[t] + 1>>)
    BY <1>1, <2>1, AppendToConcat DEF PushCallback, TypeOK, Abstract!Post
  <2> QED
    BY <2>1, <2>2 DEF Abstract!QNext
<1>2. ASSUME NEW t \in Threads, SendAsync(t) PROVE UNCHANGED Abstract!qvars
  BY <1>2 DEF SendAsync, Abstract!qvars
<1>3. ASSUME Wake PROVE UNCHANGED Abstract!qvars
  BY <1>3 DEF Wake, Abstract!qvars
<1>4. ASSUME SwapQueue PROVE UNCHANGED Abstract!qvars
  <2>1. callbacks = << >> /\ async = "open"
    BY <1>4 DEF SwapQueue, BatchInv
  <2>2. callbacks' \o cbQueue' = callbacks \o cbQueue
    BY <1>4, <2>1 DEF SwapQueue, TypeOK
  <2> QED
    BY <1>4, <2>1, <2>2 DEF SwapQueue, Abstract!qvars
<1>5. ASSUME RunCallback PROVE Abstract!RunFirst
  BY <1>5, HeadOfConcat DEF RunCallback, TypeOK, Abstract!RunFirst
<1>6. ASSUME CloseAsync PROVE Abstract!QNext
  <2>1. Len(callbacks) \in 0 .. Len(callbacks \o cbQueue)
    BY DEF TypeOK
  <2>2. Abstract!Close(Len(callbacks))
    BY <1>6 DEF CloseAsync, Abstract!Close
  <2> QED
    BY <2>1, <2>2 DEF Abstract!QNext
<1>7. ASSUME FreeAsync PROVE UNCHANGED Abstract!qvars
  BY <1>7 DEF FreeAsync, Abstract!qvars
<1>8. CASE UNCHANGED vars
  BY <1>8 DEF vars, Abstract!qvars
<1> QED
  BY <1>1, <1>2, <1>3, <1>4, <1>5, <1>6, <1>7, <1>8 DEF Next, Abstract!QNext

(* The safety part of ImplementsPostQueue: callbacks run one by one, in    *)
(* the order of their posts, none twice and none after the batch that a    *)
(* close left (AsyncEvent.cc), for any threads.                            *)
THEOREM PostsImplementQueue == Spec => Abstract!QSafety
  BY PostsInitMaps, PostsStepMaps, PostsInvariance, PTL DEF Spec, Abstract!QSafety

-----------------------------------------------------------------------------
(* SocketServer *)

\* The connections that were closed with a key are finitely many.
LEMMA ClosedAreFinite ==
    ASSUME NEW key
    PROVE  /\ IsFiniteSet(Server!ClosedOf(key))
           /\ Cardinality(Server!ClosedOf(key)) \in 0..MaxConns
<1>1. MaxConns \in Nat
  BY ServerAssumption DEF Server!BoundsAssumption
<1>2. IsFiniteSet(1..MaxConns) /\ Cardinality(1..MaxConns) = MaxConns
  BY <1>1, FS_Interval
<1>3. Server!ClosedOf(key) \in SUBSET (1..MaxConns)
  BY DEF Server!ClosedOf, Server!Conns
<1>4. IsFiniteSet(Server!ClosedOf(key)) /\ Cardinality(Server!ClosedOf(key)) <= MaxConns
  BY <1>2, <1>3, FS_Subset
<1>5. Cardinality(Server!ClosedOf(key)) \in Nat
  BY <1>4, FS_CardinalityType
<1> QED  BY <1>1, <1>4, <1>5

\* The bounds, and what a worker that has nothing to do looks like.
LEMMA ServerBounds ==
    /\ MaxConns \in Nat /\ ServerCloses \in Nat /\ MaxSends \in Nat
    /\ (CHOOSE a \in Addrs : TRUE) \in Addrs
    /\ Server!None \notin Server!Conns
BY ServerAssumption DEF Server!AddrsAssumption, Server!BoundsAssumption, Server!None,
   Server!Conns

\* Nothing is connected in the beginning.
LEMMA ServerInit == Server!Init => Server!ServerInv
<1> SUFFICES ASSUME Server!Init PROVE Server!ServerInv
  OBVIOUS
<1> USE ServerBounds DEF Server!Init
<1>1. Server!TypeOK
  <2>1. /\ closing \in Seq(Server!Conns) /\ running \in Seq(Server!Conns)
        /\ \A i \in DOMAIN running : tcp[running[i]] = "closing"
        /\ posted \in Seq(Server!Posts)
    OBVIOUS
  <2>2. worker \in Server!Workers
    BY DEF Server!Idle, Server!Workers
  <2>3. /\ clientMap \in [Addrs -> Server!Conns \cup {Server!None}]
        /\ peer \in [Server!Conns -> Addrs] /\ selfkey \in [Server!Conns -> Addrs]
        /\ reported \in [Addrs -> 0 .. MaxConns + ServerCloses]
    OBVIOUS
  <2>4. /\ ws \in BOOLEAN /\ crossed \in BOOLEAN
        /\ object \in [Server!Conns -> {"unused", "alive", "deleted"}]
        /\ tcp \in [Server!Conns -> {"none", "open", "closing", "closed"}]
        /\ peerGone \in [Server!Conns -> BOOLEAN] /\ wsConnected \in [Server!Conns -> BOOLEAN]
    OBVIOUS
  <2>5. /\ sends \in 0 .. MaxSends /\ closes \in 0 .. ServerCloses
        /\ disorder \subseteq Server!Disorders /\ faults \subseteq Server!Faults
    OBVIOUS
  <2> HIDE DEF Server!Init
  <2> QED  BY <2>1, <2>2, <2>3, <2>4, <2>5 DEF Server!TypeOK
<1>2. Server!HandlesInv
  BY DEF Server!HandlesInv, Server!Once
<1>3. Server!TableInv
  BY DEF Server!TableInv
<1>4. Server!WorkerInv
  BY DEF Server!WorkerInv, Server!Idle
<1>5. Server!ReportInv
  <2>1. ASSUME NEW key \in Addrs PROVE Server!ClosedOf(key) = {}
    BY DEF Server!ClosedOf
  <2>2. \A key \in Addrs : Cardinality(Server!ClosedOf(key)) = 0
    BY <2>1, FS_EmptySet
  <2>3. closes = 0 /\ \A key \in Addrs : reported[key] = 0
    OBVIOUS
  <2> HIDE DEF Server!Init
  <2> QED  BY <2>2, <2>3, SameCardinality DEF Server!ReportInv
<1>6. Server!FaultsExplained /\ Server!AnswersReachSender
  BY DEF Server!FaultsExplained, Server!AnswersReachSender
<1> QED  BY <1>1, <1>2, <1>3, <1>4, <1>5, <1>6 DEF Server!ServerInv

\* The closed connections do not change with the handles and keys.
LEMMA ClosedUnchanged ==
    ASSUME NEW key, UNCHANGED <<tcp, selfkey>>
    PROVE  Server!ClosedOf(key)' = Server!ClosedOf(key)
BY DEF Server!ClosedOf

\* Reports change with none of what they are about.
LEMMA ReportsUnchanged ==
    ASSUME Server!ReportInv, UNCHANGED <<tcp, selfkey, closes, reported>>,
           "closed_again" \notin disorder' => "closed_again" \notin disorder
    PROVE  Server!ReportInv'
<1>1. \A key \in Addrs : Server!ClosedOf(key)' = Server!ClosedOf(key)
  BY ClosedUnchanged
<1> QED  BY <1>1 DEF Server!ReportInv

\* OnClosed takes out of the table what is under its key, and no more.
LEMMA OnClosedRemoves ==
    ASSUME Server!ServerInv, faults = {}, NEW key \in Addrs, NEW again \in BOOLEAN,
           Server!OnClosed(key, again), UNCHANGED <<selfkey, worker, posted>>
    PROVE  /\ clientMap' \in [Addrs -> Server!Conns \cup {Server!None}]
           /\ object' \in [Server!Conns -> {"unused", "alive", "deleted"}]
           /\ disorder' \subseteq Server!Disorders /\ faults' \subseteq Server!Faults
           /\ disorder \subseteq disorder' /\ ("same_key" \in disorder' => "same_key" \in disorder)
           /\ again => "closed_again" \in disorder'
           /\ "closed_again" \in disorder' => again \/ "closed_again" \in disorder
           /\ \A k \in Addrs : clientMap'[k] = IF k = key THEN Server!None ELSE clientMap[k]
           /\ \A c \in Server!Conns :
                 object'[c] = IF c = clientMap[key] THEN "deleted" ELSE object[c]
           /\ \A k \in Addrs : reported'[k] = IF k = key THEN reported[k] + 1 ELSE reported[k]
           /\ DOMAIN reported' = Addrs
           /\ faults' = IF clientMap[key] # Server!None /\ tcp'[clientMap[key]] \in {"open", "closing"}
                        THEN {"handle_deleted"} ELSE {}
           /\ Server!WorkerInv'
<1> USE DEF Server!ServerInv
<1>1. Server!TypeOK /\ clientMap[key] \in Server!Conns \cup {Server!None}
  BY DEF Server!TypeOK
<1>2. /\ disorder \subseteq disorder' /\ disorder' \subseteq Server!Disorders
      /\ ("same_key" \in disorder' => "same_key" \in disorder)
      /\ again => "closed_again" \in disorder'
      /\ "closed_again" \in disorder' => again \/ "closed_again" \in disorder
      /\ "buffer_reused" \in disorder => "buffer_reused" \in disorder'
  BY <1>1 DEF Server!OnClosed, Server!TypeOK, Server!Disorders
<1>3. /\ clientMap' = [clientMap EXCEPT ![key] = Server!None]
      /\ object' = IF clientMap[key] = Server!None THEN object
                   ELSE [object EXCEPT ![clientMap[key]] = "deleted"]
      /\ reported' = [reported EXCEPT ![key] = @ + 1]
      /\ faults' = IF clientMap[key] # Server!None /\ tcp'[clientMap[key]] \in {"open", "closing"}
                   THEN {"handle_deleted"} ELSE {}
  BY DEF Server!OnClosed
<1>4. \A k \in Addrs : clientMap'[k] = IF k = key THEN Server!None ELSE clientMap[k]
  BY <1>1, <1>3 DEF Server!TypeOK
<1>5. \A c \in Server!Conns :
         object'[c] = IF c = clientMap[key] THEN "deleted" ELSE object[c]
  BY <1>1, <1>3, ServerBounds DEF Server!TypeOK
<1>6. "send_overtaken" \notin disorder' =>
         /\ "send_overtaken" \notin disorder
         /\ ~(worker.pc = "found" /\ worker.key = key)
         /\ clientMap[key] # Server!None =>
              worker.conn # clientMap[key] /\ \A p \in Server!ToSet(posted) : p.conn # clientMap[key]
  BY DEF Server!OnClosed
<1>7. Server!WorkerInv'
  <2>1. /\ worker.conn # Server!None <=> worker.pc = "in_conn"
        /\ worker.key \in Addrs /\ worker.conn \in Server!Conns \cup {Server!None}
    BY <1>1 DEF Server!WorkerInv, Server!TypeOK, Server!Workers
  <2>2. ASSUME "send_overtaken" \notin disorder', worker.pc = "found"
        PROVE  clientMap'[worker.key] # Server!None
    BY <1>4, <1>6, <2>1, <2>2 DEF Server!WorkerInv
  <2>3. ASSUME "send_overtaken" \notin disorder', worker.pc = "in_conn"
        PROVE  object'[worker.conn] # "deleted"
    BY <1>5, <1>6, <2>1, <2>3 DEF Server!WorkerInv
  <2>4. ASSUME "send_overtaken" \notin disorder', NEW i \in DOMAIN posted
        PROVE  object'[posted[i].conn] # "deleted"
    <3>1. posted[i].conn \in Server!Conns /\ posted[i] \in Server!ToSet(posted)
      <4>1. posted \in Seq(Server!Posts)
        BY <1>1 DEF Server!TypeOK
      <4>2. posted[i] \in Server!Posts
        BY <2>4, <4>1
      <4> QED  BY <2>4, <4>2 DEF Server!ToSet, Server!Posts
    <3>2. object[posted[i].conn] # "deleted"
      BY <1>6, <2>4 DEF Server!WorkerInv
    <3>3. posted[i].conn # clientMap[key]
      BY <1>6, <2>4, <3>1, ServerBounds
    <3> QED  BY <1>5, <3>1, <3>2, <3>3
  <2>5. \A i \in DOMAIN posted :
           posted[i].valid \/ posted[i].copied \/ "buffer_reused" \in disorder'
    BY <1>2 DEF Server!WorkerInv
  <2> QED  BY <2>1, <2>2, <2>3, <2>4, <2>5 DEF Server!WorkerInv
<1>8. /\ clientMap' \in [Addrs -> Server!Conns \cup {Server!None}]
      /\ object' \in [Server!Conns -> {"unused", "alive", "deleted"}]
      /\ faults' \subseteq Server!Faults
  BY <1>1, <1>3 DEF Server!TypeOK, Server!Faults
<1>9. DOMAIN reported' = Addrs
      /\ \A k \in Addrs : reported'[k] = IF k = key THEN reported[k] + 1 ELSE reported[k]
  BY <1>1, <1>3 DEF Server!TypeOK
<1> QED  BY <1>2, <1>3, <1>4, <1>5, <1>7, <1>8, <1>9

\* OnClosed keeps the table right, when of the handles with its key some have
\* just been closed, and the others are as they were.
LEMMA OnClosedKeepsTable ==
    ASSUME Server!ServerInv, faults = {}, NEW key \in Addrs, NEW again \in BOOLEAN,
           Server!OnClosed(key, again), UNCHANGED <<selfkey, worker, posted>>,
           \A c \in Server!Conns : \/ tcp'[c] = tcp[c]
                                   \/ tcp[c] = "closing" /\ tcp'[c] = "closed" /\ selfkey[c] = key
    PROVE  Server!TableInv'
<1> USE DEF Server!ServerInv
<1>1. /\ disorder \subseteq disorder' /\ ("same_key" \in disorder' => "same_key" \in disorder)
      /\ \A k \in Addrs : clientMap'[k] = IF k = key THEN Server!None ELSE clientMap[k]
      /\ \A c \in Server!Conns :
            object'[c] = IF c = clientMap[key] THEN "deleted" ELSE object[c]
      /\ faults' = IF clientMap[key] # Server!None /\ tcp'[clientMap[key]] \in {"open", "closing"}
                   THEN {"handle_deleted"} ELSE {}
  BY OnClosedRemoves
<1>2. /\ \A k \in Addrs : clientMap[k] \in Server!Conns \cup {Server!None}
      /\ \A c \in Server!Conns : /\ selfkey[c] \in Addrs
                                 /\ object[c] \in {"unused", "alive", "deleted"}
                                 /\ tcp[c] \in {"none", "open", "closing", "closed"}
  BY DEF Server!TypeOK
<1>3. ASSUME NEW k \in Addrs, clientMap'[k] # Server!None
      PROVE  object'[clientMap'[k]] = "alive" /\ selfkey'[clientMap'[k]] = k
  <2>1. /\ k # key /\ clientMap'[k] = clientMap[k] /\ clientMap[k] \in Server!Conns
        /\ object[clientMap[k]] = "alive" /\ selfkey[clientMap[k]] = k
    BY <1>1, <1>2, <1>3 DEF Server!TableInv
  <2>2. clientMap[k] # clientMap[key]
    BY <2>1, ServerBounds DEF Server!TableInv
  <2> QED  BY <1>1, <2>1, <2>2
<1>4. ASSUME NEW c \in Server!Conns
      PROVE  object'[c] = "unused" <=> tcp'[c] = "none"
  BY <1>1, <1>2, ServerBounds DEF Server!TableInv
<1>5. ASSUME NEW c \in Server!Conns, object'[c] = "deleted", faults' = {}
      PROVE  tcp'[c] = "closed"
  <2>1. CASE c = clientMap[key]
    <3>1. object[c] = "alive" /\ tcp[c] # "none"
      BY <1>2, <2>1, ServerBounds DEF Server!TableInv
    <3>2. tcp'[c] \notin {"open", "closing"}
      BY <1>1, <1>5, <2>1, ServerBounds
    <3> QED  BY <1>2, <3>1, <3>2
  <2>2. CASE c # clientMap[key]
    BY <1>1, <1>5, <2>2 DEF Server!TableInv
  <2> QED  BY <2>1, <2>2
<1>6. ASSUME NEW c \in Server!Conns, "same_key" \notin disorder', object'[c] = "alive"
      PROVE  clientMap'[selfkey'[c]] = c
  <2>1. c # clientMap[key] /\ object[c] = "alive" /\ clientMap[selfkey[c]] = c
    BY <1>1, <1>6 DEF Server!TableInv
  <2> QED  BY <1>1, <1>2, <2>1
<1>7. ASSUME NEW c \in Server!Conns, "same_key" \notin disorder', tcp'[c] = "closed"
      PROVE  object'[c] = "deleted"
  <2>1. CASE tcp[c] = "closed"
    BY <1>1, <1>7, <2>1 DEF Server!TableInv
  <2>2. CASE tcp[c] # "closed"
    <3>1. selfkey[c] = key /\ object[c] # "unused"
      BY <1>2, <1>7, <2>2 DEF Server!TableInv
    <3> QED  BY <1>1, <1>2, <1>7, <3>1 DEF Server!TableInv
  <2> QED  BY <2>1, <2>2
<1> QED  BY <1>3, <1>4, <1>5, <1>6, <1>7 DEF Server!TableInv

\* TcpSocketConn::close keeps it all, if the close of a handle that is not open
\* is one of the user's.
LEMMA CloseConnKeeps ==
    ASSUME Server!ServerInv, faults = {}, NEW c \in Server!Conns, Server!CloseConn(c),
           UNCHANGED <<ws, peer, selfkey, peerGone, running, posted, worker, sends, crossed>>,
           \/ tcp[c] = "open" /\ closes' = closes
           \/ closes' = closes + 1 /\ closes < ServerCloses
    PROVE  Server!ServerInv'
<1> USE DEF Server!ServerInv
<1>1. /\ closing \in Seq(Server!Conns) /\ closes \in Nat /\ closes' \in 0..ServerCloses
      /\ closes' >= closes /\ selfkey[c] \in Addrs
      /\ wsConnected' \in [Server!Conns -> BOOLEAN]
  BY ServerBounds DEF Server!TypeOK, Server!CloseConn
<1>2. CASE tcp[c] = "open"
  <2>1. /\ tcp' = [tcp EXCEPT ![c] = "closing"] /\ closing' = <<c>> \o closing
        /\ UNCHANGED <<clientMap, object, faults, reported, disorder>>
    BY <1>2 DEF Server!CloseConn
  <2>2. /\ \A d \in Server!Conns : tcp'[d] = IF d = c THEN "closing" ELSE tcp[d]
        /\ tcp' \in [Server!Conns -> {"none", "open", "closing", "closed"}]
    BY <2>1 DEF Server!TypeOK
  <2>3. /\ closing' \in Seq(Server!Conns) /\ DOMAIN closing' = 1..(Len(closing) + 1)
        /\ closing'[1] = c
        /\ \A i \in 1..(Len(closing) + 1) :
              i = 1 \/ (i - 1 \in 1..Len(closing) /\ closing'[i] = closing[i - 1])
    BY <1>1, <2>1, Prepended
  <2>4. /\ running \in Seq(Server!Conns)
        /\ \A i \in DOMAIN running : running[i] \in Server!Conns
        /\ \A i \in DOMAIN closing : closing[i] \in Server!Conns
        /\ DOMAIN closing = 1..Len(closing) /\ Len(closing) \in Nat
    BY <1>1 DEF Server!TypeOK
  <2>5. /\ \A i \in DOMAIN closing' : i = 1 \/ (i - 1 \in DOMAIN closing /\ closing'[i] = closing[i - 1])
        /\ \A i \in DOMAIN closing' : i \in Nat
        /\ \A i \in DOMAIN closing : closing[i] # c
        /\ \A i \in DOMAIN running : running[i] # c
    BY <1>2, <2>3, <2>4 DEF Server!HandlesInv
  <2>6. Server!HandlesInv'
    <3>1. Server!Once(closing')
      BY <2>3, <2>5 DEF Server!Once, Server!HandlesInv
    <3>2. \A i \in DOMAIN closing' : tcp'[closing'[i]] = "closing"
      BY <1>2, <2>2, <2>3, <2>4, <2>5 DEF Server!HandlesInv
    <3>3. \A i \in DOMAIN running' : tcp'[running'[i]] = "closing"
      BY <2>2, <2>4 DEF Server!HandlesInv
    <3>4. \A i \in DOMAIN closing', j \in DOMAIN running' : closing'[i] # running'[j]
      BY <2>3, <2>5 DEF Server!HandlesInv
    <3>5. Server!Once(running)'
      BY DEF Server!HandlesInv, Server!Once
    <3> QED  BY <3>1, <3>2, <3>3, <3>4, <3>5 DEF Server!HandlesInv, Server!Once
  <2>7. Server!TypeOK'
    BY <1>1, <2>1, <2>2, <2>3, <2>6 DEF Server!TypeOK, Server!HandlesInv
  <2>8. Server!TableInv'
    BY <1>2, <2>1, <2>2, ServerBounds DEF Server!TableInv, Server!TypeOK
  <2>9. Server!WorkerInv'
    BY <2>1 DEF Server!WorkerInv
  <2>10. Server!ReportInv'
    <3>1. \A key \in Addrs : Server!ClosedOf(key)' = Server!ClosedOf(key)
      BY <1>2, <2>2 DEF Server!ClosedOf
    <3>2. \A key \in Addrs : reported[key] \in Nat /\ Cardinality(Server!ClosedOf(key)) \in Nat
      BY ClosedAreFinite, ServerBounds DEF Server!TypeOK
    <3> QED  BY <1>1, <2>1, <3>1, <3>2, SameCardinality DEF Server!ReportInv
  <2>11. Server!FaultsExplained' /\ Server!AnswersReachSender'
    BY <2>1 DEF Server!FaultsExplained, Server!AnswersReachSender, Server!Causes
  <2> QED  BY <2>6, <2>7, <2>8, <2>9, <2>10, <2>11
<1>3. CASE tcp[c] # "open"
  <2> DEFINE key == selfkey[c]
  <2>1. UNCHANGED <<tcp, closing>> /\ Server!OnClosed(key, TRUE) /\ closes' = closes + 1
    BY <1>3 DEF Server!CloseConn
  <2>2. /\ clientMap' \in [Addrs -> Server!Conns \cup {Server!None}]
        /\ object' \in [Server!Conns -> {"unused", "alive", "deleted"}]
        /\ disorder' \subseteq Server!Disorders /\ faults' \subseteq Server!Faults
        /\ disorder \subseteq disorder' /\ "closed_again" \in disorder'
        /\ \A k \in Addrs : reported'[k] = IF k = key THEN reported[k] + 1 ELSE reported[k]
        /\ DOMAIN reported' = Addrs
        /\ Server!WorkerInv' /\ faults' \subseteq {"handle_deleted"}
    BY <1>1, <2>1, OnClosedRemoves
  <2>3. Server!TableInv'
    BY <1>1, <2>1, OnClosedKeepsTable
  <2>4. Server!HandlesInv'
    BY <2>1 DEF Server!HandlesInv, Server!Once
  <2>5. Server!ReportInv' /\ \A k \in Addrs : reported'[k] \in 0 .. MaxConns + ServerCloses
    <3>1. \A k \in Addrs : Server!ClosedOf(k)' = Server!ClosedOf(k)
      BY <2>1, ClosedUnchanged
    <3>2. \A k \in Addrs : reported[k] \in Nat /\ Cardinality(Server!ClosedOf(k)) \in 0..MaxConns
      BY ClosedAreFinite, ServerBounds DEF Server!TypeOK
    <3>3. \A k \in Addrs :
             /\ reported'[k] >= Cardinality(Server!ClosedOf(k))
             /\ reported'[k] <= Cardinality(Server!ClosedOf(k)) + closes'
      BY <1>1, <2>1, <2>2, <3>2, SameCardinality DEF Server!ReportInv
    <3>4. \A k \in Addrs : reported'[k] \in 0 .. MaxConns + ServerCloses
      BY <1>1, <2>2, <3>2, <3>3, ServerBounds
    <3> QED  BY <2>2, <3>1, <3>3, <3>4, SameCardinality DEF Server!ReportInv
  <2>6. Server!TypeOK'
    <3>1. reported' \in [Addrs -> 0 .. MaxConns + ServerCloses]
      <4>1. reported' = [k \in Addrs |-> reported'[k]]
        BY <2>1, <2>2 DEF Server!OnClosed, Server!TypeOK
      <4> QED  BY <2>5, <4>1
    <3> QED  BY <1>1, <2>1, <2>2, <2>4, <3>1 DEF Server!TypeOK, Server!HandlesInv
  <2>7. Server!FaultsExplained' /\ Server!AnswersReachSender'
    BY <2>2 DEF Server!FaultsExplained, Server!AnswersReachSender, Server!Causes
  <2> QED  BY <2>2, <2>3, <2>4, <2>5, <2>6, <2>7
<1> QED  BY <1>2, <1>3

\* createNewClient: the connection is new, and takes its key if that is free.
LEMMA CreateNewClientKeeps ==
    ASSUME Server!ServerInv, NEW c \in Server!Conns, NEW a \in Addrs, NEW key \in Addrs,
           Server!CreateNewClient(c, a, key)
    PROVE  Server!ServerInv'
<1> USE ServerBounds DEF Server!ServerInv
<1>1. /\ faults = {} /\ faults' = {} /\ running = <<>> /\ running' = <<>> /\ object[c] = "unused"
      /\ UNCHANGED <<ws, wsConnected, closing, posted, worker, sends, closes, reported, crossed>>
      /\ disorder' = IF clientMap[key] = Server!None THEN disorder ELSE disorder \cup {"same_key"}
      /\ clientMap' = IF clientMap[key] = Server!None THEN [clientMap EXCEPT ![key] = c] ELSE clientMap
      /\ peer' = [peer EXCEPT ![c] = a] /\ selfkey' = [selfkey EXCEPT ![c] = key]
      /\ object' = [object EXCEPT ![c] = "alive"] /\ tcp' = [tcp EXCEPT ![c] = "open"]
      /\ \E gone \in BOOLEAN : peerGone' = [peerGone EXCEPT ![c] = gone]
  BY DEF Server!CreateNewClient, Server!Polling, Server!Running, Server!loop, Server!other
<1>2. /\ \A d \in Server!Conns : /\ tcp'[d] = IF d = c THEN "open" ELSE tcp[d]
                                 /\ object'[d] = IF d = c THEN "alive" ELSE object[d]
                                 /\ selfkey'[d] = IF d = c THEN key ELSE selfkey[d]
                                 /\ selfkey[d] \in Addrs
                                 /\ object[d] \in {"unused", "alive", "deleted"}
      /\ tcp[c] = "none"
  BY <1>1 DEF Server!TypeOK, Server!TableInv
<1>3. /\ clientMap' \in [Addrs -> Server!Conns \cup {Server!None}]
      /\ \A k \in Addrs : /\ clientMap[k] \in Server!Conns \cup {Server!None}
                          /\ clientMap[k] # c
                          /\ clientMap'[k] = IF k = key /\ clientMap[key] = Server!None
                                             THEN c ELSE clientMap[k]
  BY <1>1 DEF Server!TypeOK, Server!TableInv
<1>4. disorder \subseteq disorder' /\ disorder' \subseteq disorder \cup {"same_key"}
  BY <1>1
<1>5. Server!HandlesInv'
  <2>1. \A i \in DOMAIN closing : closing[i] \in Server!Conns /\ tcp'[closing[i]] = "closing"
    BY <1>2, SMTT(40) DEF Server!HandlesInv, Server!TypeOK
  <2> QED  BY <1>1, <2>1 DEF Server!HandlesInv, Server!Once
<1>6. Server!TypeOK'
  <2>1. peerGone' \in [Server!Conns -> BOOLEAN]
    BY <1>1 DEF Server!TypeOK
  <2>2. /\ peer' \in [Server!Conns -> Addrs] /\ selfkey' \in [Server!Conns -> Addrs]
        /\ object' \in [Server!Conns -> {"unused", "alive", "deleted"}]
        /\ tcp' \in [Server!Conns -> {"none", "open", "closing", "closed"}]
    BY <1>1 DEF Server!TypeOK
  <2>3. disorder' \subseteq Server!Disorders
    BY <1>4 DEF Server!TypeOK, Server!Disorders
  <2> QED  BY <1>1, <1>3, <1>5, <2>1, <2>2, <2>3 DEF Server!TypeOK, Server!HandlesInv
<1>7. Server!TableInv'
  <2>1. \A k \in Addrs : clientMap'[k] # Server!None =>
           object'[clientMap'[k]] = "alive" /\ selfkey'[clientMap'[k]] = k
    BY <1>2, <1>3 DEF Server!TableInv
  <2>2. \A d \in Server!Conns :
           /\ object'[d] = "unused" <=> tcp'[d] = "none"
           /\ object'[d] = "deleted" /\ faults' = {} => tcp'[d] = "closed"
    BY <1>1, <1>2 DEF Server!TableInv
  <2>3. ASSUME NEW d \in Server!Conns, "same_key" \notin disorder'
        PROVE  /\ object'[d] = "alive" => clientMap'[selfkey'[d]] = d
               /\ tcp'[d] = "closed" => object'[d] = "deleted"
    <3>1. "same_key" \notin disorder /\ clientMap[key] = Server!None
      BY <1>1, <2>3
    <3> QED  BY <1>2, <1>3, <3>1 DEF Server!TableInv
  <2> QED  BY <2>1, <2>2, <2>3 DEF Server!TableInv
<1>8. Server!WorkerInv'
  <2>1. /\ worker.key \in Addrs /\ worker.conn \in Server!Conns \cup {Server!None}
        /\ posted \in Seq(Server!Posts)
    BY DEF Server!TypeOK, Server!Workers
  <2>6. \A i \in DOMAIN posted : posted[i].conn \in Server!Conns
    <3>1. \A i \in DOMAIN posted : posted[i] \in Server!Posts
      BY <2>1
    <3> QED  BY <3>1 DEF Server!Posts
  <2>2. "send_overtaken" \notin disorder' => "send_overtaken" \notin disorder
    BY <1>4
  <2>3. ASSUME "send_overtaken" \notin disorder', worker.pc = "found"
        PROVE  clientMap'[worker.key] # Server!None
    BY <1>3, <2>1, <2>2, <2>3 DEF Server!WorkerInv
  <2>4. ASSUME "send_overtaken" \notin disorder', worker.pc = "in_conn"
        PROVE  object'[worker.conn] # "deleted"
    BY <1>2, <2>1, <2>2, <2>4 DEF Server!WorkerInv
  <2>5. ASSUME "send_overtaken" \notin disorder', NEW i \in DOMAIN posted
        PROVE  object'[posted[i].conn] # "deleted"
    BY <1>2, <2>2, <2>5, <2>6 DEF Server!WorkerInv
  <2> QED  BY <1>1, <1>4, <2>3, <2>4, <2>5 DEF Server!WorkerInv
<1>9. Server!ReportInv'
  <2>1. \A k \in Addrs : Server!ClosedOf(k)' = Server!ClosedOf(k)
    BY <1>2 DEF Server!ClosedOf
  <2> QED  BY <1>1, <1>4, <2>1 DEF Server!ReportInv
<1>10. Server!FaultsExplained' /\ Server!AnswersReachSender'
  BY <1>1, <1>4 DEF Server!FaultsExplained, Server!AnswersReachSender
<1> QED  BY <1>5, <1>6, <1>7, <1>8, <1>9, <1>10

\* onConnClosed: the handle is closed and reported, its object goes with it.
LEMMA OnConnClosedKeeps ==
    ASSUME Server!ServerInv, Server!OnConnClosed
    PROVE  Server!ServerInv'
<1> USE ServerBounds DEF Server!ServerInv
<1>a. running # <<>> /\ running \in Seq(Server!Conns)
  BY DEF Server!OnConnClosed, Server!TypeOK
<1>b. PICK h \in Server!Conns : h = Head(running)
  BY <1>a
<1>c. PICK key \in Addrs : key = selfkey[h]
  BY DEF Server!TypeOK
<1>1. /\ faults = {} /\ running' = Tail(running)
      /\ tcp' = [tcp EXCEPT ![h] = "closed"] /\ Server!OnClosed(key, FALSE)
      /\ UNCHANGED <<ws, peer, selfkey, peerGone, wsConnected, closing, posted, worker, sends,
                     closes, crossed>>
  BY <1>b, <1>c DEF Server!OnConnClosed, Server!Running, Server!conn, Server!other
<1>2. /\ running \in Seq(Server!Conns) /\ closing \in Seq(Server!Conns)
      /\ \A i \in DOMAIN running : running[i] \in Server!Conns
      /\ \A i \in DOMAIN closing : closing[i] \in Server!Conns
  BY DEF Server!TypeOK
<1>3. /\ h = running[1] /\ 1 \in DOMAIN running
      /\ running' \in Seq(Server!Conns)
      /\ \A i \in DOMAIN running' : i + 1 \in DOMAIN running /\ i + 1 # 1 /\ running'[i] = running[i + 1]
  BY <1>a, <1>b, <1>1, Beheaded
<1>4. tcp[h] = "closing"
  BY <1>3 DEF Server!TypeOK
<1>5. /\ tcp' \in [Server!Conns -> {"none", "open", "closing", "closed"}]
      /\ \A d \in Server!Conns : tcp'[d] = IF d = h THEN "closed" ELSE tcp[d]
  BY <1>1, <1>3 DEF Server!TypeOK
<1>6. /\ clientMap' \in [Addrs -> Server!Conns \cup {Server!None}]
      /\ object' \in [Server!Conns -> {"unused", "alive", "deleted"}]
      /\ disorder' \subseteq Server!Disorders /\ faults' \subseteq Server!Faults
      /\ disorder \subseteq disorder' /\ ("same_key" \in disorder' => "same_key" \in disorder)
      /\ "closed_again" \in disorder' => "closed_again" \in disorder
      /\ \A k \in Addrs : reported'[k] = IF k = key THEN reported[k] + 1 ELSE reported[k]
      /\ DOMAIN reported' = Addrs
      /\ faults' = IF clientMap[key] # Server!None /\ tcp'[clientMap[key]] \in {"open", "closing"}
                   THEN {"handle_deleted"} ELSE {}
      /\ Server!WorkerInv'
  BY <1>1, OnClosedRemoves
<1>7. Server!TableInv'
  BY <1>1, <1>4, <1>5, <1>c, OnClosedKeepsTable
<1>8. Server!HandlesInv'
  <2>1. \A i \in DOMAIN running' : running'[i] # h
    BY <1>3 DEF Server!HandlesInv, Server!Once
  <2>2. Server!Once(running')
    <3>1. ASSUME NEW i \in DOMAIN running', NEW j \in DOMAIN running', running'[i] = running'[j]
          PROVE  i = j
      <4>1. i + 1 \in DOMAIN running /\ j + 1 \in DOMAIN running /\ i \in Nat /\ j \in Nat
        BY <1>3
      <4>2. i + 1 = j + 1
        BY <1>3, <3>1, <4>1 DEF Server!HandlesInv, Server!Once
      <4> QED  BY <4>1, <4>2
    <3> QED  BY <3>1 DEF Server!Once
  <2>3. \A i \in DOMAIN closing : closing[i] # h
    BY <1>3 DEF Server!HandlesInv
  <2>4. \A i \in DOMAIN closing : tcp'[closing[i]] = "closing"
    BY <1>2, <1>5, <2>3 DEF Server!HandlesInv
  <2>6. \A i \in DOMAIN running' : tcp'[running'[i]] = "closing"
    <3>1. \A i \in DOMAIN running' :
             running'[i] \in Server!Conns /\ tcp[running'[i]] = "closing"
      BY <1>2, <1>3 DEF Server!HandlesInv
    <3> QED  BY <1>5, <2>1, <3>1
  <2>5. \A i \in DOMAIN closing, j \in DOMAIN running' : closing[i] # running'[j]
    BY <1>3 DEF Server!HandlesInv
  <2> QED  BY <1>1, <2>2, <2>4, <2>5, <2>6 DEF Server!HandlesInv, Server!Once
<1>9. Server!ReportInv' /\ \A k \in Addrs : reported'[k] \in 0 .. MaxConns + ServerCloses
  <2>1. Server!ClosedOf(key)' = Server!ClosedOf(key) \cup {h} /\ h \notin Server!ClosedOf(key)
    BY <1>1, <1>4, <1>5, <1>c DEF Server!ClosedOf
  <2>2. \A k \in Addrs : k # key => Server!ClosedOf(k)' = Server!ClosedOf(k)
    BY <1>1, <1>5, <1>c DEF Server!ClosedOf
  <2>3. /\ Cardinality(Server!ClosedOf(key)') = Cardinality(Server!ClosedOf(key)) + 1
        /\ Cardinality(Server!ClosedOf(key)') \in 0..MaxConns
    <3>1. IsFiniteSet(Server!ClosedOf(key))
      BY ClosedAreFinite
    <3>2. Cardinality(Server!ClosedOf(key)') = Cardinality(Server!ClosedOf(key)) + 1
      BY <2>1, <3>1, FS_AddElement
    <3>3. Cardinality(Server!ClosedOf(key)') <= MaxConns
      <4>1. Server!ClosedOf(key)' \in SUBSET (1..MaxConns)
        BY DEF Server!ClosedOf, Server!Conns
      <4>2. IsFiniteSet(1..MaxConns) /\ Cardinality(1..MaxConns) = MaxConns
        BY FS_Interval
      <4> QED  BY <4>1, <4>2, FS_Subset
    <3>4. Cardinality(Server!ClosedOf(key)) \in Nat
      BY ClosedAreFinite
    <3> QED  BY <3>2, <3>3, <3>4
  <2>4. /\ closes \in 0..ServerCloses /\ closes' = closes
        /\ \A k \in Addrs : reported[k] \in Nat /\ Cardinality(Server!ClosedOf(k)) \in 0..MaxConns
    BY <1>1, ClosedAreFinite DEF Server!TypeOK
  <2>5. ASSUME NEW k \in Addrs
        PROVE  /\ Cardinality(Server!ClosedOf(k)') \in 0..MaxConns
               /\ reported'[k] >= Cardinality(Server!ClosedOf(k)')
               /\ reported'[k] <= Cardinality(Server!ClosedOf(k)') + closes
               /\ "closed_again" \notin disorder' =>
                     reported'[k] = Cardinality(Server!ClosedOf(k)')
    <3>1. /\ reported[k] >= Cardinality(Server!ClosedOf(k))
          /\ reported[k] <= Cardinality(Server!ClosedOf(k)) + closes
          /\ "closed_again" \notin disorder' => reported[k] = Cardinality(Server!ClosedOf(k))
      BY <1>6, SameCardinality DEF Server!ReportInv
    <3>2. CASE k = key
      BY <1>6, <2>3, <2>4, <3>1, <3>2
    <3>3. CASE k # key
      BY <1>6, <2>2, <2>4, <3>1, <3>3
    <3> QED  BY <3>2, <3>3
  <2>6. \A k \in Addrs : reported'[k] \in 0 .. MaxConns + ServerCloses
    BY <1>6, <2>4, <2>5
  <2> QED  BY <2>4, <2>5, <2>6, SameCardinality DEF Server!ReportInv
<1>10. Server!TypeOK'
  <2>1. reported' \in [Addrs -> 0 .. MaxConns + ServerCloses]
    <3>1. reported' = [k \in Addrs |-> reported'[k]]
      BY <1>1, <1>6 DEF Server!OnClosed, Server!TypeOK
    <3> QED  BY <1>9, <3>1
  <2> QED  BY <1>1, <1>3, <1>5, <1>6, <1>8, <2>1 DEF Server!TypeOK, Server!HandlesInv
<1>11. Server!FaultsExplained'
  <2>1. ASSUME faults' # {} PROVE "same_key" \in disorder
    <3>1. clientMap[key] # h
      BY <1>3, <1>5, <1>6, <2>1
    <3>2. object[h] = "alive"
      BY <1>1, <1>3, <1>4 DEF Server!TypeOK, Server!TableInv
    <3> QED  BY <1>c, <3>1, <3>2 DEF Server!TableInv
  <2> QED  BY <1>6, <2>1 DEF Server!FaultsExplained, Server!Causes
<1>12. Server!AnswersReachSender'
  BY <1>1, <1>6 DEF Server!AnswersReachSender
<1> QED  BY <1>6, <1>7, <1>8, <1>9, <1>10, <1>11, <1>12

\* What the peers, the handshakes and the data of a connection change.
LEMMA ConnEventsKeep ==
    ASSUME Server!ServerInv, NEW c \in Server!Conns,
           Server!Reset(c) \/ Server!OnMessageHandshake(c) \/ Server!OnMessageData(c)
    PROVE  Server!ServerInv'
<1> USE DEF Server!ServerInv
<1>1. /\ UNCHANGED <<ws, clientMap, peer, selfkey, object, tcp, closing, running, posted,
                     worker, sends, closes, reported, disorder, faults>>
      /\ faults = {} /\ tcp[c] = "open"
      /\ \/ Server!OnMessageData(c) /\ UNCHANGED <<peerGone, wsConnected>>
         \/ UNCHANGED <<crossed, wsConnected>> /\ peerGone' = [peerGone EXCEPT ![c] = TRUE]
         \/ UNCHANGED <<crossed, peerGone>> /\ wsConnected' = [wsConnected EXCEPT ![c] = TRUE]
  BY DEF Server!Reset, Server!OnMessageHandshake, Server!OnMessageData, Server!Polling,
     Server!Running, Server!loop, Server!other, Server!conn
<1>2. Server!AnswersReachSender' /\ crossed' \in BOOLEAN
  <2>1. CASE Server!OnMessageData(c)
    <3>1. object[c] = "alive"
      <4>1. object[c] \in {"unused", "alive", "deleted"}
        BY DEF Server!TypeOK
      <4> QED  BY <1>1, <4>1 DEF Server!TableInv
    <3>2. clientMap[selfkey[c]] # c => "same_key" \in disorder
      BY <3>1 DEF Server!TableInv
    <3>3. crossed' = (crossed \/ clientMap[selfkey[c]] # c)
      BY <2>1 DEF Server!OnMessageData
    <3> QED  BY <1>1, <3>2, <3>3 DEF Server!AnswersReachSender, Server!TypeOK
  <2>2. CASE UNCHANGED crossed
    BY <1>1, <2>2 DEF Server!AnswersReachSender, Server!TypeOK
  <2> QED  BY <1>1, <2>1, <2>2
<1>3. Server!TypeOK'
  <2>1. peerGone' \in [Server!Conns -> BOOLEAN] /\ wsConnected' \in [Server!Conns -> BOOLEAN]
    BY <1>1 DEF Server!TypeOK
  <2> QED  BY <1>1, <1>2, <2>1 DEF Server!TypeOK
<1>4. Server!HandlesInv' /\ Server!TableInv' /\ Server!WorkerInv'
  BY <1>1 DEF Server!HandlesInv, Server!Once, Server!TableInv, Server!WorkerInv
<1>5. Server!ReportInv'
  BY <1>1, ReportsUnchanged
<1>6. Server!FaultsExplained'
  BY <1>1 DEF Server!FaultsExplained, Server!Causes
<1> QED  BY <1>2, <1>3, <1>4, <1>5, <1>6

\* The three ways to TcpSocketConn::close.
LEMMA ClosesKeep ==
    ASSUME Server!ServerInv,
           \/ \E c \in Server!Conns : Server!OnMessageError(c) \/ Server!OnMessageClose(c)
           \/ \E key \in Addrs : Server!CloseKey(key)
    PROVE  Server!ServerInv'
<1>1. ASSUME NEW c \in Server!Conns, Server!OnMessageError(c) \/ Server!OnMessageClose(c)
      PROVE  Server!ServerInv'
  <2>1. /\ faults = {} /\ Server!CloseConn(c) /\ tcp[c] = "open" /\ closes' = closes
        /\ UNCHANGED <<ws, peer, selfkey, peerGone, running, posted, worker, sends, crossed>>
    BY <1>1 DEF Server!OnMessageError, Server!OnMessageClose, Server!Polling, Server!Running,
       Server!other
  <2> QED  BY <2>1, CloseConnKeeps
<1>2. ASSUME NEW key \in Addrs, Server!CloseKey(key)
      PROVE  Server!ServerInv'
  <2>1. /\ faults = {} /\ Server!CloseConn(clientMap[key])
        /\ closes' = closes + 1 /\ closes < ServerCloses
        /\ clientMap[key] # Server!None
        /\ UNCHANGED <<ws, peer, selfkey, peerGone, running, posted, worker, sends, crossed>>
    BY <1>2 DEF Server!CloseKey, Server!Running, Server!other
  <2>2. clientMap[key] \in Server!Conns
    BY <2>1 DEF Server!ServerInv, Server!TypeOK
  <2> QED  BY <2>1, <2>2, CloseConnKeeps
<1> QED  BY <1>1, <1>2

\* The list of the closed handles is detached.
LEMMA EndPollKeeps ==
    ASSUME Server!ServerInv, Server!EndPoll
    PROVE  Server!ServerInv'
<1> USE DEF Server!ServerInv
<1>1. /\ running = <<>> /\ running' = closing /\ closing' = <<>>
      /\ UNCHANGED <<ws, clientMap, peer, selfkey, object, tcp, peerGone, wsConnected, posted,
                     worker, sends, closes, reported, crossed, disorder, faults>>
  BY DEF Server!EndPoll, Server!Polling, Server!conn, Server!other
<1>2. DOMAIN closing' = {} /\ closing' \in Seq(Server!Conns)
  BY <1>1
<1>3. Server!HandlesInv'
  BY <1>1, <1>2 DEF Server!HandlesInv, Server!Once
<1>4. Server!TypeOK'
  BY <1>1, <1>2, <1>3 DEF Server!TypeOK, Server!HandlesInv
<1>5. Server!TableInv' /\ Server!WorkerInv'
  BY <1>1 DEF Server!TableInv, Server!WorkerInv
<1>6. Server!ReportInv'
  BY <1>1, ReportsUnchanged
<1>7. Server!FaultsExplained' /\ Server!AnswersReachSender'
  BY <1>1 DEF Server!FaultsExplained, Server!AnswersReachSender, Server!Causes
<1> QED  BY <1>3, <1>4, <1>5, <1>6, <1>7

\* A step of the other thread, or of a post, touches neither handles nor table.
LEMMA SendStepKeeps ==
    ASSUME Server!ServerInv,
           UNCHANGED <<ws, clientMap, peer, selfkey, object, tcp, peerGone, wsConnected, closing,
                       running, closes, reported, crossed>>,
           posted' \in Seq(Server!Posts), worker' \in Server!Workers, sends' \in 0..MaxSends,
           disorder' \subseteq disorder \cup {"buffer_reused"}, disorder \subseteq disorder',
           faults' \subseteq Server!Faults, faults \subseteq faults',
           Server!WorkerInv', Server!FaultsExplained'
    PROVE  Server!ServerInv'
<1> USE DEF Server!ServerInv
<1>1. Server!TypeOK'
  <2>1. disorder' \subseteq Server!Disorders
    BY DEF Server!TypeOK, Server!Disorders
  <2> QED  BY <2>1 DEF Server!TypeOK
<1>2. Server!HandlesInv'
  BY DEF Server!HandlesInv, Server!Once
<1>3. Server!TableInv'
  <2>1. ("same_key" \notin disorder' => "same_key" \notin disorder) /\ (faults' = {} => faults = {})
    OBVIOUS
  <2> QED  BY <2>1 DEF Server!TableInv
<1>4. Server!ReportInv'
  BY ReportsUnchanged
<1>5. Server!AnswersReachSender'
  BY DEF Server!AnswersReachSender
<1> QED  BY <1>1, <1>2, <1>3, <1>4, <1>5

\* sendData(key, ...) on the other thread, up to the post.
LEMMA WorkerKeeps ==
    ASSUME Server!ServerInv,
           \/ \E key \in Addrs : Server!WorkerFind(key)
           \/ Server!WorkerCall \/ Server!WorkerPost
    PROVE  Server!ServerInv'
<1> USE ServerBounds DEF Server!ServerInv
<1>1. /\ worker.key \in Addrs /\ worker.conn \in Server!Conns \cup {Server!None}
      /\ worker \in Server!Workers /\ posted \in Seq(Server!Posts)
      /\ \A key \in Addrs : clientMap[key] \in Server!Conns \cup {Server!None}
  BY DEF Server!TypeOK, Server!Workers
<1>2. /\ Server!Idle \in Server!Workers
      /\ Server!Idle.pc = "idle" /\ Server!Idle.conn = Server!None
  BY DEF Server!Idle, Server!Workers
<1>3. ASSUME NEW key \in Addrs, Server!WorkerFind(key)
      PROVE  Server!ServerInv'
  <2>1. /\ worker' = [pc |-> "found", key |-> key, conn |-> Server!None]
        /\ clientMap[key] # Server!None /\ sends < MaxSends /\ sends' = sends + 1
        /\ UNCHANGED <<ws, clientMap, peer, selfkey, object, tcp, peerGone, wsConnected, closing,
                       running, posted, closes, reported, crossed, disorder, faults>>
    BY <1>3 DEF Server!WorkerFind, Server!loop, Server!conn
  <2>2. worker' \in Server!Workers /\ sends' \in 0..MaxSends
    BY <2>1 DEF Server!Workers, Server!TypeOK
  <2>3. Server!WorkerInv'
    BY <2>1 DEF Server!WorkerInv
  <2>4. Server!FaultsExplained' /\ faults' \subseteq Server!Faults
    BY <2>1 DEF Server!FaultsExplained, Server!Causes, Server!TypeOK
  <2> QED  BY <1>1, <2>1, <2>2, <2>3, <2>4, SendStepKeeps
<1>4. ASSUME Server!WorkerCall
      PROVE  Server!ServerInv'
  <2>1. /\ worker.pc = "found" /\ faults = {}
        /\ UNCHANGED <<ws, clientMap, peer, selfkey, object, tcp, peerGone, wsConnected, closing,
                       running, posted, sends, closes, reported, crossed, disorder>>
        /\ \/ /\ clientMap[worker.key] = Server!None
              /\ faults' = faults \cup {"null_conn"} /\ worker' = Server!Idle
           \/ /\ clientMap[worker.key] # Server!None /\ UNCHANGED faults
              /\ worker' = [worker EXCEPT !.pc = "in_conn", !.conn = clientMap[worker.key]]
    BY <1>4 DEF Server!WorkerCall, Server!Running, Server!loop, Server!conn
  <2>2. CASE clientMap[worker.key] = Server!None
    <3>1. worker' = Server!Idle /\ faults' = {"null_conn"}
      BY <2>1, <2>2
    <3>2. Server!WorkerInv'
      BY <1>2, <2>1, <3>1 DEF Server!WorkerInv
    <3>3. Server!FaultsExplained' /\ faults' \subseteq Server!Faults
      BY <2>1, <2>2, <3>1 DEF Server!FaultsExplained, Server!Causes, Server!WorkerInv, Server!Faults
    <3>4. sends' \in 0..MaxSends
      BY <2>1 DEF Server!TypeOK
    <3> QED  BY <1>1, <1>2, <2>1, <3>1, <3>2, <3>3, <3>4, SendStepKeeps
  <2>3. CASE clientMap[worker.key] # Server!None
    <3>1. UNCHANGED faults
          /\ worker' = [worker EXCEPT !.pc = "in_conn", !.conn = clientMap[worker.key]]
      BY <2>1, <2>3
    <3>2. /\ worker' \in Server!Workers /\ worker'.pc = "in_conn"
          /\ worker'.conn = clientMap[worker.key] /\ worker'.conn \in Server!Conns
      BY <1>1, <2>3, <3>1 DEF Server!Workers
    <3>3. object[worker'.conn] = "alive"
      BY <1>1, <2>3, <3>2 DEF Server!TableInv
    <3>4. Server!WorkerInv'
      BY <2>1, <3>2, <3>3 DEF Server!WorkerInv
    <3>5. Server!FaultsExplained' /\ faults' \subseteq Server!Faults /\ sends' \in 0..MaxSends
      BY <2>1, <3>1 DEF Server!FaultsExplained, Server!Causes, Server!TypeOK
    <3> QED  BY <1>1, <2>1, <3>1, <3>2, <3>4, <3>5, SendStepKeeps
  <2> QED  BY <2>2, <2>3
<1>5. ASSUME Server!WorkerPost
      PROVE  Server!ServerInv'
  <2> DEFINE p == [conn |-> worker.conn, valid |-> TRUE, copied |-> wsConnected[worker.conn]]
  <2>1. /\ worker.pc = "in_conn" /\ faults = {} /\ worker' = Server!Idle
        /\ UNCHANGED <<ws, clientMap, peer, selfkey, object, tcp, peerGone, wsConnected, closing,
                       running, sends, closes, reported, crossed, disorder>>
        /\ \/ /\ object[worker.conn] = "deleted"
              /\ faults' = faults \cup {"conn_deleted"} /\ UNCHANGED posted
           \/ /\ object[worker.conn] # "deleted" /\ UNCHANGED faults
              /\ posted' = Append(posted, p)
    BY <1>5 DEF Server!WorkerPost, Server!Running, Server!loop, Server!conn
  <2>2. worker.conn \in Server!Conns /\ sends' \in 0..MaxSends /\ wsConnected[worker.conn] \in BOOLEAN
    BY <1>1, <2>1 DEF Server!WorkerInv, Server!TypeOK
  <2>3. CASE object[worker.conn] = "deleted"
    <3>1. faults' = {"conn_deleted"} /\ UNCHANGED posted
      BY <2>1, <2>3
    <3>2. Server!WorkerInv'
      BY <1>2, <2>1, <3>1 DEF Server!WorkerInv
    <3>3. Server!FaultsExplained' /\ faults' \subseteq Server!Faults
      BY <2>1, <2>3, <3>1 DEF Server!FaultsExplained, Server!Causes, Server!WorkerInv, Server!Faults
    <3> QED  BY <1>1, <1>2, <2>1, <2>2, <3>1, <3>2, <3>3, SendStepKeeps
  <2>4. CASE object[worker.conn] # "deleted"
    <3>1. UNCHANGED faults /\ posted' = Append(posted, p)
      BY <2>1, <2>4
    <3>2. p \in Server!Posts /\ p.conn = worker.conn /\ p.valid
      BY <2>2 DEF Server!Posts
    <3> HIDE DEF p
    <3>3. /\ posted' \in Seq(Server!Posts)
          /\ \A i \in DOMAIN posted' :
                (i \in DOMAIN posted /\ posted'[i] = posted[i]) \/ posted'[i] = p
      BY <1>1, <3>1, <3>2, Appended
    <3>4. Server!WorkerInv'
      <4>1. ASSUME NEW i \in DOMAIN posted'
            PROVE  /\ "send_overtaken" \notin disorder => object[posted'[i].conn] # "deleted"
                   /\ posted'[i].valid \/ posted'[i].copied \/ "buffer_reused" \in disorder
        BY <2>4, <3>2, <3>3 DEF Server!WorkerInv
      <4> QED  BY <1>2, <2>1, <4>1 DEF Server!WorkerInv
    <3>5. Server!FaultsExplained' /\ faults' \subseteq Server!Faults
      BY <2>1, <3>1 DEF Server!FaultsExplained, Server!Causes, Server!TypeOK
    <3> QED  BY <1>2, <2>1, <2>2, <3>1, <3>3, <3>4, <3>5, SendStepKeeps
  <2> QED  BY <2>3, <2>4
<1> QED  BY <1>3, <1>4, <1>5

\* The caller's buffer is reused: of the posts one is not valid any more.
LEMMA WorkerReuseKeeps ==
    ASSUME Server!ServerInv, Server!WorkerReuse
    PROVE  Server!ServerInv'
<1> USE DEF Server!ServerInv
<1>1. PICK i \in DOMAIN posted :
         /\ posted' = [posted EXCEPT ![i].valid = FALSE]
         /\ disorder' = IF posted[i].copied THEN disorder ELSE disorder \cup {"buffer_reused"}
  BY DEF Server!WorkerReuse
<1>2. UNCHANGED <<ws, clientMap, peer, selfkey, object, tcp, peerGone, wsConnected, closing,
                  running, worker, sends, closes, reported, crossed, faults>>
  BY DEF Server!WorkerReuse, Server!loop, Server!conn
<1>3. posted \in Seq(Server!Posts) /\ posted[i] \in Server!Posts
  BY DEF Server!TypeOK
<1>4. /\ [posted[i] EXCEPT !.valid = FALSE] \in Server!Posts
      /\ [posted[i] EXCEPT !.valid = FALSE].conn = posted[i].conn
      /\ [posted[i] EXCEPT !.valid = FALSE].copied = posted[i].copied
  BY <1>3 DEF Server!Posts
<1>5. posted' = [posted EXCEPT ![i] = [posted[i] EXCEPT !.valid = FALSE]]
  BY <1>1
<1>6. /\ posted' \in Seq(Server!Posts) /\ DOMAIN posted' = DOMAIN posted
      /\ \A j \in DOMAIN posted : /\ posted'[j].conn = posted[j].conn
                                  /\ posted'[j].copied = posted[j].copied
                                  /\ j # i => posted'[j] = posted[j]
  BY <1>3, <1>4, <1>5
<1>7. Server!WorkerInv'
  BY <1>1, <1>2, <1>6 DEF Server!WorkerInv
<1>8. Server!FaultsExplained'
  BY <1>1, <1>2 DEF Server!FaultsExplained, Server!Causes
<1>9. /\ faults' \subseteq Server!Faults /\ sends' \in 0..MaxSends /\ worker' \in Server!Workers
      /\ disorder \subseteq disorder' /\ disorder' \subseteq disorder \cup {"buffer_reused"}
  BY <1>1, <1>2 DEF Server!TypeOK
<1> QED  BY <1>2, <1>6, <1>7, <1>8, <1>9, SendStepKeeps

\* The posted callback.
LEMMA RunPostedKeeps ==
    ASSUME Server!ServerInv, Server!RunPosted
    PROVE  Server!ServerInv'
<1> USE DEF Server!ServerInv
<1>1. /\ posted # <<>> /\ posted' = Tail(posted) /\ faults = {}
      /\ faults' = faults
           \cup (IF object[Head(posted).conn] = "deleted" THEN {"conn_deleted"} ELSE {})
           \cup (IF Head(posted).valid \/ Head(posted).copied THEN {} ELSE {"buffer_gone"})
      /\ UNCHANGED <<ws, clientMap, peer, selfkey, object, tcp, peerGone, wsConnected, closing,
                     running, worker, sends, closes, reported, crossed, disorder>>
  BY DEF Server!RunPosted, Server!Polling, Server!Running, Server!loop, Server!conn
<1>2. posted \in Seq(Server!Posts)
  BY DEF Server!TypeOK
<1>3. /\ Head(posted) = posted[1] /\ 1 \in DOMAIN posted /\ posted' \in Seq(Server!Posts)
      /\ \A i \in DOMAIN posted' : i + 1 \in DOMAIN posted /\ posted'[i] = posted[i + 1]
  BY <1>1, <1>2, Beheaded
<1>4. Server!WorkerInv'
  BY <1>1, <1>3 DEF Server!WorkerInv
<1>5. /\ object[posted[1].conn] = "deleted" => "send_overtaken" \in disorder
      /\ ~posted[1].valid /\ ~posted[1].copied => "buffer_reused" \in disorder
  BY <1>3 DEF Server!WorkerInv
<1>6. Server!FaultsExplained' /\ faults' \subseteq Server!Faults
  BY <1>1, <1>3, <1>5 DEF Server!FaultsExplained, Server!Causes, Server!Faults
<1>7. sends' \in 0..MaxSends /\ worker' \in Server!Workers
  BY <1>1 DEF Server!TypeOK
<1> QED  BY <1>1, <1>3, <1>4, <1>6, <1>7, SendStepKeeps

\* Each step of the server keeps its invariant.
LEMMA ServerStep == Server!ServerInv /\ [Server!Next]_server => Server!ServerInv'
<1> SUFFICES ASSUME Server!ServerInv, [Server!Next]_server PROVE Server!ServerInv'
  OBVIOUS
<1>1. CASE Server!Next
  BY <1>1, ConnEventsKeep, CreateNewClientKeeps, ClosesKeep, EndPollKeeps, OnConnClosedKeeps,
     WorkerKeeps, WorkerReuseKeeps, RunPostedKeeps DEF Server!Next
<1>2. CASE UNCHANGED server
  <2> USE <1>2 DEF server, Server!ServerInv
  <2>1. Server!TypeOK'
    BY DEF Server!TypeOK
  <2>2. Server!HandlesInv' /\ Server!TableInv' /\ Server!WorkerInv'
    BY DEF Server!HandlesInv, Server!Once, Server!TableInv, Server!WorkerInv
  <2>3. Server!ReportInv'
    BY ReportsUnchanged
  <2>4. Server!FaultsExplained' /\ Server!AnswersReachSender'
    BY DEF Server!FaultsExplained, Server!AnswersReachSender, Server!Causes
  <2> QED  BY <2>1, <2>2, <2>3, <2>4
<1> QED  BY <1>1, <1>2

\* What TableHolds says of it follows.
LEMMA ServerInvSays == Server!ServerInv => TableHolds /\ Server!TypeOK
<1> SUFFICES ASSUME Server!ServerInv PROVE TableHolds
  BY DEF Server!ServerInv
<1> USE DEF Server!ServerInv
<1>1. Server!TableIsExact
  <2> SUFFICES ASSUME "same_key" \notin disorder, faults = {}, NEW c \in Server!Conns
               PROVE  /\ object[c] = "alive" <=> (object[c] # "unused" /\ clientMap[selfkey[c]] = c)
                      /\ tcp[c] = "closed" => object[c] = "deleted"
    BY DEF Server!TableIsExact
  <2>1. selfkey[c] \in Addrs /\ c # Server!None
    BY ServerBounds DEF Server!TypeOK
  <2> QED  BY <2>1 DEF Server!TableInv
<1>2. Server!CloseReportedOnce
  BY DEF Server!CloseReportedOnce, Server!ReportInv
<1> QED  BY <1>1, <1>2 DEF TableHolds

\* In every behaviour of the server, however many connections, closes, sends
\* and addresses there are (TcpServer and TcpSocketConn, NetCore.cc): the table
\* is exact while no two connections shared a key, answers reach their sender,
\* closes are reported once, and every fault has its cause.
THEOREM TableIsRight == MCSpec => []TableHolds
<1>1. MCInit => Server!ServerInv
  BY ServerInit DEF MCInit
<1>2. Server!ServerInv /\ [MCNext]_all => Server!ServerInv'
  <2>1. [MCNext]_all => [Server!Next]_server
    BY DEF MCNext, all
  <2> QED  BY <2>1, ServerStep
<1>3. MCSpec => MCInit /\ [][MCNext]_all
  BY DEF MCSpec
<1>4. Server!ServerInv => TableHolds
  BY ServerInvSays
<1> QED  BY <1>1, <1>2, <1>3, <1>4, PTL

-----------------------------------------------------------------------------
(* DataBuffers *)

\* Two sequences of one length with the same elements are the same.
LEMMA SameSequence ==
    ASSUME NEW S, NEW s \in Seq(S), NEW T, NEW t \in Seq(T), Len(s) = Len(t),
           \A i \in 1..Len(s) : s[i] = t[i]
    PROVE  s = t
OBVIOUS

\* Where a position less than twice round the ring is.
LEMMA Wrapped ==
    ASSUME NEW n \in Nat \ {0}, NEW x \in Nat, x < 2 * n
    PROVE  x % n = IF x < n THEN x ELSE x - n
<1>1. CASE x < n
  BY <1>1
<1>2. CASE x >= n
  <2>1. x - n \in 0..(n - 1)
    BY <1>2
  <2>2. x = n * 1 + (x - n)
    BY <1>2
  <2> QED  BY <1>2, <2>1, <2>2
<1> QED  BY <1>1, <1>2

\* How much of the ring is used, as numbers.
LEMMA UsedIs ==
    ASSUME NEW n \in Nat \ {0}, NEW r \in 0..n, NEW w \in 0..n
    PROVE  /\ Buffers!GetUsed(r, w, n) =
                IF w > r THEN w - r ELSE IF w < r THEN n - (r - w) ELSE 0
           /\ Buffers!GetUsed(r, w, n) \in 0..n
<1>1. Buffers!GetUsed(r, w, n) =
        IF w > r THEN w - r ELSE IF w < r THEN n - (r - w) ELSE 0
  BY DEF Buffers!GetUsed
<1> QED  BY <1>1

\* Where the i-th readable byte of a ring of n bytes is.
At(r, i, n) == IF r + i - 1 < n THEN r + i - 1 ELSE r + i - 1 - n

\* s is the u bytes of the ring b from position r on.
IsView(s, b, r, n, u) ==
    /\ Len(s) = u
    /\ \A i \in 1..u : At(r, i, n) \in 0..(n - 1) /\ s[i] = b[At(r, i, n)]

\* What readData would return, as a sequence.
LEMMA ReadableIs ==
    ASSUME NEW n \in Nat \ {0}, NEW r \in 0..n, NEW w \in 0..n,
           NEW S, NEW b \in [0..(n - 1) -> S]
    PROVE  /\ Buffers!Readable(b, r, w, n) \in Seq(S)
           /\ IsView(Buffers!Readable(b, r, w, n), b, r, n, Buffers!GetUsed(r, w, n))
<1> DEFINE u == Buffers!GetUsed(r, w, n)
           s == Buffers!Readable(b, r, w, n)
<1>0. u \in 0..n
  BY UsedIs
<1>1. ASSUME NEW i \in 1..u PROVE (r + i - 1) % n = At(r, i, n)
  <2> DEFINE x == r + i - 1
  <2>1. x \in Nat /\ x < 2 * n
    BY <1>0
  <2> HIDE DEF x
  <2>2. x % n = IF x < n THEN x ELSE x - n
    BY <2>1, Wrapped
  <2> QED  BY <2>2 DEF x, At
<1>2. s = [i \in 1..u |-> b[(r + i - 1) % n]]
  BY DEF Buffers!Readable
<1> HIDE DEF u, s
<1>3. \A i \in 1..u : At(r, i, n) \in 0..(n - 1)
  BY <1>0 DEF At
<1>4. \A i \in 1..u : s[i] = b[At(r, i, n)]
  BY <1>1, <1>2
<1>5. \A i \in 1..u : s[i] \in S
  BY <1>3, <1>4
<1>6. s \in [1..u -> S]
  BY <1>2, <1>5
<1>7. s \in Seq(S) /\ Len(s) = u
  BY <1>0, <1>6
<1> QED  BY <1>3, <1>4, <1>7 DEF u, s, IsView

\* c is b but for d, which is at offset at.
IsCopy(c, b, n, at, d) ==
    \A x \in 0..(n - 1) : c[x] = IF x >= at /\ x < at + Len(d) THEN d[x - at + 1] ELSE b[x]

\* What a copy into a buffer leaves in it.
LEMMA CopyToIs ==
    ASSUME NEW n \in Nat, NEW S, NEW b \in [0..(n - 1) -> S], NEW d \in Seq(S), NEW at \in Nat
    PROVE  /\ Buffers!CopyTo(b, at, d) \in [0..(n - 1) -> S]
           /\ IsCopy(Buffers!CopyTo(b, at, d), b, n, at, d)
<1>1. \A x \in 0..(n - 1) : x \in at..(at + Len(d) - 1) <=> x >= at /\ x < at + Len(d)
  OBVIOUS
<1>2. \A x \in 0..(n - 1) : x >= at /\ x < at + Len(d) => d[x - at + 1] \in S
  OBVIOUS
<1>3. Buffers!CopyTo(b, at, d) =
        [x \in 0..(n - 1) |-> IF x \in at..(at + Len(d) - 1) THEN d[x - at + 1] ELSE b[x]]
  BY DEF Buffers!CopyTo
<1> QED  BY <1>1, <1>2, <1>3 DEF IsCopy

\* s is the k bytes of the buffer b from offset at on.
IsPart(s, b, at, k) == Len(s) = k /\ \A i \in 1..k : s[i] = b[at + i - 1]

\* What is copied out of one.
LEMMA CopyFromIs ==
    ASSUME NEW n \in Nat, NEW S, NEW b \in [0..(n - 1) -> S], NEW at \in Nat, NEW k \in Nat,
           at + k <= n
    PROVE  /\ Buffers!CopyFrom(b, at, k) \in Seq(S)
           /\ IsPart(Buffers!CopyFrom(b, at, k), b, at, k)
<1>1. Buffers!CopyFrom(b, at, k) = [i \in 1..k |-> b[at + i - 1]]
  BY DEF Buffers!CopyFrom
<1>2. \A i \in 1..k : b[at + i - 1] \in S
  OBVIOUS
<1> DEFINE s == Buffers!CopyFrom(b, at, k)
<1> HIDE DEF s
<1>3. s \in [1..k -> S]
  BY <1>1, <1>2 DEF s
<1>4. s \in Seq(S) /\ Len(s) = k
  BY <1>3
<1>5. \A i \in 1..k : s[i] = b[at + i - 1]
  BY <1>1 DEF s
<1> QED  BY <1>4, <1>5 DEF s, IsPart

\* A piece is a sequence of bytes, and not empty.
LEMMA PieceIs ==
    ASSUME NEW d \in Buffers!Pieces
    PROVE  d \in Seq(Bytes) /\ d \in Seq(Bytes \cup {0}) /\ Len(d) \in Nat \ {0}
<1>1. PICK n \in 1..MaxPush : d \in [1..n -> Bytes]
  BY DEF Buffers!Pieces
<1> QED  BY <1>1

\* What a piece behind a sequence is.
LEMMA Joined ==
    ASSUME NEW S, NEW s \in Seq(S), NEW d \in Seq(S)
    PROVE  /\ s \o d \in Seq(S) /\ Len(s \o d) = Len(s) + Len(d)
           /\ \A i \in 1..(Len(s) + Len(d)) :
                 (s \o d)[i] = IF i <= Len(s) THEN s[i] ELSE d[i - Len(s)]
OBVIOUS

\* What the first k elements are.
LEMMA CutFirst ==
    ASSUME NEW S, NEW s \in Seq(S), NEW k \in 0..Len(s)
    PROVE  /\ SubSeq(s, 1, k) \in Seq(S) /\ Len(SubSeq(s, 1, k)) = k
           /\ \A i \in 1..k : SubSeq(s, 1, k)[i] = s[i]
OBVIOUS

\* And what is left.
LEMMA CutRest ==
    ASSUME NEW S, NEW s \in Seq(S), NEW k \in 0..Len(s)
    PROVE  /\ SubSeq(s, k + 1, Len(s)) \in Seq(S)
           /\ Len(SubSeq(s, k + 1, Len(s))) = Len(s) - k
           /\ \A i \in 1..(Len(s) - k) : SubSeq(s, k + 1, Len(s))[i] = s[i + k]
OBVIOUS

\* What is readable is now p, with d behind what was q, unless the positions meet.
Joins(p, q, d, n, r, y) ==
    /\ r # y => p = q \o d
    /\ r = y => p = <<>> /\ Len(q) + Len(d) = n

\* A piece that is copied to the write position is behind what was readable,
\* unless it fills the ring.
LEMMA CopiedStraight ==
    ASSUME NEW n \in Nat \ {0}, NEW S, NEW buf \in [0..(n - 1) -> S],
           NEW r \in 0..n, NEW w \in 0..n, NEW d \in Seq(S), NEW k \in Nat \ {0}, k = Len(d),
           w + k <= n, w > r \/ (w < r /\ w + k <= r),
           NEW b \in [0..(n - 1) -> S], IsCopy(b, buf, n, w, d), NEW y, y = w + k
    PROVE  Joins(Buffers!Readable(b, r, y, n), Buffers!Readable(buf, r, w, n), d, n, r, y)
<1> DEFINE q == Buffers!Readable(buf, r, w, n)
           p == Buffers!Readable(b, r, y, n)
           u == Buffers!GetUsed(r, w, n)
           v == Buffers!GetUsed(r, y, n)
<1>1. y \in 0..n /\ w \in Nat /\ n \in Nat
  OBVIOUS
<1>3. /\ u = (IF w > r THEN w - r ELSE IF w < r THEN n - (r - w) ELSE 0) /\ u \in 0..n
      /\ v = (IF y > r THEN y - r ELSE IF y < r THEN n - (r - y) ELSE 0) /\ v \in 0..n
  <2>1. u = (IF w > r THEN w - r ELSE IF w < r THEN n - (r - w) ELSE 0) /\ u \in 0..n
    BY UsedIs
  <2>2. v = (IF y > r THEN y - r ELSE IF y < r THEN n - (r - y) ELSE 0) /\ v \in 0..n
    BY <1>1, UsedIs
  <2> QED  BY <2>1, <2>2
<1>4. q \in Seq(S) /\ IsView(q, buf, r, n, u)
  BY ReadableIs
<1>5. p \in Seq(S) /\ IsView(p, b, r, n, v)
  BY <1>1, ReadableIs
<1>6. /\ q \o d \in Seq(S) /\ Len(q \o d) = u + k
      /\ \A i \in 1..(u + k) : (q \o d)[i] = IF i <= u THEN q[i] ELSE d[i - u]
  <2>1. Len(q) = u /\ q \in Seq(S) /\ Len(d) = k
    BY <1>4 DEF IsView
  <2> HIDE DEF q, p, u, v
  <2>2. /\ q \o d \in Seq(S) /\ Len(q \o d) = Len(q) + Len(d)
        /\ \A i \in 1..(Len(q) + Len(d)) :
              (q \o d)[i] = IF i <= Len(q) THEN q[i] ELSE d[i - Len(q)]
    BY <2>1, Joined
  <2> QED  BY <2>1, <2>2
<1> HIDE DEF q, p, u, v
<1>9. u \in Nat /\ v \in Nat
  BY <1>3
<1>10. y = w + k
  OBVIOUS
<1>7. ASSUME r # y PROVE p = q \o d
  <2>1. v = u + k
    BY <1>10, <1>3, <1>7
  <2>2. ASSUME NEW i \in 1..v PROVE p[i] = (q \o d)[i]
    <3>1. PICK x \in 0..(n - 1) :
             x = At(r, i, n) /\ p[i] = b[x]
      BY <1>5 DEF IsView
    <3>2. CASE i <= u
      <4>1. ~(x >= w /\ x < w + k)
        BY <1>10, <1>3, <1>7, <2>1, <3>1, <3>2 DEF At
      <4>2. q[i] = buf[x]
        BY <1>3, <1>4, <3>1, <3>2, SMTT(40) DEF IsView
      <4>3. p[i] = buf[x]
        BY <3>1, <4>1 DEF IsCopy
      <4>4. (q \o d)[i] = q[i]
        BY <1>9, <1>6, <2>1, <3>2
      <4> QED  BY <4>2, <4>3, <4>4
    <3>3. CASE i > u
      <4>1. x = w + (i - u) - 1
        BY <1>10, <1>3, <1>7, <2>1, <3>1, <3>3 DEF At
      <4>2. x >= w /\ x < w + k /\ x - w + 1 = i - u
        BY <1>10, <1>3, <2>1, <3>3, <4>1
      <4>3. p[i] = d[i - u]
        <5>1. x >= w /\ x < w + Len(d)
          BY <4>2
        <5>2. b[x] = d[x - w + 1]
          BY <5>1 DEF IsCopy
        <5>3. d[x - w + 1] = d[i - u]
          BY <4>2
        <5> QED  BY <3>1, <5>2, <5>3
      <4>4. (q \o d)[i] = d[i - u]
        <5>1. i \in 1..(u + k) /\ ~(i <= u)
          BY <1>9, <2>1, <3>3
        <5> QED  BY <1>6, <5>1
      <4> QED  BY <4>3, <4>4
    <3>4. i <= u \/ i > u
      BY <1>9
    <3> QED  BY <3>2, <3>3, <3>4
  <2> QED  BY <1>5, <1>6, <2>1, <2>2, SameSequence DEF IsView
<1>8. ASSUME r = y PROVE p = <<>> /\ Len(q) + k = n
  <2>1. v = 0 /\ u + k = n
    BY <1>10, <1>3, <1>8
  <2> QED  BY <1>4, <1>5, <2>1 DEF IsView
<1> QED  BY <1>7, <1>8 DEF q, p, Joins

\* b is buf but for d, the first h of its k bytes from w on, the rest at the start.
CopiedIn(b, buf, n, d, w, k, h) ==
    \A x \in 0..(n - 1) : b[x] = IF x < k - h THEN d[x + h + 1]
                                 ELSE IF x >= w THEN d[x - w + 1] ELSE buf[x]

\* A piece that is copied in two halves, to the write position and round to the
\* start, is behind what was readable too, unless it fills the ring.
LEMMA CopiedRound ==
    ASSUME NEW n \in Nat \ {0}, NEW S, NEW buf \in [0..(n - 1) -> S],
           NEW r \in 0..n, NEW w \in 0..n, NEW d \in Seq(S), NEW k \in Nat \ {0}, k = Len(d),
           NEW h \in Nat, h = n - w, h < k, k - h <= r, r < w,
           NEW b \in [0..(n - 1) -> S],
           CopiedIn(b, buf, n, d, w, k, h), NEW y, y = k - h
    PROVE  Joins(Buffers!Readable(b, r, y, n), Buffers!Readable(buf, r, w, n), d, n, r, y)
<1> DEFINE q == Buffers!Readable(buf, r, w, n)
           p == Buffers!Readable(b, r, y, n)
           u == Buffers!GetUsed(r, w, n)
           v == Buffers!GetUsed(r, y, n)
<1>1. y \in 0..n /\ n \in Nat
  OBVIOUS
<1>2. u = w - r /\ u \in 0..n
  BY UsedIs
<1>3. v = (IF y > r THEN y - r ELSE IF y < r THEN n - (r - y) ELSE 0) /\ v \in 0..n
  BY <1>1, UsedIs
<1>4. q \in Seq(S) /\ IsView(q, buf, r, n, u)
  BY ReadableIs
<1>5. p \in Seq(S) /\ IsView(p, b, r, n, v)
  BY <1>1, ReadableIs
<1> HIDE DEF q, p, u, v
<1>6. /\ q \o d \in Seq(S) /\ Len(q \o d) = u + k
      /\ \A i \in 1..(u + k) : (q \o d)[i] = IF i <= u THEN q[i] ELSE d[i - u]
  <2>1. /\ q \o d \in Seq(S) /\ Len(q \o d) = Len(q) + Len(d)
        /\ \A i \in 1..(Len(q) + Len(d)) :
              (q \o d)[i] = IF i <= Len(q) THEN q[i] ELSE d[i - Len(q)]
    BY <1>4, Joined DEF IsView
  <2> QED  BY <1>4, <2>1 DEF IsView
<1>7. y = k - h /\ u \in Nat /\ v \in Nat
  BY <1>2, <1>3
<1>8. ASSUME r # y PROVE p = q \o d
  <2>1. v = u + k
    BY <1>2, <1>3, <1>7, <1>8, SMTT(40)
  <2>2. ASSUME NEW i \in 1..v PROVE p[i] = (q \o d)[i]
    <3>1. PICK x \in 0..(n - 1) : x = At(r, i, n) /\ p[i] = b[x]
      BY <1>5 DEF IsView
    <3>2. CASE i <= u
      <4>1. x >= y /\ x < w
        BY <1>2, <1>3, <1>7, <1>8, <2>1, <3>1, <3>2 DEF At
      <4>2. q[i] = buf[x]
        BY <1>2, <1>4, <3>1, <3>2, SMTT(40) DEF IsView
      <4>3. p[i] = buf[x]
        BY <1>7, <3>1, <4>1 DEF CopiedIn
      <4>4. (q \o d)[i] = q[i]
        BY <1>6, <1>7, <2>1, <3>2
      <4> QED  BY <4>2, <4>3, <4>4
    <3>5. ASSUME i > u
          PROVE  (x < y /\ x + h + 1 = i - u) \/ (x >= y /\ x >= w /\ x - w + 1 = i - u)
      <4>1. CASE r + i - 1 < n
        <5>1. x = r + i - 1
          BY <3>1, <4>1 DEF At
        <5> QED  BY <1>2, <1>7, <3>5, <5>1
      <4>2. CASE r + i - 1 >= n
        <5>1. x = r + i - 1 - n
          BY <3>1, <4>2 DEF At
        <5> QED  BY <1>2, <1>7, <2>1, <3>5, <5>1
      <4> QED  BY <4>1, <4>2
    <3>3. CASE i > u
      <4>2. p[i] = d[i - u]
        BY <1>7, <3>1, <3>3, <3>5 DEF CopiedIn
      <4>3. (q \o d)[i] = d[i - u]
        <5>1. i \in 1..(u + k) /\ ~(i <= u)
          BY <1>7, <2>1, <3>3
        <5> QED  BY <1>6, <5>1
      <4> QED  BY <4>2, <4>3
    <3>4. i <= u \/ i > u
      BY <1>7
    <3> QED  BY <3>2, <3>3, <3>4
  <2> QED  BY <1>5, <1>6, <2>1, <2>2, SameSequence DEF IsView
<1>9. ASSUME r = y PROVE p = <<>> /\ Len(q) + k = n
  <2>1. v = 0 /\ u + k = n
    BY <1>2, <1>3, <1>7, <1>9
  <2> QED  BY <1>4, <1>5, <2>1 DEF IsView
<1> QED  BY <1>8, <1>9 DEF q, p, Joins

\* Where the read position is after k bytes have been read from r.
AfterRead(r, w, n, k) == IF w > r \/ k <= n - r THEN r + k ELSE k - (n - r)

\* What is read is the beginning of what was readable, and the rest is readable
\* after it, unless that was all.
LEMMA ReadOn ==
    ASSUME NEW n \in Nat \ {0}, NEW S, NEW buf \in [0..(n - 1) -> S],
           NEW r \in 0..n, NEW w \in 0..n, r # w,
           NEW q, q = Buffers!Readable(buf, r, w, n),
           NEW u, u = Buffers!GetUsed(r, w, n), NEW k \in 0..u,
           NEW y, y = AfterRead(r, w, n, k)
    PROVE  /\ y \in 0..n /\ k \in 0..Len(q)
           /\ y # w => Buffers!Readable(buf, y, w, n) = SubSeq(q, k + 1, Len(q))
           /\ k = u => y = w \/ (y = n /\ w = 0)
           /\ y = w => k = u
<1> DEFINE p == Buffers!Readable(buf, y, w, n)
           v == Buffers!GetUsed(y, w, n)
<1>1. u = (IF w > r THEN w - r ELSE n - (r - w)) /\ u \in 0..n /\ u \in Nat
  <2>1. /\ u = (IF w > r THEN w - r ELSE IF w < r THEN n - (r - w) ELSE 0)
        /\ u \in 0..n
    BY UsedIs
  <2> QED  BY <2>1
<1>2. q \in Seq(S) /\ IsView(q, buf, r, n, u)
  BY ReadableIs
<1>3. k \in 0..u
  OBVIOUS
<1>11. y = IF w > r \/ k <= n - r THEN r + k ELSE k - (n - r)
  BY DEF AfterRead
<1>4. y \in 0..n
  BY <1>1, <1>3, <1>11
<1>5. v = (IF w > y THEN w - y ELSE IF w < y THEN n - (y - w) ELSE 0) /\ v \in 0..n
  BY <1>4, UsedIs
<1>6. p \in Seq(S) /\ IsView(p, buf, y, n, v)
  BY <1>4, ReadableIs
<1> HIDE DEF p, v
<1>7. k \in 0..Len(q)
  BY <1>2, <1>3 DEF IsView
<1>8. k = u => y = w \/ (y = n /\ w = 0)
  BY <1>1, <1>3, <1>11, <1>4
<1>9. y = w => k = u
  BY <1>1, <1>3, <1>11, <1>4
<1>10. ASSUME y # w PROVE p = SubSeq(q, k + 1, Len(q))
  <2> DEFINE t == SubSeq(q, k + 1, Len(q))
  <2>1. v = u - k
    BY <1>1, <1>3, <1>11, <1>4, <1>5, <1>10
  <2>2. /\ t \in Seq(S) /\ Len(t) = Len(q) - k
        /\ \A i \in 1..(Len(q) - k) : t[i] = q[i + k]
    BY <1>2, <1>7, CutRest
  <2> HIDE DEF t
  <2>3. Len(t) = v /\ \A i \in 1..v : t[i] = q[i + k]
    BY <1>2, <2>1, <2>2 DEF IsView
  <2>4. ASSUME NEW i \in 1..v PROVE p[i] = t[i]
    <3>1. i \in Nat /\ i + k \in 1..u /\ i >= 1
      BY <1>1, <1>3, <2>1
    <3>2. At(y, i, n) = At(r, i + k, n)
      <4>1. CASE y = r + k
        BY <1>3, <3>1, <4>1 DEF At
      <4>2. CASE y = k - (n - r)
        BY <1>1, <1>3, <1>11, <1>4, <3>1, <4>2 DEF At
      <4> QED  BY <1>11, <4>1, <4>2
    <3>3. p[i] = buf[At(y, i, n)]
      BY <1>6 DEF IsView
    <3>4. q[i + k] = buf[At(r, i + k, n)]
      BY <1>2, <3>1 DEF IsView
    <3> QED  BY <2>3, <3>2, <3>3, <3>4
  <2>5. Len(p) = v
    BY <1>6 DEF IsView
  <2> QED  BY <1>6, <2>2, <2>3, <2>4, <2>5, SameSequence DEF t
<1> QED  BY <1>4, <1>7, <1>8, <1>9, <1>10 DEF p

\* What RingInv says in numbers, and what is readable.
LEMMA RingIs ==
    ASSUME Buffers!RingInv
    PROVE  /\ length_ \in Nat \ {0} /\ buf_ \in [0..(length_ - 1) -> Bytes \cup {0}]
           /\ r_Pos_ \in 0..length_ /\ w_Pos_ \in 0..length_
           /\ ringHeld \in Seq(Bytes) /\ ringHeld \in Seq(Bytes \cup {0})
           /\ r_Pos_ # w_Pos_ =>
                ringHeld = Buffers!Readable(buf_, r_Pos_, w_Pos_, length_)
BY DEF Buffers!RingInv, Buffers!LosesOnlyWhenFull, Buffers!IsFull

\* A write: the piece is behind what was readable, or it fills the ring, or it
\* is refused.
LEMMA WriteDataPushes ==
    ASSUME Buffers!RingInv, NEW d \in Buffers!Pieces, Buffers!WriteData(d)
    PROVE  /\ Buffers!RingInv'
           /\ \/ Buffers!RingQueue!Push(d) \/ Buffers!RingQueue!Overfill(d)
              \/ Buffers!RingQueue!Refuse
<1> DEFINE n == length_
           r == r_Pos_
           w == w_Pos_
           k == Len(d)
           q == Buffers!Readable(buf_, r, w, n)
           S == Bytes \cup {0}
<1>1. /\ n \in Nat \ {0} /\ buf_ \in [0..(n - 1) -> S] /\ r \in 0..n /\ w \in 0..n
      /\ ringHeld \in Seq(Bytes) /\ ringHeld \in Seq(S) /\ (r # w => ringHeld = q)
  BY RingIs
<1>2. d \in Seq(Bytes) /\ d \in Seq(S) /\ k \in Nat \ {0}
  BY PieceIs
<1>3. CASE Buffers!WriteRefused(d)
  BY <1>3 DEF Buffers!WriteRefused, Buffers!RingInv, Buffers!LosesOnlyWhenFull, Buffers!IsFull,
     Buffers!EmptyIsReset, Buffers!RingQueue!Refuse
<1>4. ASSUME UNCHANGED <<length_, r_Pos_>>, ringHeld' = ringHeld \o d, ringGiven' = d,
             ringTaken' = <<>>, buf_' \in [0..(n - 1) -> S], w_Pos_' \in 0..n, r # w,
             Joins(Buffers!Readable(buf_', r, w_Pos_', n), q, d, n, r, w_Pos_')
      PROVE  /\ Buffers!RingInv'
             /\ Buffers!RingQueue!Push(d) \/ Buffers!RingQueue!Overfill(d)
  <2>1. /\ ringHeld' \in Seq(Bytes) /\ Len(ringHeld') = Len(ringHeld) + k
        /\ Len(ringHeld) \in Nat
    BY <1>1, <1>2, <1>4, Joined
  <2>2. ringHeld' # <<>>
    BY <1>2, <2>1
  <2>3. Buffers!LosesOnlyWhenFull'
    BY <1>1, <1>4, <2>1 DEF Joins, Buffers!LosesOnlyWhenFull, Buffers!IsFull
  <2>4. Buffers!RingInv'
    BY <1>1, <1>4, <2>1, <2>2, <2>3 DEF Buffers!RingInv, Buffers!EmptyIsReset
  <2>5. Buffers!RingQueue!Push(d) \/ Buffers!RingQueue!Overfill(d)
    BY <1>4 DEF Joins, Buffers!RingQueue!Push, Buffers!RingQueue!Overfill
  <2> QED  BY <2>4, <2>5
<1>5. CASE Buffers!WriteStraight(d)
  <2>1. /\ k <= Buffers!Left /\ Buffers!Straight(k)
        /\ UNCHANGED <<length_, r_Pos_>> /\ buf_' = Buffers!CopyTo(buf_, w, d) /\ w_Pos_' = w + k
        /\ ringHeld' = ringHeld \o d /\ ringGiven' = d /\ ringTaken' = <<>>
    BY <1>5 DEF Buffers!WriteStraight
  <2>2. w + k <= n /\ (w > r \/ (w < r /\ w + k <= r))
    BY <1>1, <1>2, <2>1 DEF Buffers!Left, Buffers!Straight
  <2>3. w \in Nat /\ n \in Nat /\ w + k \in 0..n /\ r # w /\ k = Len(d)
    BY <1>1, <1>2, <2>2
  <2> HIDE DEF n, r, w, k, q, S
  <2>4. PICK b \in [0..(n - 1) -> S] :
           b = Buffers!CopyTo(buf_, w, d) /\ IsCopy(b, buf_, n, w, d)
    BY <1>1, <1>2, <2>3, CopyToIs
  <2>5. PICK y \in 0..n : y = w + k
    BY <2>3
  <2>6. Joins(Buffers!Readable(b, r, y, n), Buffers!Readable(buf_, r, w, n), d, n, r, y)
    BY <1>1, <1>2, <2>2, <2>3, <2>4, <2>5, CopiedStraight
  <2> QED  BY <1>4, <2>1, <2>3, <2>4, <2>5, <2>6 DEF q
<1>6. CASE Buffers!WriteWrapped(d)
  <2>1. /\ k <= Buffers!Left /\ ~Buffers!Straight(k)
        /\ UNCHANGED <<length_, r_Pos_>> /\ w_Pos_' = k - (n - w)
        /\ buf_' = Buffers!CopyTo(Buffers!CopyTo(buf_, w, SubSeq(d, 1, n - w)), 0,
                                  SubSeq(d, (n - w) + 1, k))
        /\ ringHeld' = ringHeld \o d /\ ringGiven' = d /\ ringTaken' = <<>>
    BY <1>6 DEF Buffers!WriteWrapped
  <2>2. PICK h \in Nat : h = n - w /\ h < k /\ k - h <= r /\ r < w
    BY <1>1, <1>2, <2>1 DEF Buffers!Left, Buffers!Straight
  <2>3. w \in Nat /\ n \in Nat /\ k - h \in 0..n /\ r # w /\ h \in 0..k /\ k = Len(d)
    BY <1>1, <1>2, <2>2
  <2> HIDE DEF n, r, w, k, q, S
  <2>4. /\ SubSeq(d, 1, h) \in Seq(S) /\ Len(SubSeq(d, 1, h)) = h
        /\ \A i \in 1..h : SubSeq(d, 1, h)[i] = d[i]
        /\ SubSeq(d, h + 1, k) \in Seq(S) /\ Len(SubSeq(d, h + 1, k)) = k - h
        /\ \A i \in 1..(k - h) : SubSeq(d, h + 1, k)[i] = d[i + h]
    BY <1>2, <2>3, CutFirst, CutRest
  <2>a. PICK first \in Seq(S) :
           first = SubSeq(d, 1, h) /\ Len(first) = h /\ \A i \in 1..h : first[i] = d[i]
    BY <2>4
  <2>b. PICK rest \in Seq(S) :
           /\ rest = SubSeq(d, h + 1, k) /\ Len(rest) = k - h
           /\ \A i \in 1..(k - h) : rest[i] = d[i + h]
    BY <2>4
  <2>5. PICK a \in [0..(n - 1) -> S] :
           a = Buffers!CopyTo(buf_, w, first) /\ IsCopy(a, buf_, n, w, first)
    BY <1>1, <2>3, CopyToIs
  <2>6. PICK c \in [0..(n - 1) -> S] :
           c = Buffers!CopyTo(a, 0, rest) /\ IsCopy(c, a, n, 0, rest)
    BY <2>3, CopyToIs
  <2>7. CopiedIn(c, buf_, n, d, w, k, h)
    <3> SUFFICES ASSUME NEW x \in 0..(n - 1)
                 PROVE  c[x] = IF x < k - h THEN d[x + h + 1]
                               ELSE IF x >= w THEN d[x - w + 1] ELSE buf_[x]
      BY DEF CopiedIn
    <3>1. CASE x < k - h
      <4>1. c[x] = rest[x + 1] /\ x + 1 \in 1..(k - h)
        BY <2>3, <2>b, <2>6, <3>1 DEF IsCopy
      <4>2. rest[x + 1] = d[x + h + 1]
        BY <2>3, <2>b, <4>1
      <4> QED  BY <3>1, <4>1, <4>2
    <3>2. CASE x >= k - h
      <4>1. c[x] = a[x]
        BY <2>3, <2>b, <2>6, <3>2 DEF IsCopy
      <4>2. CASE x >= w
        <5>1. x < w + h /\ x - w + 1 \in 1..h
          BY <2>2, <2>3, <4>2
        <5>2. a[x] = first[x - w + 1]
          BY <2>3, <2>a, <2>5, <4>2, <5>1 DEF IsCopy
        <5>3. first[x - w + 1] = d[x - w + 1]
          BY <2>a, <5>1
        <5> QED  BY <2>3, <3>2, <4>1, <4>2, <5>2, <5>3
      <4>3. CASE x < w
        <5>1. a[x] = buf_[x]
          BY <2>3, <2>5, <4>3 DEF IsCopy
        <5> QED  BY <2>3, <3>2, <4>1, <4>3, <5>1
      <4> QED  BY <2>3, <4>2, <4>3
    <3> QED  BY <2>3, <3>1, <3>2
  <2>8. PICK y \in 0..n : y = k - h
    BY <2>3
  <2>9. Joins(Buffers!Readable(c, r, y, n), Buffers!Readable(buf_, r, w, n), d, n, r, y)
    BY <1>1, <1>2, <2>2, <2>3, <2>7, <2>8, CopiedRound
  <2> QED  BY <1>4, <2>1, <2>2, <2>3, <2>a, <2>b, <2>5, <2>6, <2>8, <2>9 DEF q
<1> QED  BY <1>3, <1>5, <1>6 DEF Buffers!WriteData

\* A reset ring is an empty queue.
LEMMA ResetIsEmpty ==
    ASSUME NEW n \in Nat \ {0}, NEW b
    PROVE  Buffers!Readable(b, n, 0, n) = <<>>
<1>1. Buffers!GetUsed(n, 0, n) = 0
  BY DEF Buffers!GetUsed
<1> QED  BY <1>1 DEF Buffers!Readable

\* A read: what it takes is the beginning of the queue.
LEMMA ReadDataPops ==
    ASSUME Buffers!RingInv, NEW size \in 1..MaxPush, Buffers!ReadData(size)
    PROVE  /\ Buffers!RingInv'
           /\ \E k \in 0..Len(Buffers!Readable(buf_, r_Pos_, w_Pos_, length_)) :
                 Buffers!RingQueue!Pop(k)
<1> DEFINE n == length_
           r == r_Pos_
           w == w_Pos_
           q == Buffers!Readable(buf_, r, w, n)
           u == Buffers!GetUsed(r, w, n)
           S == Bytes \cup {0}
<1>1. /\ n \in Nat \ {0} /\ buf_ \in [0..(n - 1) -> S] /\ r \in 0..n /\ w \in 0..n
      /\ ringHeld \in Seq(Bytes) /\ (r # w => ringHeld = q)
  BY RingIs
<1>2. r # w
  BY DEF Buffers!ReadData, Buffers!IsFull
<1>3. u \in 0..n
  BY <1>1, UsedIs
<1>4. PICK k \in 0..u : k = IF u >= size THEN size ELSE u
  BY <1>3
<1>5. PICK y : y = AfterRead(r, w, n, k)
  OBVIOUS
<1>6. /\ UNCHANGED <<length_, buf_>> /\ ringGiven' = <<>> /\ ringTaken' = SubSeq(q, 1, k)
      /\ ringHeld' = SubSeq(ringHeld, k + 1, Len(ringHeld))
      /\ r_Pos_' = (IF y = w THEN n ELSE y) /\ w_Pos_' = (IF y = w THEN 0 ELSE w)
  BY <1>4, <1>5 DEF AfterRead, Buffers!ReadData, Buffers!NextRead
<1> HIDE DEF n, r, w, q, u, S
<1>7. /\ y \in 0..n /\ k \in 0..Len(q)
      /\ y # w => Buffers!Readable(buf_, y, w, n) = SubSeq(q, k + 1, Len(q))
      /\ k = u => y = w \/ (y = n /\ w = 0)
      /\ y = w => k = u
  <2>1. q = Buffers!Readable(buf_, r, w, n) /\ u = Buffers!GetUsed(r, w, n)
    BY DEF q, u
  <2> QED  BY <1>1, <1>2, <1>4, <1>5, <2>1, ReadOn
<1>8. q \in Seq(Bytes) /\ Len(q) = u /\ ringHeld = q
  <2>1. IsView(q, buf_, r, n, u)
    BY <1>1, ReadableIs DEF q, u
  <2> QED  BY <1>1, <1>2, <2>1 DEF IsView
<1>9. /\ ringHeld' \in Seq(Bytes) /\ Len(ringHeld') = u - k
      /\ ringHeld' = SubSeq(q, k + 1, Len(q))
  BY <1>6, <1>7, <1>8, CutRest
<1>10. CASE y = w
  <2>1. r_Pos_' = n /\ w_Pos_' = 0 /\ ringHeld' = <<>>
    BY <1>3, <1>6, <1>7, <1>9, <1>10
  <2>2. n \in 0..n /\ 0 \in 0..n
    BY <1>1
  <2>3. Buffers!Readable(buf_, n, 0, n) = <<>>
    BY <1>1, ResetIsEmpty
  <2>4. Buffers!RingInv'
    <3>1. Buffers!LosesOnlyWhenFull' /\ Buffers!EmptyIsReset'
      BY <1>1, <1>6, <2>1, <2>3 DEF Buffers!LosesOnlyWhenFull, Buffers!IsFull,
         Buffers!EmptyIsReset, n
    <3> QED  BY <1>1, <1>6, <1>9, <2>1, <2>2, <3>1 DEF Buffers!RingInv, n, S
  <2>5. Buffers!RingQueue!Pop(k)
    BY <1>6, <1>9, <2>1, <2>3 DEF Buffers!RingQueue!Pop, n, q, r, w
  <2> QED  BY <1>7, <2>4, <2>5 DEF q, r, w, n
<1>11. CASE y # w
  <2>1. r_Pos_' = y /\ w_Pos_' = w
    BY <1>6, <1>11
  <2>2. Buffers!EmptyIsReset'
    <3>1. ASSUME ringHeld' = <<>> PROVE k = u
      <4>1. u \in Nat /\ k \in Nat
        BY <1>1, <1>3
      <4>2. Len(ringHeld') = 0
        BY <3>1
      <4>3. Len(ringHeld') = u - k
        BY <1>9
      <4> QED  BY <4>1, <4>2, <4>3
    <3> QED  BY <1>6, <1>7, <1>11, <2>1, <3>1 DEF Buffers!EmptyIsReset, n
  <2>3. Buffers!LosesOnlyWhenFull'
    BY <1>6, <1>7, <1>9, <1>11, <2>1 DEF Buffers!LosesOnlyWhenFull, Buffers!IsFull, n
  <2>4. Buffers!RingInv'
    BY <1>1, <1>6, <1>7, <1>9, <2>1, <2>2, <2>3 DEF Buffers!RingInv, n, S
  <2>5. Buffers!RingQueue!Pop(k)
    BY <1>6, <1>7, <1>11, <2>1 DEF Buffers!RingQueue!Pop, n, q, r, w
  <2> QED  BY <1>7, <2>4, <2>5 DEF q, r, w, n
<1> QED  BY <1>10, <1>11

\* New memory: the queue is as it was, at the start of it.
LEMMA AddSpaceKeeps ==
    ASSUME Buffers!RingInv, Buffers!AddRingBufSpace(1)
    PROVE  Buffers!RingInv' /\ Buffers!RingQueue!Refuse
<1> DEFINE n == length_
           r == r_Pos_
           w == w_Pos_
           q == Buffers!Readable(buf_, r, w, n)
           S == Bytes \cup {0}
<1>1. /\ n \in Nat \ {0} /\ buf_ \in [0..(n - 1) -> S] /\ r \in 0..n /\ w \in 0..n
      /\ ringHeld \in Seq(Bytes) /\ (r # w => ringHeld = q)
  BY RingIs
<1>2. PICK m \in Nat \ {0} : m = n + 1
  BY <1>1
<1>3. /\ length_' = m /\ r_Pos_' = m /\ w_Pos_' = Len(q) /\ ringHeld' = q
      /\ buf_' = Buffers!CopyTo(Buffers!Fresh(m), 0, q)
      /\ ringGiven' = <<>> /\ ringTaken' = <<>>
  BY <1>2 DEF Buffers!AddRingBufSpace
<1> HIDE DEF n, r, w, q, S
<1>4. q \in Seq(S) /\ Len(q) \in 0..n
  <2>1. q \in Seq(S) /\ IsView(q, buf_, r, n, Buffers!GetUsed(r, w, n))
    BY <1>1, ReadableIs DEF q
  <2>2. Buffers!GetUsed(r, w, n) \in 0..n
    BY <1>1, UsedIs
  <2> QED  BY <2>1, <2>2 DEF IsView
<1>5. PICK f \in [0..(m - 1) -> S] : f = Buffers!Fresh(m)
  BY DEF Buffers!Fresh, S
<1>6. m \in Nat /\ 0 \in Nat
  OBVIOUS
<1>7. PICK b \in [0..(m - 1) -> S] :
         b = Buffers!CopyTo(f, 0, q) /\ IsCopy(b, f, m, 0, q)
  BY <1>4, <1>6, CopyToIs
<1>8. PICK k \in 0..m : k = Len(q) /\ k < m
  BY <1>1, <1>2, <1>4
<1>9. m \in 0..m
  OBVIOUS
<1> DEFINE p == Buffers!Readable(b, m, k, m)
           v == Buffers!GetUsed(m, k, m)
<1>10. p \in Seq(S) /\ IsView(p, b, m, m, v)
  BY <1>8, <1>9, ReadableIs
<1>11. v = k
  <2>1. v = IF k > m THEN k - m ELSE IF k < m THEN m - (m - k) ELSE 0
    BY <1>8, <1>9, UsedIs
  <2> QED  BY <1>8, <2>1
<1> HIDE DEF p, v
<1>12. p = q
  <2>1. ASSUME NEW i \in 1..k PROVE p[i] = q[i]
    <3>1. p[i] = b[At(m, i, m)]
      BY <1>10, <1>11 DEF IsView
    <3>2. At(m, i, m) = i - 1 /\ i - 1 \in 0..(m - 1) /\ i - 1 < 0 + Len(q) /\ i - 1 >= 0
      BY <1>8 DEF At
    <3>3. b[i - 1] = q[i - 1 - 0 + 1]
      BY <1>7, <3>2 DEF IsCopy
    <3> QED  BY <1>8, <3>1, <3>2, <3>3
  <2>2. Len(p) = k
    BY <1>10, <1>11 DEF IsView
  <2> QED  BY <1>4, <1>8, <1>10, <2>1, <2>2, SameSequence
<1>13. q \in Seq(Bytes)
  <2>1. CASE r # w
    BY <1>1, <2>1
  <2>2. CASE r = w
    <3>1. Buffers!GetUsed(r, w, n) = 0
      BY <1>1, <2>2, UsedIs
    <3> QED  BY <3>1 DEF q, Buffers!Readable
  <2> QED  BY <2>1, <2>2
<1>14. Buffers!LosesOnlyWhenFull'
  BY <1>3, <1>5, <1>7, <1>8, <1>12 DEF Buffers!LosesOnlyWhenFull, Buffers!IsFull, p
<1>15. Buffers!EmptyIsReset'
  BY <1>3, <1>4 DEF Buffers!EmptyIsReset
<1>16. Buffers!RingInv'
  BY <1>3, <1>5, <1>7, <1>8, <1>9, <1>13, <1>14, <1>15 DEF Buffers!RingInv, S
<1>17. Buffers!RingQueue!Refuse
  BY <1>3, <1>5, <1>7, <1>8, <1>12 DEF Buffers!RingQueue!Refuse, p, q, r, w, n
<1> QED  BY <1>16, <1>17

\* Each step of the ring is one of the queue.
LEMMA RingStep ==
    ASSUME Buffers!RingInv, Buffers!RingNext
    PROVE  Buffers!RingInv' /\ Buffers!RingQueue!QNext
<1>1. ASSUME NEW d \in Buffers!Pieces, Buffers!WriteData(d)
      PROVE  Buffers!RingInv' /\ Buffers!RingQueue!QNext
  <2>1. Buffers!Pieces = Buffers!RingQueue!Pieces
    BY DEF Buffers!Pieces, Buffers!RingQueue!Pieces
  <2> QED  BY <1>1, <2>1, WriteDataPushes DEF Buffers!RingQueue!QNext
<1>2. ASSUME NEW size \in 1..MaxPush, Buffers!ReadData(size)
      PROVE  Buffers!RingInv' /\ Buffers!RingQueue!QNext
  BY <1>2, ReadDataPops DEF Buffers!RingQueue!QNext
<1>3. CASE Buffers!ReadNothing
  BY <1>3 DEF Buffers!ReadNothing, Buffers!RingInv, Buffers!LosesOnlyWhenFull, Buffers!IsFull,
     Buffers!EmptyIsReset, Buffers!RingQueue!Refuse, Buffers!RingQueue!QNext
<1>4. CASE Buffers!AddRingBufSpace(1)
  BY <1>4, AddSpaceKeeps DEF Buffers!RingQueue!QNext
<1>5. CASE Buffers!ClearRing
  <2>1. /\ r_Pos_' = length_ /\ w_Pos_' = 0 /\ ringHeld' = <<>> /\ ringGiven' = <<>>
        /\ ringTaken' = <<>> /\ UNCHANGED <<length_, buf_>>
    BY <1>5 DEF Buffers!ClearRing
  <2>2. length_ \in Nat \ {0}
    BY RingIs
  <2>3. Buffers!Readable(buf_, length_, 0, length_) = <<>>
    BY <2>2, ResetIsEmpty
  <2>4. Buffers!RingInv'
    BY <2>1, <2>3 DEF Buffers!RingInv, Buffers!LosesOnlyWhenFull, Buffers!IsFull,
       Buffers!EmptyIsReset
  <2>5. Buffers!RingQueue!Clear
    BY <2>1, <2>3 DEF Buffers!RingQueue!Clear
  <2> QED  BY <2>4, <2>5 DEF Buffers!RingQueue!QNext
<1> QED  BY <1>1, <1>2, <1>3, <1>4, <1>5 DEF Buffers!RingNext

\* A piece that is copied behind the first l bytes is behind them.
LEMMA CopiedBehind ==
    ASSUME NEW n \in Nat, NEW S, NEW b, NEW c, NEW d \in Seq(S),
           NEW q \in Seq(S), IsPart(q, b, 0, Len(q)), IsCopy(c, b, n, Len(q), d),
           NEW p \in Seq(S), IsPart(p, c, 0, Len(p)),
           Len(p) = Len(q) + Len(d), Len(p) <= n
    PROVE  p = q \o d
<1>1. PICK m \in Nat, l \in Nat : m = Len(p) /\ l = Len(q) /\ m = l + Len(d) /\ Len(d) \in Nat
  OBVIOUS
<1>2. IsPart(q, b, 0, l) /\ IsCopy(c, b, n, l, d) /\ IsPart(p, c, 0, m) /\ m <= n
  BY <1>1
<1>3. /\ q \o d \in Seq(S) /\ Len(q \o d) = m
      /\ \A i \in 1..m : (q \o d)[i] = IF i <= l THEN q[i] ELSE d[i - l]
  BY <1>1, Joined
<1>4. ASSUME NEW i \in 1..m PROVE p[i] = (q \o d)[i]
  <2>1. i - 1 \in 0..(n - 1) /\ 0 + i - 1 = i - 1 /\ p[i] = c[i - 1]
    BY <1>2 DEF IsPart
  <2>2. CASE i <= l
    <3>1. c[i - 1] = b[i - 1]
      BY <1>2, <2>1, <2>2 DEF IsCopy
    <3>2. q[i] = b[i - 1]
      BY <1>2, <2>1, <2>2 DEF IsPart
    <3> QED  BY <1>3, <2>1, <2>2, <3>1, <3>2
  <2>3. CASE i > l
    <3>1. PICK j \in 1..Len(d) : j = i - l
      <4>1. i - l \in 1..Len(d)
        BY <1>1, <2>3
      <4> QED  BY <4>1
    <3>2. c[i - 1] = d[j]
      <4>1. i - 1 >= l /\ i - 1 < l + Len(d) /\ (i - 1) - l + 1 = j
        BY <1>1, <2>3, <3>1
      <4>2. c[i - 1] = d[(i - 1) - l + 1]
        BY <1>2, <2>1, <4>1 DEF IsCopy
      <4> QED  BY <4>1, <4>2
    <3>3. (q \o d)[i] = d[j]
      BY <1>3, <2>3, <3>1, SMTT(40)
    <3> QED  BY <2>1, <3>2, <3>3
  <2>4. i <= l \/ i > l
    OBVIOUS
  <2> QED  BY <2>2, <2>3, <2>4
<1> QED  BY <1>1, <1>3, <1>4, SameSequence

\* push_data: the piece is behind what was there.
LEMMA PushDataPushes ==
    ASSUME Buffers!CacheInv, NEW d \in Buffers!Pieces, Buffers!PushData(d)
    PROVE  Buffers!CacheInv' /\ Buffers!CacheQueue!Push(d)
<1> DEFINE n == nbytes
           l == length
           m == l + Len(d)
           q == Buffers!CopyFrom(bytes, 0, l)
           S == Bytes \cup {0}
<1>1. n \in Nat /\ l \in 0..n /\ l \in Nat /\ bytes \in [0..(n - 1) -> S] /\ 0 \in Nat
  BY DEF Buffers!CacheInv
<1>2. d \in Seq(S) /\ Len(d) \in Nat
  BY PieceIs
<1>3. length' = m /\ cacheGiven' = d /\ cacheTaken' = <<>> /\ m \in Nat
  BY <1>1, <1>2 DEF Buffers!PushData
<1> HIDE DEF n, l, m, q, S
<1>4. q \in Seq(S) /\ IsPart(q, bytes, 0, l)
  <2>1. 0 + l <= n
    BY <1>1
  <2> QED  BY <1>1, <2>1, CopyFromIs DEF q
<1>5. ASSUME NEW k \in Nat, nbytes' = k, NEW b \in [0..(k - 1) -> S], IsPart(q, b, 0, l),
             bytes' = Buffers!CopyTo(b, l, d), m <= k
      PROVE  Buffers!CacheInv' /\ Buffers!CacheQueue!Push(d)
  <2>1. PICK c \in [0..(k - 1) -> S] : c = Buffers!CopyTo(b, l, d) /\ IsCopy(c, b, k, l, d)
    BY <1>1, <1>2, <1>5, CopyToIs
  <2>2. m = l + Len(d)
    BY DEF m
  <2>a. PICK p \in Seq(S) : p = Buffers!CopyFrom(c, 0, m) /\ IsPart(p, c, 0, m)
    <3>1. 0 + m <= k
      BY <1>3, <1>5
    <3> QED  BY <1>1, <1>3, <3>1, CopyFromIs
  <2>b. Len(p) = m /\ Len(q) = l
    BY <1>4, <2>a DEF IsPart
  <2>c. /\ Len(p) = Len(q) + Len(d) /\ Len(p) <= k
        /\ IsPart(q, b, 0, Len(q)) /\ IsCopy(c, b, k, Len(q), d) /\ IsPart(p, c, 0, Len(p))
    BY <1>5, <2>1, <2>2, <2>a, <2>b
  <2>3. p = q \o d
    <3>1. d \in Seq(S) /\ q \in Seq(S)
      BY <1>2, <1>4
    <3> QED  BY <2>c, <3>1, CopiedBehind, ZenonT(40)
  <2>4. Buffers!CacheInv'
    BY <1>3, <1>5, <2>1 DEF Buffers!CacheInv, S
  <2>5. Buffers!CacheQueue!Push(d)
    BY <1>3, <1>5, <2>1, <2>3, <2>a DEF Buffers!CacheQueue!Push, q, l
  <2> QED  BY <2>4, <2>5
<1>6. CASE Buffers!PushInPlace(d)
  <2>1. nbytes' = n /\ bytes' = Buffers!CopyTo(bytes, l, d) /\ m <= n
    BY <1>6 DEF Buffers!PushInPlace, n, l, m
  <2> QED  BY <1>1, <1>4, <1>5, <2>1
<1>7. CASE Buffers!PushGrow(d)
  <2>1. PICK k : /\ k = m + Slack /\ nbytes' = k
                 /\ bytes' = Buffers!CopyTo(Buffers!CopyTo(Buffers!Fresh(k), 0, q), l, d)
    BY <1>7 DEF Buffers!PushGrow, m, l, q
  <2>2. k \in Nat /\ m <= k /\ l <= k
    BY <1>1, <1>2, <1>3, <2>1, BuffersAssumption DEF Buffers!LengthsAssumption, m
  <2>3. PICK f \in [0..(k - 1) -> S] : f = Buffers!Fresh(k)
    BY DEF Buffers!Fresh, S
  <2>4. PICK b \in [0..(k - 1) -> S] : b = Buffers!CopyTo(f, 0, q) /\ IsCopy(b, f, k, 0, q)
    BY <1>1, <1>4, <2>2, CopyToIs
  <2>5. IsPart(q, b, 0, l)
    <3>1. Len(q) = l
      BY <1>4 DEF IsPart
    <3>2. ASSUME NEW i \in 1..l PROVE q[i] = b[0 + i - 1]
      <4>1. /\ i - 1 \in 0..(k - 1) /\ i - 1 >= 0 /\ i - 1 < 0 + Len(q)
            /\ 0 + i - 1 = i - 1 /\ (i - 1) - 0 + 1 = i
        BY <1>1, <2>2, <3>1
      <4>2. b[i - 1] = q[(i - 1) - 0 + 1]
        BY <2>4, <4>1 DEF IsCopy
      <4> QED  BY <4>1, <4>2
    <3> QED  BY <3>1, <3>2 DEF IsPart
  <2> QED  BY <1>5, <2>1, <2>2, <2>3, <2>4, <2>5
<1> QED  BY <1>6, <1>7 DEF Buffers!PushData

\* pop_data: what is taken is the beginning, and the rest is moved to the front.
LEMMA PopDataPops ==
    ASSUME Buffers!CacheInv, NEW k \in 1..MaxPush, Buffers!PopData(k)
    PROVE  /\ Buffers!CacheInv'
           /\ k \in 0..Len(Buffers!CopyFrom(bytes, 0, length)) /\ Buffers!CacheQueue!Pop(k)
<1> DEFINE n == nbytes
           l == length
           q == Buffers!CopyFrom(bytes, 0, l)
           S == Bytes \cup {0}
<1>1. n \in Nat /\ l \in 0..n /\ l \in Nat /\ bytes \in [0..(n - 1) -> S] /\ 0 \in Nat
  BY DEF Buffers!CacheInv
<1>2. PICK m \in Nat : m = l - k /\ k <= l /\ k \in Nat
  BY <1>1 DEF Buffers!PopData
<1>3. /\ length' = m /\ cacheGiven' = <<>> /\ cacheTaken' = Buffers!CopyFrom(bytes, 0, k)
      /\ bytes' = Buffers!CopyTo(bytes, 0, Buffers!CopyFrom(bytes, k, m)) /\ nbytes' = n
  BY <1>2 DEF Buffers!PopData
<1> HIDE DEF n, l, q, S
<1>4. /\ 0 + l <= n /\ 0 + k <= n /\ k + m <= n /\ 0 + m <= n
      /\ k + m = l /\ k \in Nat /\ m <= n
  BY <1>1, <1>2
<1>5. q \in Seq(S) /\ IsPart(q, bytes, 0, l)
  BY <1>1, <1>4, CopyFromIs DEF q
<1>6. PICK t \in Seq(S) : t = Buffers!CopyFrom(bytes, 0, k) /\ IsPart(t, bytes, 0, k)
  BY <1>1, <1>4, CopyFromIs
<1>7. PICK s \in Seq(S) : s = Buffers!CopyFrom(bytes, k, m) /\ IsPart(s, bytes, k, m)
  BY <1>1, <1>4, CopyFromIs
<1>8. PICK b \in [0..(n - 1) -> S] : b = Buffers!CopyTo(bytes, 0, s) /\ IsCopy(b, bytes, n, 0, s)
  BY <1>1, CopyToIs
<1>9. PICK p \in Seq(S) : p = Buffers!CopyFrom(b, 0, m) /\ IsPart(p, b, 0, m)
  BY <1>1, <1>4, CopyFromIs
<1>10. Len(q) = l /\ Len(t) = k /\ Len(s) = m /\ Len(p) = m
  BY <1>5, <1>6, <1>7, <1>9 DEF IsPart
<1>11. k \in 0..Len(q)
  BY <1>1, <1>2, <1>10
<1>12. t = SubSeq(q, 1, k)
  <2>a. q \in Seq(S) /\ k \in 0..Len(q)
    BY <1>5, <1>11
  <2>b. /\ SubSeq(q, 1, k) \in Seq(S) /\ Len(SubSeq(q, 1, k)) = k
        /\ \A i \in 1..k : SubSeq(q, 1, k)[i] = q[i]
    BY <2>a, CutFirst
  <2>1. PICK x \in Seq(S) :
           x = SubSeq(q, 1, k) /\ Len(x) = k /\ \A i \in 1..k : x[i] = q[i]
    BY <2>b
  <2>2. ASSUME NEW i \in 1..k PROVE t[i] = x[i]
    <3>1. i \in 1..l
      BY <1>1, <1>2
    <3> QED  BY <1>5, <1>6, <2>1, <3>1 DEF IsPart
  <2> QED  BY <1>10, <2>1, <2>2, SameSequence
<1>13. p = SubSeq(q, k + 1, Len(q))
  <2>a. q \in Seq(S) /\ k \in 0..Len(q)
    BY <1>5, <1>11
  <2>b. /\ SubSeq(q, k + 1, Len(q)) \in Seq(S)
        /\ Len(SubSeq(q, k + 1, Len(q))) = Len(q) - k
        /\ \A i \in 1..(Len(q) - k) : SubSeq(q, k + 1, Len(q))[i] = q[i + k]
    BY <2>a, CutRest
  <2>1. PICK x \in Seq(S) :
           /\ x = SubSeq(q, k + 1, Len(q)) /\ Len(x) = Len(q) - k
           /\ \A i \in 1..(Len(q) - k) : x[i] = q[i + k]
    BY <2>b
  <2>2. Len(x) = m /\ \A i \in 1..m : x[i] = q[i + k]
    BY <1>2, <1>10, <2>1
  <2>3. ASSUME NEW i \in 1..m PROVE p[i] = x[i]
    <3>1. /\ i + k \in 1..l /\ i - 1 \in 0..(n - 1) /\ 0 + (i + k) - 1 = k + i - 1
          /\ i - 1 >= 0 /\ i - 1 < 0 + Len(s) /\ 0 + i - 1 = i - 1 /\ (i - 1) - 0 + 1 = i
      BY <1>1, <1>2, <1>4, <1>10
    <3>2. p[i] = b[i - 1]
      BY <1>9, <3>1 DEF IsPart
    <3>3. b[i - 1] = s[i]
      BY <1>8, <3>1 DEF IsCopy
    <3>4. s[i] = bytes[k + i - 1]
      BY <1>7 DEF IsPart
    <3>5. q[i + k] = bytes[k + i - 1]
      BY <1>5, <3>1 DEF IsPart
    <3> QED  BY <2>2, <3>2, <3>3, <3>4, <3>5
  <2> QED  BY <1>10, <2>1, <2>2, <2>3, SameSequence
<1>14. Buffers!CacheInv'
  BY <1>1, <1>3, <1>4, <1>7, <1>8 DEF Buffers!CacheInv, S
<1>15. Buffers!CacheQueue!Pop(k)
  BY <1>3, <1>6, <1>7, <1>8, <1>9, <1>12, <1>13 DEF Buffers!CacheQueue!Pop, q, l
<1> QED  BY <1>11, <1>14, <1>15 DEF q, l

\* Each step of the cache is one of the queue.
LEMMA CacheStep ==
    ASSUME Buffers!CacheInv, Buffers!CacheNext
    PROVE  Buffers!CacheInv' /\ Buffers!CacheQueue!QNext
<1>1. Buffers!Pieces = Buffers!CacheQueue!Pieces
  BY DEF Buffers!Pieces, Buffers!CacheQueue!Pieces
<1>2. ASSUME NEW d \in Buffers!Pieces, Buffers!PushData(d)
      PROVE  Buffers!CacheInv' /\ Buffers!CacheQueue!QNext
  BY <1>1, <1>2, PushDataPushes DEF Buffers!CacheQueue!QNext
<1>3. ASSUME NEW k \in 1..MaxPush, Buffers!PopData(k)
      PROVE  Buffers!CacheInv' /\ Buffers!CacheQueue!QNext
  BY <1>3, PopDataPops DEF Buffers!CacheQueue!QNext
<1> QED  BY <1>2, <1>3 DEF Buffers!CacheNext

\* The buffers are empty in the beginning.
LEMMA BuffersInit ==
    Buffers!Init => /\ Buffers!RingInv /\ Buffers!CacheInv
                    /\ Buffers!RingQueue!QInit /\ Buffers!CacheQueue!QInit
<1> SUFFICES ASSUME Buffers!Init
             PROVE  /\ Buffers!RingInv /\ Buffers!CacheInv
                    /\ Buffers!RingQueue!QInit /\ Buffers!CacheQueue!QInit
  OBVIOUS
<1>1. RingLen \in Nat \ {0} /\ CacheLen \in Nat
  BY BuffersAssumption DEF Buffers!LengthsAssumption
<1>2. /\ length_ = RingLen /\ buf_ = Buffers!Fresh(RingLen) /\ r_Pos_ = RingLen /\ w_Pos_ = 0
      /\ ringGiven = <<>> /\ ringTaken = <<>> /\ ringHeld = <<>>
      /\ nbytes = CacheLen /\ bytes = Buffers!Fresh(CacheLen) /\ length = 0
      /\ cacheGiven = <<>> /\ cacheTaken = <<>>
  BY DEF Buffers!Init
<1>3. Buffers!Readable(buf_, RingLen, 0, RingLen) = <<>>
  BY <1>1, ResetIsEmpty
<1>4. Buffers!RingInv
  <2>1. buf_ \in [0..(RingLen - 1) -> Bytes \cup {0}]
    BY <1>2 DEF Buffers!Fresh
  <2> QED  BY <1>1, <1>2, <1>3, <2>1 DEF Buffers!RingInv, Buffers!LosesOnlyWhenFull,
              Buffers!IsFull, Buffers!EmptyIsReset
<1>5. Buffers!CacheInv
  BY <1>1, <1>2 DEF Buffers!CacheInv, Buffers!Fresh
<1>6. Buffers!RingQueue!QInit
  BY <1>2, <1>3 DEF Buffers!RingQueue!QInit
<1>7. Buffers!CacheQueue!QInit
  BY <1>2 DEF Buffers!CacheQueue!QInit, Buffers!CopyFrom
<1> QED  BY <1>4, <1>5, <1>6, <1>7

\* DataRingBuf and DataCacheBuf implement ByteQueue, whatever their lengths and
\* those of the pieces (DataBuf.cc): what comes out is what went in, in order,
\* but for what a ring loses when it is filled; and a ring's positions meet only
\* then, while an empty ring takes any piece up to its length.
THEOREM BuffersAreQueues == MCSpec => BuffersImplementQueues
<1> DEFINE ringQueue == <<Buffers!Readable(buf_, r_Pos_, w_Pos_, length_), ringGiven, ringTaken>>
           cacheQueue == <<Buffers!CopyFrom(bytes, 0, length), cacheGiven, cacheTaken>>
<1>1. MCInit => /\ Buffers!RingInv /\ Buffers!CacheInv
                /\ Buffers!RingQueue!QInit /\ Buffers!CacheQueue!QInit
  BY BuffersInit DEF MCInit
<1>2. Buffers!RingInv /\ [MCNext]_all => Buffers!RingInv' /\ [Buffers!RingQueue!QNext]_ringQueue
  <2>1. [MCNext]_all => Buffers!RingNext \/ UNCHANGED ring
    BY DEF MCNext, all
  <2>2. Buffers!RingInv /\ UNCHANGED ring => Buffers!RingInv' /\ UNCHANGED ringQueue
    BY DEF ring, Buffers!RingInv, Buffers!LosesOnlyWhenFull, Buffers!IsFull,
       Buffers!EmptyIsReset
  <2> QED  BY <2>1, <2>2, RingStep
<1>3. Buffers!CacheInv /\ [MCNext]_all
        => Buffers!CacheInv' /\ [Buffers!CacheQueue!QNext]_cacheQueue
  <2>1. [MCNext]_all => Buffers!CacheNext \/ UNCHANGED cache
    BY DEF MCNext, all
  <2>2. Buffers!CacheInv /\ UNCHANGED cache => Buffers!CacheInv' /\ UNCHANGED cacheQueue
    BY DEF cache, Buffers!CacheInv
  <2> QED  BY <2>1, <2>2, CacheStep
<1>4. Buffers!RingInv => Buffers!LosesOnlyWhenFull /\ Buffers!EmptyIsReset
  BY DEF Buffers!RingInv
<1>5. MCSpec => MCInit /\ [][MCNext]_all
  BY DEF MCSpec
<1> QED  BY <1>1, <1>2, <1>3, <1>4, <1>5, PTL DEF BuffersImplementQueues,
            Buffers!RingImplementsQueue, Buffers!CacheImplementsQueue,
            Buffers!RingQueue!QSpec, Buffers!CacheQueue!QSpec
-----------------------------------------------------------------------------
(* HttpClient *)

\* The bound as a number.
LEMMA ClientBound == ResponsePieces \in Nat /\ 1 <= ResponsePieces
BY HttpAssumption DEF Client!MaxPiecesAssumption

\* What is in front of a sequence, and behind it.
LEMMA Behind ==
    ASSUME NEW S, NEW s \in Seq(S), NEW t \in Seq(S)
    PROVE  /\ s \o t \in Seq(S) /\ Len(s \o t) = Len(s) + Len(t)
           /\ \A i \in 1..Len(s) : (s \o t)[i] = s[i]
           /\ \A i \in 1..Len(t) : (s \o t)[Len(s) + i] = t[i]
OBVIOUS

\* A part of a sequence, element by element.
LEMMA CutOut ==
    ASSUME NEW S, NEW s \in Seq(S), NEW j \in Nat, NEW k \in Nat, j <= k, k <= Len(s)
    PROVE  /\ SubSeq(s, j + 1, k) \in Seq(S) /\ Len(SubSeq(s, j + 1, k)) = k - j
           /\ \A i \in 1..k - j : SubSeq(s, j + 1, k)[i] = s[j + i]
OBVIOUS

LEMMA SeqElement ==
    ASSUME NEW S, NEW s \in Seq(S), NEW i \in 1..Len(s)
    PROVE  s[i] \in S
OBVIOUS

\* One element is a sequence, and so is none.
LEMMA Single ==
    ASSUME NEW S, NEW x \in S
    PROVE  /\ <<x>> \in Seq(S) /\ Len(<<x>>) = 1 /\ \A i \in 1..1 : <<x>>[i] = x
           /\ <<>> \in Seq(S) /\ Len(<<>>) = 0
OBVIOUS

\* Four sequences, one behind the other.
LEMMA FourParts ==
    ASSUME NEW S, NEW a \in Seq(S), NEW b \in Seq(S), NEW c \in Seq(S), NEW d \in Seq(S)
    PROVE  /\ a \o b \o c \o d \in Seq(S)
           /\ Len(a \o b \o c \o d) = Len(a) + Len(b) + Len(c) + Len(d)
           /\ \A i \in 1..Len(a) : (a \o b \o c \o d)[i] = a[i]
           /\ \A i \in 1..Len(b) : (a \o b \o c \o d)[Len(a) + i] = b[i]
           /\ \A i \in 1..Len(c) : (a \o b \o c \o d)[Len(a) + Len(b) + i] = c[i]
           /\ \A i \in 1..Len(d) : (a \o b \o c \o d)[Len(a) + Len(b) + Len(c) + i] = d[i]
<1>1. PICK u \in Seq(S) :
        /\ u = a \o b /\ Len(u) = Len(a) + Len(b)
        /\ \A i \in 1..Len(a) : u[i] = a[i]
        /\ \A i \in 1..Len(b) : u[Len(a) + i] = b[i]
  <2>1. /\ a \o b \in Seq(S) /\ Len(a \o b) = Len(a) + Len(b)
        /\ \A i \in 1..Len(a) : (a \o b)[i] = a[i]
        /\ \A i \in 1..Len(b) : (a \o b)[Len(a) + i] = b[i]
    BY Behind
  <2> QED  BY <2>1
<1>2. PICK v \in Seq(S) :
        /\ v = u \o c /\ Len(v) = Len(u) + Len(c)
        /\ \A i \in 1..Len(u) : v[i] = u[i]
        /\ \A i \in 1..Len(c) : v[Len(u) + i] = c[i]
  <2>1. /\ u \o c \in Seq(S) /\ Len(u \o c) = Len(u) + Len(c)
        /\ \A i \in 1..Len(u) : (u \o c)[i] = u[i]
        /\ \A i \in 1..Len(c) : (u \o c)[Len(u) + i] = c[i]
    BY Behind
  <2> QED  BY <2>1
<1>3. PICK w \in Seq(S) :
        /\ w = v \o d /\ Len(w) = Len(v) + Len(d)
        /\ \A i \in 1..Len(v) : w[i] = v[i]
        /\ \A i \in 1..Len(d) : w[Len(v) + i] = d[i]
  <2>1. /\ v \o d \in Seq(S) /\ Len(v \o d) = Len(v) + Len(d)
        /\ \A i \in 1..Len(v) : (v \o d)[i] = v[i]
        /\ \A i \in 1..Len(d) : (v \o d)[Len(v) + i] = d[i]
    BY Behind
  <2> QED  BY <2>1
<1>4. w = a \o b \o c \o d
  BY <1>1, <1>2, <1>3
<1>5. Len(a) \in Nat /\ Len(b) \in Nat /\ Len(c) \in Nat /\ Len(d) \in Nat
  OBVIOUS
<1>6. \A i \in 1..Len(a) : w[i] = a[i]
  BY <1>1, <1>2, <1>3, <1>5
<1>7. \A i \in 1..Len(b) : w[Len(a) + i] = b[i]
  BY <1>1, <1>2, <1>3, <1>5
<1>8. \A i \in 1..Len(c) : w[Len(a) + Len(b) + i] = c[i]
  BY <1>1, <1>2, <1>3, <1>5
<1>9. \A i \in 1..Len(d) : w[Len(a) + Len(b) + Len(c) + i] = d[i]
  BY <1>1, <1>2, <1>3, <1>5
<1>10. Len(w) = Len(a) + Len(b) + Len(c) + Len(d)
  BY <1>1, <1>2, <1>3
<1> QED  BY <1>4, <1>6, <1>7, <1>8, <1>9, <1>10

\* The tokens of a response, one by one.
LEMMA ResponseTokens ==
    ASSUME response \in Client!Responses
    PROVE  \E n \in 0..ResponsePieces : \E c \in 0..1 : \E d \in 0..1 :
             /\ n = response.pieces
             /\ c = (IF response.framing = "chunked" THEN 1 ELSE 0)
             /\ d = (IF response.blank THEN 1 ELSE 0)
             /\ Client!Tokens \in Seq(0..ResponsePieces + 2)
             /\ Len(Client!Tokens) = 1 + n + c + d
             /\ Client!Tokens[1] = 0
             /\ \A i \in 1..n : Client!Tokens[1 + i] = i
             /\ \A i \in 1..c : Client!Tokens[1 + n + i] = ResponsePieces + 1
             /\ \A i \in 1..d : Client!Tokens[1 + n + c + i] = ResponsePieces + 2
<1>1. PICK n \in 0..ResponsePieces : n = response.pieces
  BY DEF Client!Responses
<1>2. PICK S : S = 0..ResponsePieces + 2
  OBVIOUS
<1>3. PICK a \in Seq(S) : a = <<0>> /\ Len(a) = 1 /\ a[1] = 0
  <2>1. 0 \in S
    BY <1>2, ClientBound
  <2>2. <<0>> \in Seq(S) /\ Len(<<0>>) = 1 /\ <<0>>[1] = 0
    BY <2>1, Single
  <2> QED  BY <2>2
<1>4. PICK b \in Seq(S) : b = Client!Body /\ Len(b) = n /\ \A i \in 1..n : b[i] = i
  <2> DEFINE e(i) == i
  <2>1. n \in Nat /\ \A i \in 1..n : e(i) \in S
    BY <1>2, ClientBound
  <2>2. [i \in 1..n |-> e(i)] \in Seq(S)
    BY <2>1
  <2>3. Client!Body = [i \in 1..n |-> e(i)]
    BY <1>1 DEF Client!Body
  <2> QED  BY <2>1, <2>2, <2>3
<1>5. PICK c \in Seq(S) :
        /\ c = (IF response.framing = "chunked" THEN <<ResponsePieces + 1>> ELSE <<>>)
        /\ Len(c) = (IF response.framing = "chunked" THEN 1 ELSE 0)
        /\ \A i \in 1..Len(c) : c[i] = ResponsePieces + 1
  <2>1. ResponsePieces + 1 \in S
    BY <1>2, ClientBound
  <2>2. PICK one \in Seq(S) : one = <<ResponsePieces + 1>> /\ Len(one) = 1 /\ \A i \in 1..1 : one[i] = ResponsePieces + 1
    <3>1. <<ResponsePieces + 1>> \in Seq(S) /\ Len(<<ResponsePieces + 1>>) = 1 /\ \A i \in 1..1 : <<ResponsePieces + 1>>[i] = ResponsePieces + 1
      BY <2>1, Single
    <3> QED  BY ONLY <3>1
  <2>3. PICK none \in Seq(S) : none = <<>> /\ Len(none) = 0
    BY Single, <2>1
  <2>4. CASE response.framing = "chunked"
    BY ONLY <2>2, <2>4
  <2>5. CASE response.framing # "chunked"
    <3>1. \A i \in 1..Len(none) : none[i] = ResponsePieces + 1
      BY <2>3
    <3>2. (IF response.framing = "chunked" THEN <<ResponsePieces + 1>> ELSE <<>>) = none
      BY ONLY <2>3, <2>5
    <3>3. (IF response.framing = "chunked" THEN 1 ELSE 0) = Len(none)
      BY ONLY <2>3, <2>5
    <3> QED  BY ONLY <3>1, <3>2, <3>3
  <2> QED  BY <2>4, <2>5
<1>6. PICK d \in Seq(S) :
        /\ d = (IF response.blank THEN <<ResponsePieces + 2>> ELSE <<>>)
        /\ Len(d) = (IF response.blank THEN 1 ELSE 0)
        /\ \A i \in 1..Len(d) : d[i] = ResponsePieces + 2
  <2>1. ResponsePieces + 2 \in S
    BY <1>2, ClientBound
  <2>2. PICK one \in Seq(S) : one = <<ResponsePieces + 2>> /\ Len(one) = 1 /\ \A i \in 1..1 : one[i] = ResponsePieces + 2
    <3>1. <<ResponsePieces + 2>> \in Seq(S) /\ Len(<<ResponsePieces + 2>>) = 1 /\ \A i \in 1..1 : <<ResponsePieces + 2>>[i] = ResponsePieces + 2
      BY <2>1, Single
    <3> QED  BY ONLY <3>1
  <2>3. PICK none \in Seq(S) : none = <<>> /\ Len(none) = 0
    BY Single, <2>1
  <2>4. CASE response.blank
    BY ONLY <2>2, <2>4
  <2>5. CASE ~response.blank
    <3>1. \A i \in 1..Len(none) : none[i] = ResponsePieces + 2
      BY <2>3
    <3>2. (IF response.blank THEN <<ResponsePieces + 2>> ELSE <<>>) = none
      BY ONLY <2>3, <2>5
    <3>3. (IF response.blank THEN 1 ELSE 0) = Len(none)
      BY ONLY <2>3, <2>5
    <3> QED  BY ONLY <3>1, <3>2, <3>3
  <2> QED  BY <2>4, <2>5
<1>7. Client!Tokens = a \o b \o c \o d
  BY <1>3, <1>4, <1>5, <1>6 DEF Client!Tokens, Client!Header, Client!LastChunk, Client!Blank
<1>8. PICK w \in Seq(S) :
        /\ w = Client!Tokens /\ Len(w) = Len(a) + Len(b) + Len(c) + Len(d)
        /\ \A i \in 1..Len(a) : w[i] = a[i]
        /\ \A i \in 1..Len(b) : w[Len(a) + i] = b[i]
        /\ \A i \in 1..Len(c) : w[Len(a) + Len(b) + i] = c[i]
        /\ \A i \in 1..Len(d) : w[Len(a) + Len(b) + Len(c) + i] = d[i]
  <2>1. /\ a \o b \o c \o d \in Seq(S)
        /\ Len(a \o b \o c \o d) = Len(a) + Len(b) + Len(c) + Len(d)
        /\ \A i \in 1..Len(a) : (a \o b \o c \o d)[i] = a[i]
        /\ \A i \in 1..Len(b) : (a \o b \o c \o d)[Len(a) + i] = b[i]
        /\ \A i \in 1..Len(c) : (a \o b \o c \o d)[Len(a) + Len(b) + i] = c[i]
        /\ \A i \in 1..Len(d) : (a \o b \o c \o d)[Len(a) + Len(b) + Len(c) + i] = d[i]
    BY <1>3, <1>4, <1>5, <1>6, FourParts
  <2> QED  BY ONLY <1>7, <2>1
<1>9. Len(c) \in 0..1 /\ Len(d) \in 0..1
  BY <1>5, <1>6
<1>10. Len(w) = 1 + n + Len(c) + Len(d) /\ w[1] = 0
  BY <1>3, <1>4, <1>8
<1>11. \A i \in 1..n : w[1 + i] = i
  BY <1>3, <1>4, <1>8
<1>12. \A i \in 1..Len(c) : w[1 + n + i] = ResponsePieces + 1
  BY <1>3, <1>4, <1>5, <1>8
<1>13. \A i \in 1..Len(d) : w[1 + n + Len(c) + i] = ResponsePieces + 2
  BY <1>3, <1>4, <1>6, <1>8, ZenonT(60)
<1>14. WITNESS n \in 0..ResponsePieces
<1>15. WITNESS Len(c) \in 0..1
<1>16. WITNESS Len(d) \in 0..1
<1> QED  BY <1>1, <1>2, <1>5, <1>6, <1>8, <1>10, <1>11, <1>12, <1>13

\* What the next token is, and what there is with it.
LEMMA NextToken ==
    ASSUME response \in Client!Responses, NEW r \in Nat, r < Len(Client!Tokens),
           NEW t, t = Client!Tokens[r + 1]
    PROVE  /\ Client!PiecesIn(r) \in 0..response.pieces
           /\ Client!IsPiece(t) =>
                /\ t = Client!PiecesIn(r) + 1 /\ t \in 1..ResponsePieces
                /\ Client!PiecesIn(r + 1) = Client!PiecesIn(r) + 1
           /\ ~Client!IsPiece(t) => Client!PiecesIn(r + 1) = Client!PiecesIn(r)
           /\ ~Client!IsPiece(t) /\ r = response.pieces => r = 0
           /\ Client!EndsIn(r + 1) <=> Client!EndsIn(r) \/ Client!Ends(t)
<1>1. PICK n \in 0..ResponsePieces, c \in 0..1, d \in 0..1 :
        /\ n = response.pieces
        /\ c = (IF response.framing = "chunked" THEN 1 ELSE 0)
        /\ Len(Client!Tokens) = 1 + n + c + d
        /\ Client!Tokens[1] = 0
        /\ \A i \in 1..n : Client!Tokens[1 + i] = i
        /\ \A i \in 1..c : Client!Tokens[1 + n + i] = ResponsePieces + 1
        /\ \A i \in 1..d : Client!Tokens[1 + n + c + i] = ResponsePieces + 2
  BY ResponseTokens
<1>2. n \in Nat /\ ResponsePieces \in Nat /\ n <= ResponsePieces
  BY ClientBound
<1>3. PICK q \in 0..n : q = Client!PiecesIn(r) /\ q = IF r = 0 THEN 0 ELSE IF r <= n THEN r - 1 ELSE n
  <2>1. (IF r = 0 THEN 0 ELSE IF r <= n THEN r - 1 ELSE n) \in 0..n
    BY <1>2
  <2>2. Client!PiecesIn(r) = IF r = 0 THEN 0 ELSE IF r <= n THEN r - 1 ELSE n
    BY <1>1 DEF Client!PiecesIn
  <2> QED  BY <2>1, <2>2
<1>4. Client!PiecesIn(r + 1) = IF r + 1 <= n THEN r ELSE n
  <2>1. r + 1 # 0 /\ (r + 1) - 1 = r
    OBVIOUS
  <2> QED  BY <1>1, <2>1 DEF Client!PiecesIn
<1>5. Client!IsPiece(t) <=> t \in 1..ResponsePieces
  BY DEF Client!IsPiece
<1>6. /\ Client!EndsIn(r) <=> \/ c = 1 /\ r > n + 1
                              \/ response.framing = "length" /\ r > n
      /\ Client!EndsIn(r + 1) <=> \/ c = 1 /\ r > n
                                  \/ response.framing = "length" /\ r + 1 > n
      /\ Client!Ends(t) <=> \/ c = 1 /\ t = ResponsePieces + 1
                            \/ response.framing = "length" /\ t = n
  <2>1. c = 1 <=> response.framing = "chunked"
    BY <1>1
  <2>2. r + 1 > n + 1 <=> r > n
    BY <1>2
  <2> QED  BY <1>1, <2>1, <2>2 DEF Client!EndsIn, Client!Ends, Client!LastChunk
<1>7. c = 1 => response.framing # "length"
  BY <1>1
<1> HIDE DEF Client!PiecesIn, Client!EndsIn, Client!Ends
<1>8. CASE r = 0
  <2>1. t = 0
    BY <1>1, <1>8
  <2> QED  BY <1>1, <1>2, <1>3, <1>4, <1>5, <1>6, <1>8, <2>1
<1>9. CASE r \in 1..n
  <2>1. t = r
    BY <1>1, <1>9
  <2> QED  BY <1>1, <1>2, <1>3, <1>4, <1>5, <1>6, <1>9, <2>1
<1>10. CASE r = n + 1 /\ c = 1
  <2>1. t = ResponsePieces + 1
    <3>1. 1 \in 1..c /\ r + 1 = 1 + n + 1
      BY <1>2, <1>10
    <3> QED  BY <1>1, <3>1
  <2>2. q = n /\ Client!PiecesIn(r + 1) = n
    BY <1>2, <1>3, <1>4, <1>10
  <2>3. ~Client!IsPiece(t)
    BY <1>2, <1>5, <2>1
  <2>4. Client!EndsIn(r + 1) /\ Client!Ends(t)
    BY <1>2, <1>6, <1>10, <2>1
  <2>5. Client!EndsIn(r + 1) <=> Client!EndsIn(r) \/ Client!Ends(t)
    BY ONLY <2>4
  <2>6. ~(r = response.pieces)
    BY <1>1, <1>2, <1>10
  <2>7. Client!PiecesIn(r) \in 0..response.pieces /\ Client!PiecesIn(r + 1) = Client!PiecesIn(r)
    BY <1>1, <1>3, <2>2
  <2> QED  BY ONLY <2>3, <2>5, <2>6, <2>7
<1>11. CASE r > n /\ r # 0 /\ ~(r = n + 1 /\ c = 1)
  <2>1. t = ResponsePieces + 2
    <3>1. r \in Nat /\ n \in Nat /\ c \in 0..1 /\ d \in 0..1 /\ r < 1 + n + c + d /\ r > n
          /\ ~(r = n + 1 /\ c = 1)
      BY <1>1, <1>2, <1>11
    <3>2. d = 1 /\ r + 1 = 1 + n + c + 1
      BY ONLY <3>1
    <3>3. 1 \in 1..d
      BY <3>2
    <3> QED  BY ONLY <1>1, <3>2, <3>3, t = Client!Tokens[r + 1]
  <2>2. c = 1 => r > n + 1
    BY <1>2, <1>11
  <2> QED  BY <1>1, <1>2, <1>3, <1>4, <1>5, <1>6, <1>7, <1>11, <2>1, <2>2, SMTT(40)
<1> QED  BY <1>2, <1>8, <1>9, <1>10, <1>11
\* How many pieces there are among the first tokens, and when they end it.
LEMMA PiecesBound ==
    ASSUME response \in Client!Responses, NEW r \in Nat
    PROVE  /\ response.pieces \in Nat /\ response.pieces <= ResponsePieces
           /\ Client!PiecesIn(r) \in 0..response.pieces
           /\ Client!PiecesIn(0) = 0 /\ ~Client!EndsIn(0)
           /\ Client!EndsIn(r) => Client!PiecesIn(r) = response.pieces
           /\ Client!EndsIn(r) => response.framing # "eof"
           /\ Client!EndsIn(r) /\ response.framing # "chunked" => r > response.pieces
           /\ response.framing # "chunked" => ~Client!EndsIn(response.pieces)
<1>1. PICK n \in Nat : n = response.pieces /\ n <= ResponsePieces
  BY ClientBound DEF Client!Responses
<1>2. (IF r = 0 THEN 0 ELSE IF r <= n THEN r - 1 ELSE n) \in 0..n
  OBVIOUS
<1>3. Client!PiecesIn(r) = (IF r = 0 THEN 0 ELSE IF r <= n THEN r - 1 ELSE n)
  BY <1>1 DEF Client!PiecesIn
<1>4. Client!PiecesIn(0) = 0
  BY DEF Client!PiecesIn
<1>5. ~Client!EndsIn(0)
  BY <1>1 DEF Client!EndsIn
<1>6. Client!EndsIn(r) => r > n /\ r # 0
  BY <1>1 DEF Client!EndsIn
<1>7. Client!EndsIn(r) => Client!PiecesIn(r) = n
  BY <1>3, <1>6
<1>8. Client!EndsIn(r) => response.framing # "eof"
  BY DEF Client!EndsIn
<1>9. response.framing # "chunked" => ~Client!EndsIn(n)
  BY <1>1 DEF Client!EndsIn
<1>10. Client!PiecesIn(r) \in 0..response.pieces
  BY <1>1, <1>2, <1>3
<1> QED  BY ONLY <1>1, <1>4, <1>5, <1>6, <1>7, <1>8, <1>9, <1>10

\* Nothing a step leaves of the response changes what is said of it.
LEMMA SameResponse ==
    ASSUME response' = response
    PROVE  /\ Client!Tokens' = Client!Tokens /\ Client!Body' = Client!Body
           /\ \A r : Client!PiecesIn(r)' = Client!PiecesIn(r)
           /\ \A r : Client!EndsIn(r)' <=> Client!EndsIn(r)
<1>1. Client!Tokens' = Client!Tokens /\ Client!Body' = Client!Body
  BY DEF Client!Tokens, Client!Body, Client!Header, Client!LastChunk, Client!Blank
<1>2. \A r : Client!PiecesIn(r)' = Client!PiecesIn(r)
  BY DEF Client!PiecesIn
<1>3. \A r : Client!EndsIn(r)' <=> Client!EndsIn(r)
  BY DEF Client!EndsIn
<1> QED  BY ONLY <1>1, <1>2, <1>3

LEMMA ClientStarts == Client!Init => Client!ClientInv
<1> SUFFICES ASSUME Client!Init PROVE Client!ClientInv
  OBVIOUS
<1> USE DEF Client!Init
<1>1. response \in Client!Responses
  OBVIOUS
<1>2. Client!TokensRead = 0 /\ Client!TokensLeft = 0
  BY DEF Client!TokensRead, Client!TokensLeft
<1>3. Len(Client!Tokens) \in Nat
  BY <1>1, ResponseTokens
<1>4. Client!PiecesRead = 0 /\ ~Client!EndsIn(0)
  BY <1>1, <1>2, PiecesBound DEF Client!PiecesRead
<1>5. Client!TypesInv
  BY <1>1 DEF Client!TypesInv
<1>6. Client!StreamInv
  <2>1. Client!TokensRead \in 0..Len(Client!Tokens)
    BY <1>2, <1>3
  <2>2. \A i \in 1..Len(cWire) : cWire[i] = Client!Tokens[Client!TokensRead + i]
    OBVIOUS
  <2> QED  BY <1>2, <2>1, <2>2 DEF Client!StreamInv
<1>7. Client!ParserInv
  BY <1>2, <1>4 DEF Client!ParserInv
<1>8. Client!DeliveredInv
  BY DEF Client!DeliveredInv, Client!PartOfBody, Client!StaleNeedsTail
<1>9. Client!WholeInv
  BY <1>2, <1>4 DEF Client!WholeInv
<1> QED  BY <1>5, <1>6, <1>7, <1>8, <1>9 DEF Client!ClientInv

\* A step that changes no more than the state of the connection.
LEMMA ClientStatus ==
    ASSUME Client!ClientInv,
           status' \in {"new", "connecting", "requested", "refused", "closing", "deleted"},
           response' = response, cWire' = cWire, answered' = answered, cAhead' = cAhead,
           parser' = parser, segments' = segments, delivered' = delivered, stale' = stale,
           cDisorder' = cDisorder
    PROVE  Client!ClientInv'
<1>1. Client!TypesInv'
  BY DEF Client!ClientInv, Client!TypesInv, Client!Responses
<1>2. /\ Client!TokensRead' = Client!TokensRead /\ Client!TokensLeft' = Client!TokensLeft
      /\ Client!PiecesRead' = Client!PiecesRead
      /\ Client!EndsIn(Client!TokensRead)' <=> Client!EndsIn(Client!TokensRead)
  BY SameResponse DEF Client!TokensRead, Client!TokensLeft, Client!PiecesRead, Client!EndsIn, Client!PiecesIn
<1>3. Client!Tokens' = Client!Tokens /\ Client!Body' = Client!Body
  BY SameResponse
<1>4. Client!StreamInv'
  BY <1>2, <1>3 DEF Client!ClientInv, Client!StreamInv
<1>5. Client!ParserInv'
  BY <1>2 DEF Client!ClientInv, Client!ParserInv
<1>6. Client!DeliveredInv'
  BY <1>3 DEF Client!ClientInv, Client!DeliveredInv, Client!PartOfBody, Client!StaleNeedsTail
<1>7. Client!WholeInv'
  BY <1>2, <1>3 DEF Client!ClientInv, Client!WholeInv, Client!IsPiece
<1> QED  BY <1>1, <1>4, <1>5, <1>6, <1>7 DEF Client!ClientInv

\* The answer is on the wire, and none of it has been read.
LEMMA ClientAnswer == Client!ClientInv /\ Client!Answer => Client!ClientInv'
<1> SUFFICES ASSUME Client!ClientInv, Client!Answer PROVE Client!ClientInv'
  OBVIOUS
<1>1. /\ response \in Client!Responses /\ response' = response /\ ~answered /\ answered'
      /\ cWire = <<>> /\ cWire' = Client!Tokens
      /\ cAhead' = cAhead /\ parser' = parser /\ segments' = segments
      /\ delivered' = delivered /\ stale' = stale /\ cDisorder' = cDisorder /\ status' = status
  BY DEF Client!ClientInv, Client!TypesInv, Client!StreamInv, Client!Answer
<1>2. /\ Client!Tokens \in Seq(0..ResponsePieces + 2)
      /\ Len(Client!Tokens) \in Nat /\ Len(Client!Tokens) > 0
  BY <1>1, ResponseTokens
<1>3. Client!Tokens' = Client!Tokens /\ Client!Body' = Client!Body
  BY <1>1, SameResponse
<1>4. /\ Client!TokensRead = 0 /\ Client!TokensRead' = 0
      /\ cAhead \in 0..1 /\ Client!TokensLeft = 0 /\ Client!TokensLeft' = 0
      /\ Client!PiecesRead' = Client!PiecesRead
      /\ Client!EndsIn(Client!TokensRead)' <=> Client!EndsIn(Client!TokensRead)
  <2>1. Client!TokensRead = 0
    BY <1>1 DEF Client!TokensRead
  <2>2. Client!TokensRead' = 0
    BY <1>1, <1>2, <1>3 DEF Client!TokensRead
  <2>3. cAhead \in 0..1
    BY <1>1 DEF Client!ClientInv, Client!TypesInv
  <2>4. Client!TokensLeft = 0 /\ Client!TokensLeft' = 0
    BY <1>1, <2>3 DEF Client!TokensLeft
  <2>5. Client!PiecesRead' = Client!PiecesRead
    BY <1>1, <2>1, <2>2 DEF Client!PiecesRead, Client!PiecesIn
  <2>6. Client!EndsIn(Client!TokensRead)' <=> Client!EndsIn(Client!TokensRead)
    BY <1>1, <2>1, <2>2 DEF Client!EndsIn
  <2> QED  BY ONLY <2>1, <2>2, <2>3, <2>4, <2>5, <2>6
<1>5. Client!TypesInv'
  <2>1. cAhead' \in 0..Len(cWire') + 1
    BY <1>1, <1>2, <1>4
  <2> QED  BY <1>1, <1>2, <2>1 DEF Client!ClientInv, Client!TypesInv, Client!Responses
<1>6. Client!StreamInv'
  <2>1. \A i \in 1..Len(Client!Tokens) : Client!Tokens[i] = Client!Tokens[0 + i]
    BY <1>2
  <2>2. segments <= 0
    BY <1>4 DEF Client!ClientInv, Client!StreamInv
  <2> QED  BY <1>1, <1>2, <1>3, <1>4, <2>1, <2>2 DEF Client!StreamInv
<1>7. Client!ParserInv'
  <2>1. cWire' # <<>>
    BY <1>1, <1>2
  <2> QED  BY <1>1, <1>4, <2>1 DEF Client!ClientInv, Client!ParserInv
<1>8. Client!DeliveredInv'
  BY <1>1, <1>3 DEF Client!ClientInv, Client!DeliveredInv, Client!PartOfBody, Client!StaleNeedsTail
<1>9. Client!WholeInv'
  BY <1>1, <1>3, <1>4 DEF Client!ClientInv, Client!WholeInv
<1> QED  BY <1>5, <1>6, <1>7, <1>8, <1>9 DEF Client!ClientInv

\* A segment has nothing that was not on the wire, and disorder is noted.
LEMMA ClientOnMessage ==
    ASSUME Client!ClientInv, NEW n \in 1..Len(cWire), Client!OnMessage(n)
    PROVE  Client!ClientInv'
<1>1. /\ response \in Client!Responses /\ response' = response /\ answered' = answered
      /\ cWire' = cWire /\ cAhead = 0 /\ cAhead' = n + 1 /\ segments' = segments + 1
      /\ parser' = [parser EXCEPT !.open = FALSE]
      /\ delivered' = delivered /\ stale' = stale /\ status' = status
  BY DEF Client!ClientInv, Client!TypesInv, Client!OnMessage
<1>2. /\ parser'.body = parser.body /\ parser'.body_start = parser.body_start
      /\ parser'.headerComplete = parser.headerComplete /\ ~parser'.open
      /\ parser' \in [body_start : Nat, body : Seq(1..ResponsePieces),
                      headerComplete : BOOLEAN, open : BOOLEAN]
  BY <1>1 DEF Client!ClientInv, Client!TypesInv
<1>3. Client!Tokens' = Client!Tokens /\ Client!Body' = Client!Body
  BY <1>1, SameResponse
<1>4. n \in Nat /\ Len(cWire) \in Nat /\ segments \in Nat /\ cWire # <<>>
  BY DEF Client!ClientInv, Client!TypesInv
<1>5. /\ Client!TokensRead' = Client!TokensRead
      /\ Client!TokensLeft = 0 /\ Client!TokensLeft' = n
      /\ Client!PiecesRead' = Client!PiecesRead
      /\ Client!EndsIn(Client!TokensRead)' <=> Client!EndsIn(Client!TokensRead)
  <2>1. Client!TokensRead' = Client!TokensRead
    BY <1>1, <1>3 DEF Client!TokensRead
  <2>2. Client!TokensLeft = 0 /\ Client!TokensLeft' = n
    BY <1>1, <1>4 DEF Client!TokensLeft
  <2>3. Client!PiecesRead' = Client!PiecesRead
    BY <1>1, <2>1 DEF Client!PiecesRead, Client!PiecesIn
  <2>4. Client!EndsIn(Client!TokensRead)' <=> Client!EndsIn(Client!TokensRead)
    BY <1>1, <2>1 DEF Client!EndsIn
  <2> QED  BY ONLY <2>1, <2>2, <2>3, <2>4
<1>6. /\ cDisorder' = {} => cDisorder = {} /\ ~parser.headerComplete
      /\ cDisorder' = {} /\ parser.body # <<>> => \A i \in 1..n : ~Client!IsPiece(cWire[i])
      /\ cDisorder' = {} /\ response.framing = "chunked" =>
           \A i, j \in 1..n : i < j => ~(Client!IsPiece(cWire[i]) /\ Client!IsPiece(cWire[j]))
      /\ cDisorder' \subseteq {"after_end", "body_cut"}
  BY DEF Client!ClientInv, Client!TypesInv, Client!OnMessage
<1>7. Client!TypesInv'
  <2>1. cAhead' \in 0..Len(cWire') + 1
    BY <1>1, <1>4
  <2>2. parser'.body_start <= segments' /\ segments' \in Nat
    BY <1>1, <1>2, <1>4 DEF Client!ClientInv, Client!TypesInv
  <2> QED  BY <1>1, <1>2, <1>6, <2>1, <2>2 DEF Client!ClientInv, Client!TypesInv, Client!Responses
<1>8. Client!StreamInv'
  <2>1. segments' <= Client!TokensRead + n
    BY <1>1, <1>4, <1>5 DEF Client!ClientInv, Client!StreamInv
  <2> QED  BY <1>1, <1>3, <1>5, <2>1 DEF Client!ClientInv, Client!StreamInv
<1>9. Client!ParserInv'
  BY <1>1, <1>2, <1>4, <1>5 DEF Client!ClientInv, Client!ParserInv
<1>10. Client!DeliveredInv'
  BY <1>1, <1>2, <1>3 DEF Client!ClientInv, Client!DeliveredInv, Client!PartOfBody, Client!StaleNeedsTail
<1>11. Client!WholeInv'
  <2> SUFFICES ASSUME cDisorder' = {} PROVE Client!WholeInv'
    BY DEF Client!WholeInv
  <2>1. delivered' = <<>>
    BY <1>1, <1>6 DEF Client!ClientInv, Client!DeliveredInv
  <2>2. Len(parser'.body) = Client!PiecesRead'
    BY <1>2, <1>5, <1>6 DEF Client!ClientInv, Client!WholeInv
  <2>3. parser'.body # <<>> => \A i \in 1..Client!TokensLeft' : ~Client!IsPiece(cWire'[i])
    BY <1>1, <1>2, <1>5, <1>6
  <2>4. response'.framing = "chunked" =>
          \A i, j \in 1..Client!TokensLeft' :
            i < j => ~(Client!IsPiece(cWire'[i]) /\ Client!IsPiece(cWire'[j]))
    BY <1>1, <1>5, <1>6
  <2> QED  BY <2>1, <2>2, <2>3, <2>4 DEF Client!WholeInv, Client!IsPiece
<1> QED  BY <1>7, <1>8, <1>9, <1>10, <1>11 DEF Client!ClientInv

\* The next token of the segment: a piece is appended to what the parser has,
\* or takes its place, which without disorder is empty.
LEMMA ClientExecute == Client!ClientInv /\ Client!Execute => Client!ClientInv'
<1> SUFFICES ASSUME Client!ClientInv, Client!Execute PROVE Client!ClientInv'
  OBVIOUS
<1>1. /\ response \in Client!Responses /\ response' = response /\ answered' = answered
      /\ cWire \in Seq(0..ResponsePieces + 2) /\ cWire # <<>> /\ answered
      /\ cAhead \in Nat /\ cAhead > 1 /\ cAhead - 1 <= Len(cWire) /\ cAhead' = cAhead - 1
      /\ cWire' = Tail(cWire) /\ segments' = segments /\ segments \in Nat
      /\ delivered' = delivered /\ stale' = stale /\ status' = status /\ cDisorder' = cDisorder
  BY DEF Client!ClientInv, Client!TypesInv, Client!StreamInv, Client!Execute
<1>2. /\ Len(cWire) \in Nat /\ Len(cWire) >= 1 /\ Head(cWire) = cWire[1]
      /\ cWire' \in Seq(0..ResponsePieces + 2) /\ Len(cWire') = Len(cWire) - 1
      /\ \A i \in 1..Len(cWire') : cWire'[i] = cWire[i + 1]
  BY <1>1
<1>3. /\ Client!Tokens' = Client!Tokens /\ Client!Body' = Client!Body
      /\ Len(Client!Tokens) \in Nat
  BY <1>1, SameResponse, ResponseTokens
<1>4. PICK r \in Nat :
        /\ r = Client!TokensRead /\ r = Len(Client!Tokens) - Len(cWire)
        /\ \A i \in 1..Len(cWire) : cWire[i] = Client!Tokens[r + i]
  <2>1. Client!TokensRead = Len(Client!Tokens) - Len(cWire)
    BY <1>1 DEF Client!TokensRead
  <2>2. /\ Client!TokensRead \in 0..Len(Client!Tokens)
        /\ \A i \in 1..Len(cWire) : cWire[i] = Client!Tokens[Client!TokensRead + i]
    BY DEF Client!ClientInv, Client!StreamInv
  <2>3. Client!TokensRead \in Nat
    BY ONLY <1>3, <2>2
  <2> QED  BY ONLY <2>1, <2>2, <2>3
<1>5. PICK t : t = cWire[1] /\ t = Client!Tokens[r + 1] /\ t \in 0..ResponsePieces + 2
  <2>1. 1 \in 1..Len(cWire)
    BY <1>2
  <2>2. cWire[1] = Client!Tokens[r + 1] /\ cWire[1] \in 0..ResponsePieces + 2
    <3>1. cWire[1] = Client!Tokens[r + 1]
      BY ONLY <1>4, <2>1
    <3>2. cWire[1] \in 0..ResponsePieces + 2
      BY <1>1, <2>1, SeqElement
    <3> QED  BY ONLY <3>1, <3>2
  <2> QED  BY ONLY <2>2
<1>6. PICK q \in Nat : q = Client!PiecesIn(r) /\ q = Client!PiecesRead /\ q <= response.pieces
  <2>1. Client!PiecesRead = Client!PiecesIn(r)
    BY <1>4 DEF Client!PiecesRead
  <2>2. Client!PiecesIn(r) \in 0..response.pieces /\ response.pieces \in Nat
    BY <1>1, <1>4, PiecesBound
  <2>3. Client!PiecesIn(r) \in Nat /\ Client!PiecesIn(r) <= response.pieces
    BY ONLY <2>2
  <2> QED  BY ONLY <2>1, <2>3
<1>7. /\ Client!IsPiece(t) =>
           t = q + 1 /\ t \in 1..ResponsePieces /\ Client!PiecesIn(r + 1) = q + 1
      /\ ~Client!IsPiece(t) => Client!PiecesIn(r + 1) = q
      /\ ~Client!IsPiece(t) /\ r = response.pieces => r = 0
      /\ Client!EndsIn(r + 1) <=> Client!EndsIn(r) \/ Client!Ends(t)
  <2>1. r < Len(Client!Tokens)
    BY <1>2, <1>3, <1>4
  <2> QED  BY <1>1, <1>4, <1>5, <1>6, <2>1, NextToken
<1>8. PICK left \in Nat :
        Client!TokensLeft = left + 1 /\ Client!TokensLeft' = left /\ left + 1 <= Len(cWire)
  <2>1. Client!TokensLeft = cAhead - 1
    BY <1>1 DEF Client!TokensLeft
  <2>2. Client!TokensLeft' = cAhead - 2
    BY <1>1 DEF Client!TokensLeft
  <2> QED  BY <1>1, <2>1, <2>2
<1>9. Client!TokensRead' = r + 1
  BY <1>1, <1>2, <1>3, <1>4 DEF Client!TokensRead
<1>10. /\ Client!PiecesRead' = Client!PiecesIn(r + 1)
       /\ Client!EndsIn(Client!TokensRead)' <=> Client!EndsIn(r + 1)
  BY <1>1, <1>9 DEF Client!PiecesRead, Client!PiecesIn, Client!EndsIn
<1>11. /\ parser.body \in Seq(1..ResponsePieces) /\ Len(parser.body) <= q
       /\ \A i \in 1..Len(parser.body) : parser.body[i] = q - Len(parser.body) + i
       /\ q > 0 => parser.body # <<>>
       /\ parser.headerComplete <=> Client!EndsIn(r)
       /\ parser.headerComplete \in BOOLEAN /\ parser.open \in BOOLEAN
       /\ parser.body_start \in Nat /\ parser.body_start <= segments
  BY <1>4, <1>6 DEF Client!ClientInv, Client!TypesInv, Client!ParserInv
<1>12. cDisorder = {} =>
         /\ Len(parser.body) = q /\ delivered = <<>>
         /\ parser.body # <<>> /\ (response.framing = "chunked" \/ ~parser.open) =>
              \A i \in 1..left + 1 : ~Client!IsPiece(cWire[i])
         /\ response.framing = "chunked" =>
              \A i, j \in 1..left + 1 : i < j => ~(Client!IsPiece(cWire[i]) /\ Client!IsPiece(cWire[j]))
  BY <1>1, <1>6, <1>8 DEF Client!ClientInv, Client!WholeInv
<1>13. /\ parser' \in [body_start : Nat, body : Seq(1..ResponsePieces),
                       headerComplete : BOOLEAN, open : BOOLEAN]
       /\ parser'.body_start <= segments
       /\ parser'.headerComplete <=> Client!EndsIn(r + 1)
       /\ parser.headerComplete => parser'.headerComplete
       /\ Client!IsPiece(t) =>
            /\ parser'.open /\ parser'.body_start = segments
            /\ parser'.body = IF parser.open /\ response.framing # "chunked"
                              THEN Append(parser.body, t) ELSE <<t>>
       /\ ~Client!IsPiece(t) =>
            /\ parser'.open = parser.open /\ parser'.body = parser.body
  <2>1. PICK b :
          /\ b = IF Client!IsPiece(t) THEN Client!OnBody(parser, t) ELSE parser
          /\ b \in [body_start : Nat, body : Seq(1..ResponsePieces),
                    headerComplete : BOOLEAN, open : BOOLEAN]
          /\ b.body_start <= segments /\ b.headerComplete = parser.headerComplete
          /\ Client!IsPiece(t) =>
               /\ b.open /\ b.body_start = segments
               /\ b.body = IF parser.open /\ response.framing # "chunked"
                           THEN Append(parser.body, t) ELSE <<t>>
          /\ ~Client!IsPiece(t) => b.open = parser.open /\ b.body = parser.body
    <3>1. parser \in [body_start : Nat, body : Seq(1..ResponsePieces),
                      headerComplete : BOOLEAN, open : BOOLEAN]
      BY DEF Client!ClientInv, Client!TypesInv
    <3>2. CASE ~Client!IsPiece(t)
      BY <1>11, <3>1, <3>2
    <3>3. CASE Client!IsPiece(t)
      <4>1. PICK e \in Seq(1..ResponsePieces) :
              e = IF parser.open /\ response.framing # "chunked"
                  THEN Append(parser.body, t) ELSE <<t>>
        <5>1. Append(parser.body, t) \in Seq(1..ResponsePieces)
          BY <1>7, <1>11, <3>3
        <5>2. <<t>> \in Seq(1..ResponsePieces)
          BY <1>7, <3>3
        <5> QED  BY <5>1, <5>2
      <4>2. Client!OnBody(parser, t) =
              [parser EXCEPT !.body_start = segments, !.body = e, !.open = TRUE]
        BY <4>1 DEF Client!OnBody
      <4>3. /\ Client!OnBody(parser, t) \in
                 [body_start : Nat, body : Seq(1..ResponsePieces),
                  headerComplete : BOOLEAN, open : BOOLEAN]
            /\ Client!OnBody(parser, t).open /\ Client!OnBody(parser, t).body_start = segments
            /\ Client!OnBody(parser, t).body = e
            /\ Client!OnBody(parser, t).headerComplete = parser.headerComplete
        BY <1>1, <3>1, <4>2
      <4>4. PICK o :
              /\ o = Client!OnBody(parser, t)
              /\ o \in [body_start : Nat, body : Seq(1..ResponsePieces),
                        headerComplete : BOOLEAN, open : BOOLEAN]
              /\ o.open /\ o.body_start = segments /\ o.body = e
              /\ o.headerComplete = parser.headerComplete
        BY ONLY <4>3
      <4>5. (IF Client!IsPiece(t) THEN Client!OnBody(parser, t) ELSE parser) = o
        BY ONLY <3>3, <4>4
      <4>6. segments <= segments
        BY <1>1
      <4> QED  BY ONLY <3>3, <4>1, <4>4, <4>5, <4>6
    <3> QED  BY <3>2, <3>3
  <2>2. parser' = IF Client!Ends(t) THEN [b EXCEPT !.headerComplete = TRUE] ELSE b
    BY <1>2, <1>5, <2>1 DEF Client!Execute, Client!OnToken
  <2>3. CASE Client!Ends(t)
    BY <1>7, <1>11, <2>1, <2>2, <2>3
  <2>4. CASE ~Client!Ends(t)
    BY <1>7, <1>11, <2>1, <2>2, <2>4
  <2> QED  BY <2>3, <2>4
<1>14. PICK p \in Nat :
         /\ p = Client!PiecesRead'
         /\ Len(parser'.body) <= p
         /\ \A i \in 1..Len(parser'.body) : parser'.body[i] = p - Len(parser'.body) + i
         /\ p > 0 => parser'.body # <<>>
         /\ cDisorder = {} => Len(parser'.body) = p
         /\ Client!IsPiece(t) => parser'.body_start = segments
         /\ ~Client!IsPiece(t) => p = q
  <2>1. CASE ~Client!IsPiece(t)
    BY <1>7, <1>10, <1>11, <1>12, <1>13, <2>1
  <2>2. CASE Client!IsPiece(t) /\ parser.open /\ response.framing # "chunked"
    <3>1. parser'.body = Append(parser.body, t) /\ Client!PiecesRead' = q + 1 /\ t = q + 1
      BY <1>7, <1>10, <1>13, <2>2
    <3>2. /\ Len(Append(parser.body, t)) = Len(parser.body) + 1
          /\ \A i \in 1..Len(parser.body) : Append(parser.body, t)[i] = parser.body[i]
          /\ Append(parser.body, t)[Len(parser.body) + 1] = t
          /\ Append(parser.body, t) # <<>> /\ Len(parser.body) \in Nat
      BY <1>7, <1>11, <2>2
    <3>3. PICK k \in Nat : k = Len(parser.body) /\ k <= q /\ (cDisorder = {} => k = q)
      BY <1>11, <1>12, <3>2
    <3>4. ASSUME NEW i \in 1..k + 1
          PROVE  Append(parser.body, t)[i] = (q + 1) - (k + 1) + i
      <4>1. CASE i \in 1..k
        <5>1. Append(parser.body, t)[i] = q - k + i
          BY <1>11, <3>2, <3>3, <4>1
        <5> QED  BY <3>3, <5>1
      <4>2. CASE i = k + 1
        <5>1. Append(parser.body, t)[i] = q + 1
          BY ONLY <3>1, <3>2, <3>3, <4>2
        <5>2. (q + 1) - (k + 1) + i = q + 1
          BY <4>2
        <5> QED  BY ONLY <5>1, <5>2
      <4>3. i \in 1..k \/ i = k + 1
        BY <3>3
      <4> QED  BY ONLY <4>1, <4>2, <4>3
    <3>5. /\ Len(parser'.body) = k + 1 /\ k + 1 <= q + 1 /\ parser'.body # <<>>
          /\ \A i \in 1..k + 1 : parser'.body[i] = (q + 1) - (k + 1) + i
          /\ cDisorder = {} => k + 1 = q + 1
      <4>1. Len(parser'.body) = k + 1 /\ parser'.body # <<>>
        BY ONLY <3>1, <3>2, <3>3
      <4>2. \A i \in 1..k + 1 : parser'.body[i] = (q + 1) - (k + 1) + i
        BY ONLY <3>1, <3>4
      <4>3. k + 1 <= q + 1 /\ (cDisorder = {} => k + 1 = q + 1)
        BY ONLY <3>3, <1>6
      <4> QED  BY ONLY <4>1, <4>2, <4>3
    <3>6. q + 1 \in Nat
      OBVIOUS
    <3> QED  BY ONLY <1>13, <2>2, <3>1, <3>5, <3>6
  <2>3. CASE Client!IsPiece(t) /\ (~parser.open \/ response.framing = "chunked")
    <3>1. parser'.body = <<t>> /\ Client!PiecesRead' = q + 1 /\ t = q + 1
      BY <1>7, <1>10, <1>13, <2>3
    <3>2. Len(<<t>>) = 1 /\ <<t>> # <<>> /\ \A i \in 1..1 : <<t>>[i] = (q + 1) - 1 + i
      BY <3>1
    <3>3. cDisorder = {} => q = 0
      <4>1. 1 \in 1..left + 1
        BY <1>8
      <4> SUFFICES ASSUME cDisorder = {}, q # 0 PROVE FALSE
        OBVIOUS
      <4>2. parser.body # <<>>
        BY <1>11
      <4>3. \A i \in 1..left + 1 : ~Client!IsPiece(cWire[i])
        BY <1>12, <2>3, <4>2
      <4> QED  BY ONLY <1>5, <2>3, <4>1, <4>3
    <3> QED  BY <1>13, <2>3, <3>1, <3>2, <3>3
  <2> QED  BY <2>1, <2>2, <2>3
<1>15. Client!TypesInv'
  <2>1. cAhead' \in 0..Len(cWire') + 1
    BY <1>1, <1>2
  <2> QED  BY <1>1, <1>2, <1>13, <2>1 DEF Client!ClientInv, Client!TypesInv, Client!Responses
<1>16. Client!StreamInv'
  <2>1. r + 1 \in 0..Len(Client!Tokens)
    BY <1>2, <1>3, <1>4
  <2>2. \A i \in 1..Len(cWire') : cWire'[i] = Client!Tokens[r + 1 + i]
    <3> SUFFICES ASSUME NEW i \in 1..Len(cWire') PROVE cWire'[i] = Client!Tokens[r + 1 + i]
      OBVIOUS
    <3>1. i + 1 \in 1..Len(cWire) /\ r + (i + 1) = r + 1 + i
      BY <1>2
    <3> QED  BY <1>2, <1>4, <3>1
  <2>3. segments <= r + 1 + left
    BY <1>1, <1>4, <1>8 DEF Client!ClientInv, Client!StreamInv
  <2> QED  BY <1>1, <1>3, <1>8, <1>9, <2>1, <2>2, <2>3 DEF Client!StreamInv
<1>17. Client!ParserInv'
  <2>1. response.framing # "chunked" /\ ~response.blank /\ cWire' = <<>> /\ p > 0 =>
          parser'.body_start = segments
    <3> SUFFICES ASSUME response.framing # "chunked", ~response.blank, cWire' = <<>>, p > 0,
                        ~Client!IsPiece(t)
                 PROVE  FALSE
      BY <1>14
    <3>1. Len(Client!Tokens) = 1 + response.pieces
      BY <1>1, ResponseTokens
    <3>2. r = response.pieces
      <4>1. response.pieces \in Nat
        BY <1>1, <1>4, PiecesBound
      <4>2. Len(cWire) = 1
        BY <1>2
      <4> QED  BY ONLY <1>4, <3>1, <4>1, <4>2
    <3>3. q = 0
      BY <1>1, <1>6, <1>7, <3>2, PiecesBound
    <3> QED  BY <1>14, <3>3
  <2> QED  BY <1>1, <1>10, <1>13, <1>14, <2>1 DEF Client!ParserInv
<1>18. Client!DeliveredInv'
  BY <1>1, <1>3, <1>13 DEF Client!ClientInv, Client!DeliveredInv, Client!PartOfBody, Client!StaleNeedsTail
<1>19. Client!WholeInv'
  <2> SUFFICES ASSUME cDisorder = {} PROVE Client!WholeInv'
    BY <1>1 DEF Client!WholeInv
  <2>1. delivered' = <<>>
    BY <1>1, <1>12
  <2>2. \A i \in 1..left : cWire'[i] = cWire[i + 1] /\ i + 1 \in 1..left + 1 /\ 1 < i + 1
    BY <1>2, <1>8
  <2>3. parser'.body # <<>> /\ (response'.framing = "chunked" \/ ~parser'.open) =>
          \A i \in 1..left : ~Client!IsPiece(cWire'[i])
    <3>1. CASE ~Client!IsPiece(t)
      BY <1>1, <1>12, <1>13, <2>2, <3>1
    <3>2. CASE Client!IsPiece(t) /\ response.framing = "chunked"
      <4>1. 1 \in 1..left + 1
        BY <1>8
      <4> QED  BY <1>5, <1>12, <2>2, <3>2, <4>1
    <3>3. CASE Client!IsPiece(t) /\ response.framing # "chunked"
      BY <1>1, <1>13, <3>3
    <3> QED  BY <3>1, <3>2, <3>3
  <2>4. response'.framing = "chunked" =>
          \A i, j \in 1..left : i < j => ~(Client!IsPiece(cWire'[i]) /\ Client!IsPiece(cWire'[j]))
    <3> SUFFICES ASSUME response.framing = "chunked", NEW i \in 1..left, NEW j \in 1..left, i < j
                 PROVE  ~(Client!IsPiece(cWire'[i]) /\ Client!IsPiece(cWire'[j]))
      BY <1>1
    <3>1. i + 1 < j + 1
      OBVIOUS
    <3> QED  BY <1>12, <2>2, <3>1
  <2> QED  BY <1>8, <1>14, <2>1, <2>3, <2>4 DEF Client!WholeInv, Client!IsPiece
<1> QED  BY <1>15, <1>16, <1>17, <1>18, <1>19 DEF Client!ClientInv

\* What is handed up is what the parser has, a part of the body, and without
\* disorder all of it.
LEMMA ClientDeliver == Client!ClientInv /\ Client!Deliver => Client!ClientInv'
<1> SUFFICES ASSUME Client!ClientInv, Client!Deliver PROVE Client!ClientInv'
  OBVIOUS
<1>1. /\ response \in Client!Responses /\ response' = response /\ answered' = answered
      /\ cWire' = cWire /\ cAhead = 1 /\ cAhead' = 0 /\ parser' = parser
      /\ segments' = segments /\ status' = status /\ cDisorder' = cDisorder
  BY DEF Client!ClientInv, Client!TypesInv, Client!Deliver
<1>2. /\ Client!Tokens' = Client!Tokens /\ Client!Body' = Client!Body
      /\ Len(Client!Tokens) \in Nat /\ Len(cWire) \in Nat
      /\ \A i \in 1..response.pieces : Client!Body[i] = i
      /\ Client!Body \in Seq(Nat) /\ Len(Client!Body) = response.pieces
      /\ response.pieces \in Nat
  <2>1. Client!Tokens' = Client!Tokens /\ Client!Body' = Client!Body /\ Len(Client!Tokens) \in Nat
    BY <1>1, SameResponse, ResponseTokens
  <2>2. Len(cWire) \in Nat
    BY DEF Client!ClientInv, Client!TypesInv
  <2>3. PICK n \in Nat : n = response.pieces
    BY <1>1, PiecesBound
  <2> DEFINE e(i) == i
  <2>4. [i \in 1..n |-> e(i)] \in Seq(Nat)
    BY <2>3
  <2>5. Client!Body = [i \in 1..n |-> e(i)]
    BY <2>3 DEF Client!Body
  <2>6. /\ \A i \in 1..n : Client!Body[i] = i
        /\ Client!Body \in Seq(Nat) /\ Len(Client!Body) = n
    BY <2>4, <2>5
  <2> QED  BY <2>1, <2>2, <2>3, <2>6
<1>3. /\ Client!TokensRead' = Client!TokensRead
      /\ Client!TokensLeft = 0 /\ Client!TokensLeft' = 0
      /\ Client!PiecesRead' = Client!PiecesRead
      /\ Client!EndsIn(Client!TokensRead)' <=> Client!EndsIn(Client!TokensRead)
  <2>1. Client!TokensRead' = Client!TokensRead
    BY <1>1, <1>2 DEF Client!TokensRead
  <2>2. Client!TokensLeft = 0 /\ Client!TokensLeft' = 0
    BY <1>1 DEF Client!TokensLeft
  <2>3. Client!PiecesRead' = Client!PiecesRead
    BY <1>1, <2>1 DEF Client!PiecesRead, Client!PiecesIn
  <2>4. Client!EndsIn(Client!TokensRead)' <=> Client!EndsIn(Client!TokensRead)
    BY <1>1, <2>1 DEF Client!EndsIn
  <2> QED  BY ONLY <2>1, <2>2, <2>3, <2>4
<1>4. Client!StreamInv'
  BY <1>1, <1>2, <1>3 DEF Client!ClientInv, Client!StreamInv
<1>5. Client!ParserInv'
  BY <1>1, <1>3 DEF Client!ClientInv, Client!ParserInv
<1>6. delivered \in Seq(Seq(1..ResponsePieces)) /\ parser.body \in Seq(1..ResponsePieces)
  BY DEF Client!ClientInv, Client!TypesInv
<1>7. CASE ~(parser.headerComplete /\ parser.body # <<>>)
  <2>1. delivered' = delivered /\ stale' = stale
    BY <1>7 DEF Client!Deliver
  <2>2. Client!TypesInv'
    BY <1>1, <1>2, <2>1 DEF Client!ClientInv, Client!TypesInv, Client!Responses
  <2>3. Client!DeliveredInv'
    BY <1>1, <1>2, <2>1 DEF Client!ClientInv, Client!DeliveredInv, Client!PartOfBody, Client!StaleNeedsTail
  <2>4. Client!WholeInv'
    BY <1>1, <1>2, <1>3, <2>1 DEF Client!ClientInv, Client!WholeInv
  <2> QED  BY <1>4, <1>5, <2>2, <2>3, <2>4 DEF Client!ClientInv
<1>8. CASE parser.headerComplete /\ parser.body # <<>>
  <2>1. delivered' = Append(delivered, parser.body) /\ stale' = (parser.body_start # segments)
    BY <1>8 DEF Client!Deliver
  <2>2. PICK r \in Nat : r = Client!TokensRead /\ r <= Len(Client!Tokens)
    BY <1>2 DEF Client!ClientInv, Client!StreamInv
  <2>3. /\ Client!EndsIn(r) /\ Client!PiecesRead = response.pieces
        /\ response.framing # "chunked" => r > response.pieces
    BY <1>1, <1>8, <2>2, PiecesBound DEF Client!ClientInv, Client!ParserInv, Client!PiecesRead
  <2>4. PICK m \in Nat :
          /\ m = Len(parser.body) /\ m > 0 /\ m <= response.pieces
          /\ \A i \in 1..m : parser.body[i] = response.pieces - m + i
          /\ cDisorder = {} => m = response.pieces
    <3>1. /\ Len(parser.body) <= Client!PiecesRead
          /\ \A i \in 1..Len(parser.body) : parser.body[i] = Client!PiecesRead - Len(parser.body) + i
          /\ cDisorder = {} => Len(parser.body) = Client!PiecesRead
      BY DEF Client!ClientInv, Client!ParserInv, Client!WholeInv
    <3>2. Len(parser.body) \in Nat /\ Len(parser.body) > 0
      BY <1>6, <1>8
    <3> QED  BY ONLY <2>3, <3>1, <3>2
  <2>5. Client!TypesInv'
    <3>1. delivered' \in Seq(Seq(1..ResponsePieces))
      BY <1>6, <2>1
    <3>2. cAhead' \in 0..Len(cWire') + 1
      BY <1>1, <1>2
    <3> QED  BY <1>1, <3>1, <3>2 DEF Client!ClientInv, Client!TypesInv, Client!Responses
  <2>6. parser.body = SubSeq(Client!Body, (response.pieces - m) + 1, response.pieces)
    <3>1. PICK j \in Nat : j = response.pieces - m /\ j <= response.pieces
      BY <1>2, <2>4
    <3>2. PICK w \in Seq(Nat) :
            /\ w = SubSeq(Client!Body, j + 1, response.pieces) /\ Len(w) = m
            /\ \A i \in 1..m : w[i] = Client!Body[j + i]
      <4>1. /\ SubSeq(Client!Body, j + 1, response.pieces) \in Seq(Nat)
            /\ Len(SubSeq(Client!Body, j + 1, response.pieces)) = m
            /\ \A i \in 1..m : SubSeq(Client!Body, j + 1, response.pieces)[i] = Client!Body[j + i]
        <5>1. response.pieces - j = m
          BY <1>2, <2>4, <3>1
        <5>2. j \in Nat /\ response.pieces \in Nat /\ j <= response.pieces
          BY <1>2, <3>1
        <5>3. /\ SubSeq(Client!Body, j + 1, response.pieces) \in Seq(Nat)
              /\ Len(SubSeq(Client!Body, j + 1, response.pieces)) = response.pieces - j
              /\ \A i \in 1..response.pieces - j :
                    SubSeq(Client!Body, j + 1, response.pieces)[i] = Client!Body[j + i]
          <6>1. Client!Body \in Seq(Nat) /\ response.pieces <= Len(Client!Body)
            BY <1>2
          <6> QED  BY ONLY <5>2, <6>1, CutOut
        <5> QED  BY ONLY <5>1, <5>3
      <4> QED  BY ONLY <4>1
    <3>3. ASSUME NEW i \in 1..m PROVE w[i] = parser.body[i]
      <4>1. j + i \in 1..response.pieces
        BY <1>2, <2>4, <3>1, SMTT(40)
      <4> QED  BY <1>2, <2>4, <3>1, <3>2, <4>1
    <3>4. w = parser.body
      <4>1. Len(w) = Len(parser.body) /\ \A i \in 1..Len(w) : w[i] = parser.body[i]
        BY <2>4, <3>2, <3>3
      <4> QED  BY <1>6, <3>2, <4>1, SameSequence, ZenonT(60)
    <3> QED  BY <3>1, <3>2, <3>4
  <2>7. Client!PartOfBody'
    <3> SUFFICES ASSUME NEW i \in DOMAIN delivered'
                 PROVE  \E j, k \in 0..response.pieces : delivered'[i] = SubSeq(Client!Body, j + 1, k)
      BY <1>1, <1>2 DEF Client!PartOfBody
    <3>1. CASE i \in DOMAIN delivered
      <4>1. delivered'[i] = delivered[i]
        BY <1>6, <2>1, <3>1
      <4> QED  BY <3>1, <4>1 DEF Client!ClientInv, Client!DeliveredInv, Client!PartOfBody
    <3>2. CASE i \notin DOMAIN delivered
      <4>1. delivered'[i] = parser.body
        BY <1>6, <2>1, <3>2
      <4>2. response.pieces - m \in 0..response.pieces /\ response.pieces \in 0..response.pieces
        BY <1>2, <2>4
      <4> QED  BY ONLY <2>6, <4>1, <4>2
    <3> QED  BY <3>1, <3>2
  <2>8. Client!StaleNeedsTail'
    <3> SUFFICES ASSUME response.framing # "chunked", ~response.blank
                 PROVE  parser.body_start = segments
      BY <1>1, <2>1 DEF Client!StaleNeedsTail
    <3>1. Len(Client!Tokens) = 1 + response.pieces
      BY <1>1, ResponseTokens
    <3>2. r = Len(Client!Tokens)
      BY <1>2, <2>2, <2>3, <3>1
    <3>3. cWire = <<>>
      <4>1. answered
        BY <1>2, <2>2, <3>1, <3>2 DEF Client!TokensRead
      <4>2. Len(cWire) = 0
        BY <1>2, <2>2, <3>2, <4>1 DEF Client!TokensRead
      <4> QED  BY <4>2 DEF Client!ClientInv, Client!TypesInv
    <3> QED  BY <1>2, <2>3, <2>4, <3>3 DEF Client!ClientInv, Client!ParserInv
  <2>9. Client!DeliveredInv'
    BY <1>1, <1>8, <2>7, <2>8 DEF Client!DeliveredInv
  <2>10. Client!WholeInv'
    <3> SUFFICES ASSUME cDisorder = {} PROVE Client!WholeInv'
      BY <1>1 DEF Client!WholeInv
    <3>1. delivered = <<>> /\ Len(parser.body) = Client!PiecesRead
      BY <1>1 DEF Client!ClientInv, Client!WholeInv
    <3>2. parser.body = Client!Body
      <4>1. \A i \in 1..Len(parser.body) : parser.body[i] = Client!Body[i]
        BY <1>2, <2>4, SMTT(40)
      <4>2. Len(parser.body) = Len(Client!Body)
        BY <1>2, <2>4
      <4> QED  BY <1>2, <1>6, <4>1, <4>2, SameSequence
    <3>3. delivered' = <<Client!Body'>>
      BY <1>2, <2>1, <3>1, <3>2
    <3> QED  BY <1>1, <1>3, <3>1, <3>3 DEF Client!WholeInv
  <2> QED  BY <1>4, <1>5, <2>5, <2>9, <2>10 DEF Client!ClientInv
<1> QED  BY <1>7, <1>8

LEMMA ClientSteps == Client!ClientInv /\ [Client!Next]_client => Client!ClientInv'
<1> SUFFICES ASSUME Client!ClientInv, [Client!Next]_client PROVE Client!ClientInv'
  OBVIOUS
<1>1. CASE Client!Request
  BY <1>1, ClientStatus DEF Client!Request
<1>2. CASE Client!OnConnect
  <2>1. status' \in {"new", "connecting", "requested", "refused", "closing", "deleted"}
    BY <1>2 DEF Client!OnConnect
  <2> QED  BY <1>2, <2>1, ClientStatus DEF Client!OnConnect
<1>3. CASE Client!Answer
  BY <1>3, ClientAnswer
<1>4. CASE \E n \in 1..Len(cWire) : Client!OnMessage(n)
  BY <1>4, ClientOnMessage
<1>5. CASE Client!Execute
  BY <1>5, ClientExecute
<1>6. CASE Client!Deliver
  BY <1>6, ClientDeliver
<1>7. CASE Client!OnEof
  BY <1>7, ClientStatus DEF Client!OnEof
<1>8. CASE Client!OnClosed
  BY <1>8, ClientStatus DEF Client!OnClosed
<1>9. CASE UNCHANGED client
  <2>1. status' \in {"new", "connecting", "requested", "refused", "closing", "deleted"}
    BY <1>9 DEF client, Client!ClientInv, Client!TypesInv
  <2> QED  BY <1>9, <2>1, ClientStatus DEF client
<1> QED  BY <1>1, <1>2, <1>3, <1>4, <1>5, <1>6, <1>7, <1>8, <1>9 DEF Client!Next

\* What the invariant says to the user.
LEMMA ClientInvSays ==
    ASSUME Client!ClientInv
    PROVE  /\ Client!TypeOK /\ Client!WholeBodyOnce /\ Client!PartOfBody
           /\ Client!StaleNeedsTail /\ Client!NothingEarly
<1>1. response \in Client!Responses
  BY DEF Client!ClientInv, Client!TypesInv
<1>2. /\ Len(Client!Tokens) \in Nat /\ Len(Client!Tokens) <= ResponsePieces + 3
      /\ Len(cWire) \in Nat /\ ResponsePieces \in Nat
  <2>1. PICK n \in 0..ResponsePieces, c \in 0..1, d \in 0..1 : Len(Client!Tokens) = 1 + n + c + d
    BY <1>1, ResponseTokens
  <2> QED  BY <2>1, ClientBound DEF Client!ClientInv, Client!TypesInv
<1>3. PICK r \in Nat :
        /\ r = Client!TokensRead /\ r <= Len(Client!Tokens)
        /\ \A i \in 1..Len(cWire) : cWire[i] = Client!Tokens[r + i]
  BY <1>2 DEF Client!ClientInv, Client!StreamInv
<1>4. Client!TypeOK
  <2>1. segments <= ResponsePieces + 3
    <3>1. segments <= r + Client!TokensLeft
      BY <1>3 DEF Client!ClientInv, Client!StreamInv
    <3>2. Client!TokensLeft \in Nat /\ Client!TokensLeft <= Len(cWire)
      BY <1>2 DEF Client!ClientInv, Client!TypesInv, Client!TokensLeft
    <3>3. r + Len(cWire) <= Len(Client!Tokens)
      BY <1>2, <1>3 DEF Client!ClientInv, Client!StreamInv, Client!TokensRead
    <3> QED  BY <1>2, <3>1, <3>2, <3>3 DEF Client!ClientInv, Client!TypesInv
  <2>2. segments \in 0..ResponsePieces + 3 /\ parser.body_start \in 0..segments
    BY <1>2, <2>1 DEF Client!ClientInv, Client!TypesInv
  <2> QED  BY <2>2 DEF Client!ClientInv, Client!TypesInv, Client!TypeOK
<1>5. Client!WholeBodyOnce
  BY DEF Client!ClientInv, Client!WholeInv, Client!WholeBodyOnce
<1>6. Client!PartOfBody /\ Client!StaleNeedsTail
  BY DEF Client!ClientInv, Client!DeliveredInv
<1>7. Client!NothingEarly
  <2> SUFFICES ASSUME delivered # <<>>
               PROVE  response.framing # "eof" /\ \A i \in 1..Len(cWire) : ~Client!Ends(cWire[i])
    <3>1. DOMAIN cWire = 1..Len(cWire)
      BY DEF Client!ClientInv, Client!TypesInv
    <3> QED  BY <3>1 DEF Client!NothingEarly
  <2>1. Client!EndsIn(r)
    BY <1>3 DEF Client!ClientInv, Client!DeliveredInv, Client!ParserInv
  <2>2. response.framing # "eof"
    BY <1>1, <2>1, PiecesBound
  <2>3. ASSUME NEW i \in 1..Len(cWire) PROVE ~Client!Ends(cWire[i])
    <3>1. PICK n \in 0..ResponsePieces, c \in 0..1, d \in 0..1 :
            /\ n = response.pieces
            /\ c = (IF response.framing = "chunked" THEN 1 ELSE 0)
            /\ Len(Client!Tokens) = 1 + n + c + d
            /\ \A k \in 1..d : Client!Tokens[1 + n + c + k] = ResponsePieces + 2
      BY <1>1, ResponseTokens
    <3>2. r >= 1 + n + c
      BY <1>1, <1>3, <2>1, <3>1 DEF Client!EndsIn
    <3>3. r + Len(cWire) = 1 + n + c + d
      <4>1. answered
        BY <1>3, <3>1, <3>2 DEF Client!TokensRead
      <4> QED  BY <1>2, <1>3, <3>1, <4>1 DEF Client!TokensRead
    <3>4. d = 1 /\ i = 1 /\ r = 1 + n + c
      <4>1. n \in Nat /\ c \in 0..1 /\ d \in 0..1 /\ Len(cWire) \in Nat /\ i \in 1..Len(cWire)
        BY <1>2
      <4> QED  BY ONLY <3>2, <3>3, <4>1, <1>3
    <3>5. cWire[i] = ResponsePieces + 2
      BY <1>3, <3>1, <3>4
    <3> QED  BY <1>2, <3>1, <3>5 DEF Client!Ends, Client!LastChunk
  <2> QED  BY <2>2, <2>3
<1> QED  BY <1>4, <1>5, <1>6, <1>7

-----------------------------------------------------------------------------
(* HttpServer *)

\* The bounds as numbers.
LEMMA HttpBounds == RequestPieces \in Nat /\ MaxRequests \in Nat
BY HttpAssumption DEF Http!BoundsAssumption

\* The tokens of a request, one by one.
LEMMA RequestTokens ==
    ASSUME NEW i, NEW r \in Http!Requests
    PROVE  \E n \in Nat :
             /\ n = r.pieces /\ n <= RequestPieces
             /\ DOMAIN Http!Tokens(i, r) = 1..n + 3
             /\ i \in 1..MaxRequests =>
                  Http!Tokens(i, r) \in Seq(Http!TokenSet) /\ Len(Http!Tokens(i, r)) = n + 3
             /\ \A k \in 1..n + 3 :
                  /\ Http!Tokens(i, r)[k].req = i /\ Http!Tokens(i, r)[k].piece = k
                  /\ Http!Tokens(i, r)[k].last <=> k = n + 3
                  /\ Http!Tokens(i, r)[k].kind = "url1" <=> k = 1
                  /\ Http!Tokens(i, r)[k].kind = "url2" <=> k = 2
                  /\ Http!Tokens(i, r)[k].kind = "body" <=> k > 3
                  /\ Http!Tokens(i, r)[k].kind \in {"url1", "url2", "head", "body"}
                  /\ Http!Tokens(i, r)[k].last \in BOOLEAN
<1>1. PICK n \in Nat : n = r.pieces /\ n <= RequestPieces
  BY HttpBounds DEF Http!Requests
<1>2. PICK S : S = {"url1", "url2", "head", "body"}
  OBVIOUS
<1>3. PICK a \in Seq(S) :
        /\ a = <<"url1", "url2", "head">> /\ Len(a) = 3
        /\ a[1] = "url1" /\ a[2] = "url2" /\ a[3] = "head"
  <2>1. /\ <<"url1", "url2", "head">> \in Seq(S) /\ Len(<<"url1", "url2", "head">>) = 3
        /\ <<"url1", "url2", "head">>[1] = "url1" /\ <<"url1", "url2", "head">>[2] = "url2"
        /\ <<"url1", "url2", "head">>[3] = "head"
    BY <1>2
  <2> QED  BY ONLY <2>1
<1>4. PICK b \in Seq(S) :
        b = [p \in 1..r.pieces |-> "body"] /\ Len(b) = n /\ \A k \in 1..n : b[k] = "body"
  <2> DEFINE e(p) == "body"
  <2>1. \A p \in 1..n : e(p) \in S
    BY <1>2
  <2>2. [p \in 1..n |-> e(p)] \in Seq(S)
    BY <2>1
  <2>3. [p \in 1..r.pieces |-> "body"] = [p \in 1..n |-> e(p)]
    BY <1>1
  <2>4. PICK w \in Seq(S) :
          w = [p \in 1..n |-> e(p)] /\ Len(w) = n /\ \A k \in 1..n : w[k] = "body"
    <3>1. Len([p \in 1..n |-> e(p)]) = n /\ \A k \in 1..n : [p \in 1..n |-> e(p)][k] = "body"
      BY <2>2
    <3> QED  BY ONLY <2>2, <3>1
  <2> QED  BY ONLY <2>3, <2>4
<1>5. PICK kinds \in Seq(S) :
        /\ kinds = <<"url1", "url2", "head">> \o [p \in 1..r.pieces |-> "body"]
        /\ Len(kinds) = 3 + n
        /\ \A k \in 1..3 : kinds[k] = a[k]
        /\ \A k \in 1..n : kinds[3 + k] = "body"
  <2>1. /\ a \o b \in Seq(S) /\ Len(a \o b) = Len(a) + Len(b)
        /\ \A k \in 1..Len(a) : (a \o b)[k] = a[k]
        /\ \A k \in 1..Len(b) : (a \o b)[Len(a) + k] = b[k]
    BY Behind
  <2>2. PICK w \in Seq(S) :
        /\ w = a \o b /\ Len(w) = Len(a) + Len(b)
        /\ \A k \in 1..Len(a) : w[k] = a[k]
        /\ \A k \in 1..Len(b) : w[Len(a) + k] = b[k]
    BY ONLY <2>1
  <2>3. w = <<"url1", "url2", "head">> \o [p \in 1..r.pieces |-> "body"]
    BY <1>3, <1>4, <2>2
  <2>4. Len(w) = 3 + n /\ \A k \in 1..3 : w[k] = a[k]
    BY <1>3, <1>4, <2>2
  <2>5. ASSUME NEW k \in 1..n PROVE w[3 + k] = "body"
    <3>1. w[Len(a) + k] = b[k]
      BY <1>4, <2>2
    <3>2. b[k] = "body" /\ Len(a) = 3
      BY <1>3, <1>4
    <3> QED  BY ONLY <3>1, <3>2
  <2> QED  BY ONLY <2>2, <2>3, <2>4, <2>5
<1>55. PICK m \in Nat : m = Len(kinds) /\ m = n + 3
  <2>1. n + 3 \in Nat /\ Len(kinds) = n + 3
    <3>1. Len(kinds) = 3 + n
      BY ONLY <1>5
    <3>2. 3 + n = n + 3 /\ n + 3 \in Nat
      OBVIOUS
    <3> QED  BY ONLY <3>1, <3>2
  <2> QED  BY ONLY <2>1
<1> DEFINE e(k) == [req |-> i, kind |-> kinds[k], piece |-> k, last |-> k = m]
<1>6. Http!Tokens(i, r) = [k \in 1..m |-> e(k)]
  <2>1. Http!Tokens(i, r) =
          [k \in 1..Len(kinds) |-> [req |-> i, kind |-> kinds[k], piece |-> k, last |-> k = Len(kinds)]]
    BY <1>5 DEF Http!Tokens
  <2> QED  BY ONLY <1>55, <2>1
<1>7. ASSUME NEW k \in 1..n + 3
      PROVE  /\ kinds[k] = "url1" <=> k = 1
             /\ kinds[k] = "url2" <=> k = 2
             /\ kinds[k] = "body" <=> k > 3
             /\ kinds[k] \in {"url1", "url2", "head", "body"}
  <2>1. CASE k \in 1..3
    BY <1>3, <1>5, <2>1
  <2>2. CASE k > 3
    <3>1. k - 3 \in 1..n /\ 3 + (k - 3) = k
      BY <2>2
    <3>2. kinds[k] = "body"
      BY <1>5, <3>1
    <3> QED  BY <2>2, <3>2
  <2> QED  BY <2>1, <2>2
<1>8. ASSUME NEW k \in 1..m
      PROVE  /\ e(k).req = i /\ e(k).piece = k /\ e(k).kind = kinds[k]
             /\ e(k).last <=> k = m
             /\ e(k).last \in BOOLEAN
  OBVIOUS
<1>9. ASSUME i \in 1..MaxRequests, NEW k \in 1..m PROVE e(k) \in Http!TokenSet
  <2>1. k \in 1..RequestPieces + 3
    BY <1>1, <1>55, HttpBounds
  <2>2. kinds[k] \in {"url1", "url2", "head", "body"}
    BY <1>7, <1>55
  <2> QED  BY <1>9, <2>1, <2>2 DEF Http!TokenSet
<1> HIDE DEF e
<1>10. ASSUME i \in 1..MaxRequests
      PROVE  Http!Tokens(i, r) \in Seq(Http!TokenSet) /\ Len(Http!Tokens(i, r)) = n + 3
  <2>1. \A k \in 1..m : e(k) \in Http!TokenSet
    BY <1>9, <1>10
  <2>2. [k \in 1..m |-> e(k)] \in Seq(Http!TokenSet) /\ Len([k \in 1..m |-> e(k)]) = m
    BY <2>1
  <2> QED  BY ONLY <1>6, <1>55, <2>2
<1>11. DOMAIN Http!Tokens(i, r) = 1..n + 3 /\ \A k \in 1..n + 3 : Http!Tokens(i, r)[k] = e(k)
  BY <1>6, <1>55
<1>12. \A k \in 1..n + 3 :
        /\ e(k).req = i /\ e(k).piece = k /\ e(k).kind = kinds[k]
        /\ e(k).last <=> k = n + 3
        /\ e(k).last \in BOOLEAN
  BY <1>8, <1>55
<1>13. ASSUME NEW k \in 1..n + 3
       PROVE  /\ Http!Tokens(i, r)[k].req = i /\ Http!Tokens(i, r)[k].piece = k
              /\ Http!Tokens(i, r)[k].last <=> k = n + 3
              /\ Http!Tokens(i, r)[k].kind = "url1" <=> k = 1
              /\ Http!Tokens(i, r)[k].kind = "url2" <=> k = 2
              /\ Http!Tokens(i, r)[k].kind = "body" <=> k > 3
              /\ Http!Tokens(i, r)[k].kind \in {"url1", "url2", "head", "body"}
              /\ Http!Tokens(i, r)[k].last \in BOOLEAN
  <2>1. PICK u : u = e(k)
    OBVIOUS
  <2>2. /\ u = Http!Tokens(i, r)[k] /\ u.req = i /\ u.piece = k /\ u.kind = kinds[k]
        /\ u.last <=> k = n + 3
        /\ u.last \in BOOLEAN
    BY <1>11, <1>12, <2>1
  <2> QED  BY <1>7, <2>2
<1> QED  BY <1>1, <1>10, <1>11, <1>13

\* What a token says of itself.
LEMMA TokenSays ==
    ASSUME sent \in Seq(Http!Requests), NEW t, Http!IsToken(sent, t)
    PROVE  \E n \in Nat :
             /\ n = sent[t.req].pieces /\ sent[t.req] \in Http!Requests
             /\ t.req \in Nat /\ t.req \in 1..Len(sent) /\ t.req \in DOMAIN sent
             /\ t.piece \in 1..n + 3
             /\ t = Http!Tokens(t.req, sent[t.req])[t.piece]
             /\ t.last <=> t.piece = n + 3
             /\ t.kind = "url1" <=> t.piece = 1
             /\ t.kind = "url2" <=> t.piece = 2
             /\ t.kind = "body" <=> t.piece > 3
             /\ t.kind \in {"url1", "url2", "head", "body"}
             /\ t.last \in BOOLEAN
<1>1. /\ t.req \in 1..Len(sent) /\ t.req \in DOMAIN sent /\ sent[t.req] \in Http!Requests
      /\ t.req \in Nat
  BY DEF Http!IsToken
<1>2. PICK q \in 1..Len(sent) : q = t.req
  BY <1>1
<1>3. PICK r \in Http!Requests : r = sent[t.req]
  BY <1>1
<1>4. PICK n \in Nat :
        /\ n = r.pieces
        /\ \A k \in 1..n + 3 :
             /\ Http!Tokens(q, r)[k].last <=> k = n + 3
             /\ Http!Tokens(q, r)[k].kind = "url1" <=> k = 1
             /\ Http!Tokens(q, r)[k].kind = "url2" <=> k = 2
             /\ Http!Tokens(q, r)[k].kind = "body" <=> k > 3
             /\ Http!Tokens(q, r)[k].kind \in {"url1", "url2", "head", "body"}
             /\ Http!Tokens(q, r)[k].last \in BOOLEAN
  BY RequestTokens
<1>5. PICK k \in 1..n + 3 : k = t.piece /\ t = Http!Tokens(q, r)[k]
  <2>1. t.piece \in 1..r.pieces + 3 /\ t = Http!Tokens(q, r)[t.piece]
    BY <1>2, <1>3 DEF Http!IsToken
  <2>2. t.piece \in 1..n + 3
    BY <1>4, <2>1
  <2> QED  BY ONLY <2>1, <2>2
<1>6. /\ t.last <=> k = n + 3
      /\ t.kind = "url1" <=> k = 1
      /\ t.kind = "url2" <=> k = 2
      /\ t.kind = "body" <=> k > 3
      /\ t.kind \in {"url1", "url2", "head", "body"}
      /\ t.last \in BOOLEAN
  <2>1. /\ Http!Tokens(q, r)[k].last <=> k = n + 3
        /\ Http!Tokens(q, r)[k].kind = "url1" <=> k = 1
        /\ Http!Tokens(q, r)[k].kind = "url2" <=> k = 2
        /\ Http!Tokens(q, r)[k].kind = "body" <=> k > 3
        /\ Http!Tokens(q, r)[k].kind \in {"url1", "url2", "head", "body"}
        /\ Http!Tokens(q, r)[k].last \in BOOLEAN
    BY <1>4
  <2> QED  BY ONLY <1>5, <2>1
<1>7. n = sent[t.req].pieces /\ t.piece \in 1..n + 3 /\ t = Http!Tokens(t.req, sent[t.req])[t.piece]
  BY ONLY <1>2, <1>3, <1>4, <1>5
<1> QED  BY ONLY <1>1, <1>4, <1>5, <1>6, <1>7

\* A connection and a writer that are new.
LEMMA ConnTypes ==
    /\ Http!NewConn \in Http!ConnSet
    /\ Http!NoConn \in Http!ConnSet
    /\ Http!NoConn.url = <<>> /\ Http!NoConn.httpBody = <<>> /\ Http!NoConn.messageComplete = FALSE
    /\ Http!NewConn.url = <<>> /\ Http!NewConn.httpBody = <<>> /\ Http!NewConn.messageComplete = FALSE
    /\ Http!NoConn.method = "none"
<1>1. <<>> \in Seq(Http!TokenSet) /\ "GET" \in Http!Methods
  BY DEF Http!Methods
<1>2. PICK c : c = Http!NewConn /\ c = [url |-> <<>>, method |-> "GET", httpBody |-> <<>>,
                messageComplete |-> FALSE, merging |-> FALSE, finished |-> 0]
  BY DEF Http!NewConn
<1>3. c \in Http!ConnSet
  BY <1>1, <1>2 DEF Http!ConnSet
<1>4. c.url = <<>> /\ c.httpBody = <<>> /\ c.messageComplete = FALSE
  BY <1>2
<1>5. PICK d : d = Http!NoConn /\ d = [c EXCEPT !.method = "none"]
  BY <1>2 DEF Http!NoConn
<1>6. /\ d \in Http!ConnSet
      /\ d.url = <<>> /\ d.httpBody = <<>> /\ d.messageComplete = FALSE /\ d.method = "none"
  BY <1>3, <1>4, <1>5 DEF Http!ConnSet
<1> QED  BY <1>2, <1>3, <1>4, <1>5, <1>6

LEMMA WriterTypes ==
    Http!NewWriter \in Http!WriterSet
<1>1. <<>> \in Seq(Http!TokenSet)
  OBVIOUS
<1> QED  BY <1>1 DEF Http!NewWriter, Http!WriterSet

\* A writer with one field changed.
HasLength(w, v, l) == w = [v EXCEPT !.content_len = l]
HasBody(w, v, h)   == w = [v EXCEPT !.http_body = h]
HasCode(w, v, c)   == w = [v EXCEPT !.code = c]
HasClose(w, v)     == w = [v EXCEPT !.close = TRUE]

LEMMA WithLength ==
    ASSUME NEW v, v \in Http!WriterSet, NEW l, l \in Nat \cup {-1},
           NEW w, HasLength(w, v, l)
    PROVE  /\ w \in Http!WriterSet /\ w.content_len = l
           /\ w.code = v.code /\ w.close = v.close /\ w.http_body = v.http_body
BY DEF HasLength, Http!WriterSet

LEMMA WithBody ==
    ASSUME NEW v, v \in Http!WriterSet,
           NEW h, h \in Seq(Http!TokenSet) \cup {Http!NotFoundText},
           NEW w, HasBody(w, v, h)
    PROVE  /\ w \in Http!WriterSet /\ w.http_body = h
           /\ w.code = v.code /\ w.close = v.close /\ w.content_len = v.content_len
BY DEF HasBody, Http!WriterSet

LEMMA WithCode ==
    ASSUME NEW v, v \in Http!WriterSet, NEW c, c \in {200, 404}, NEW w, HasCode(w, v, c)
    PROVE  w \in Http!WriterSet /\ w.code = c
BY DEF HasCode, Http!WriterSet

LEMMA WithClose ==
    ASSUME NEW v, v \in Http!WriterSet, NEW w, HasClose(w, v)
    PROVE  w \in Http!WriterSet /\ w.code = v.code
BY ZenonT(60) DEF HasClose, Http!WriterSet

LEMMA FirstRequest ==
    ASSUME sent \in Seq(Http!Requests), sent # <<>>
    PROVE  /\ 1 \in 1..Len(sent) /\ sent[1] \in Http!Requests
           /\ sent[1].pieces \in Nat /\ sent[1].method # "none"
<1>1. 1 \in 1..Len(sent) /\ sent[1] \in Http!Requests
  OBVIOUS
<1> QED  BY <1>1, HttpBounds DEF Http!Requests, Http!Methods

\* What is to be shown of the wire and of the bodies after a step.
LEMMA WireNext ==
    ASSUME \A i \in 1..Len(wire') : Http!IsToken(sent', wire'[i]),
           \A i \in 1..Len(wire') - 1 : Http!Follows(wire'[i], wire'[i + 1]),
           \A i, j \in 1..Len(wire') : i < j => Http!Earlier(wire'[i], wire'[j]),
           wire' # <<>> => wire'[Len(wire')].last /\ wire'[Len(wire')].req = Len(sent')
    PROVE  Http!WireInv'
<1>1. \A i \in 1..Len(wire') : Http!IsToken(sent, wire[i])'
  <2> SUFFICES ASSUME NEW i \in 1..Len(wire') PROVE Http!IsToken(sent, wire[i])'
    OBVIOUS
  <2>1. Http!IsToken(sent', wire'[i])
    OBVIOUS
  <2> QED  BY <2>1 DEF Http!IsToken
<1>2. \A i \in 1..Len(wire') - 1 : Http!Follows(wire[i], wire[i + 1])'
  <2> SUFFICES ASSUME NEW i \in 1..Len(wire') - 1 PROVE Http!Follows(wire[i], wire[i + 1])'
    OBVIOUS
  <2>1. Http!Follows(wire'[i], wire'[i + 1])
    OBVIOUS
  <2> QED  BY <2>1 DEF Http!Follows
<1>3. \A i, j \in 1..Len(wire') : i < j => Http!Earlier(wire[i], wire[j])'
  <2> SUFFICES ASSUME NEW i \in 1..Len(wire'), NEW j \in 1..Len(wire'), i < j
               PROVE  Http!Earlier(wire[i], wire[j])'
    OBVIOUS
  <2>1. Http!Earlier(wire'[i], wire'[j])
    OBVIOUS
  <2> QED  BY <2>1 DEF Http!Earlier
<1> QED  BY <1>1, <1>2, <1>3 DEF Http!WireInv

LEMMA SameWire ==
    ASSUME Http!WireInv, sent' = sent, wire' = wire
    PROVE  Http!WireInv'
<1>1. \A i \in 1..Len(wire') : Http!IsToken(sent', wire'[i])
  BY DEF Http!WireInv
<1>2. \A i \in 1..Len(wire') - 1 : Http!Follows(wire'[i], wire'[i + 1])
  BY DEF Http!WireInv
<1>3. \A i, j \in 1..Len(wire') : i < j => Http!Earlier(wire'[i], wire'[j])
  BY DEF Http!WireInv
<1>4. wire' # <<>> => wire'[Len(wire')].last /\ wire'[Len(wire')].req = Len(sent')
  BY DEF Http!WireInv
<1> QED  BY <1>1, <1>2, <1>3, <1>4, WireNext

LEMMA BodyNext ==
    ASSUME NEW b, b = httpConn'.httpBody,
           \A i \in DOMAIN b : Http!IsToken(sent', b[i]) /\ b[i].piece > 3,
           \A i, j \in DOMAIN b : i < j => Http!Earlier(b[i], b[j]),
           \A i \in DOMAIN b : \A j \in 1..Len(wire') : Http!Earlier(b[i], wire'[j]),
           \A i \in DOMAIN sent' : \A p \in 1..sent'[i].pieces :
             Http!Tokens(i, sent'[i])[p + 3] \in Http!ToSet(b) \cup Http!ToSet(wire')
    PROVE  Http!BodyInv'
<1>1. \A i \in DOMAIN b : (Http!IsToken(sent, httpConn.httpBody[i]) /\ httpConn.httpBody[i].piece > 3)'
  <2> SUFFICES ASSUME NEW i \in DOMAIN b
               PROVE  (Http!IsToken(sent, httpConn.httpBody[i]) /\ httpConn.httpBody[i].piece > 3)'
    OBVIOUS
  <2>1. Http!IsToken(sent', b[i]) /\ b[i].piece > 3
    OBVIOUS
  <2> QED  BY <2>1 DEF Http!IsToken
<1>2. \A i, j \in DOMAIN b : i < j => Http!Earlier(httpConn.httpBody[i], httpConn.httpBody[j])'
  <2> SUFFICES ASSUME NEW i \in DOMAIN b, NEW j \in DOMAIN b, i < j
               PROVE  Http!Earlier(httpConn.httpBody[i], httpConn.httpBody[j])'
    OBVIOUS
  <2>1. Http!Earlier(b[i], b[j])
    OBVIOUS
  <2> QED  BY <2>1 DEF Http!Earlier
<1>3. \A i \in DOMAIN b : \A j \in 1..Len(wire') : Http!Earlier(httpConn.httpBody[i], wire[j])'
  <2> SUFFICES ASSUME NEW i \in DOMAIN b, NEW j \in 1..Len(wire')
               PROVE  Http!Earlier(httpConn.httpBody[i], wire[j])'
    OBVIOUS
  <2>1. Http!Earlier(b[i], wire'[j])
    OBVIOUS
  <2> QED  BY <2>1 DEF Http!Earlier
<1>4. \A i \in DOMAIN sent' : \A p \in 1..sent'[i].pieces :
        Http!Tokens(i, sent'[i])[p + 3] \in
          {b[j] : j \in DOMAIN b} \cup {wire'[j] : j \in DOMAIN wire'}
  BY DEF Http!ToSet
<1> QED  BY <1>1, <1>2, <1>3, <1>4 DEF Http!BodyInv, Http!ToSet

LEMMA SameBody ==
    ASSUME Http!BodyInv, sent' = sent, wire' = wire, httpConn'.httpBody = httpConn.httpBody
    PROVE  Http!BodyInv'
<1>1. PICK b : b = httpConn.httpBody /\ b = httpConn'.httpBody
  OBVIOUS
<1>2. \A i \in DOMAIN b : Http!IsToken(sent', b[i]) /\ b[i].piece > 3
  BY <1>1 DEF Http!BodyInv
<1>3. \A i, j \in DOMAIN b : i < j => Http!Earlier(b[i], b[j])
  BY <1>1 DEF Http!BodyInv
<1>4. \A i \in DOMAIN b : \A j \in 1..Len(wire') : Http!Earlier(b[i], wire'[j])
  BY <1>1 DEF Http!BodyInv
<1>5. \A i \in DOMAIN sent' : \A p \in 1..sent'[i].pieces :
        Http!Tokens(i, sent'[i])[p + 3] \in Http!ToSet(b) \cup Http!ToSet(wire')
  BY <1>1 DEF Http!BodyInv
<1> QED  BY ONLY <1>1, <1>2, <1>3, <1>4, <1>5, BodyNext

LEMMA HttpStarts == Http!Init => Http!HttpInv
<1> SUFFICES ASSUME Http!Init PROVE Http!HttpInv
  OBVIOUS
<1> USE DEF Http!Init
<1>1. Http!TypesInv
  <2>1. Http!NoConn \in Http!ConnSet
    BY ConnTypes
  <2>2. Http!NewWriter \in Http!WriterSet
    BY WriterTypes
  <2>3. sent \in Seq(Http!Requests) /\ Len(sent) <= total /\ total \in 0..MaxRequests
    BY HttpBounds
  <2> QED  BY <2>1, <2>2, <2>3 DEF Http!TypesInv
<1>2. Http!WireInv
  BY DEF Http!WireInv
<1>3. Http!UrlInv
  BY ConnTypes DEF Http!UrlInv
<1>4. Http!BodyInv
  BY ConnTypes DEF Http!BodyInv
<1>5. Http!FirstInv
  BY DEF Http!FirstInv
<1> QED  BY <1>1, <1>2, <1>3, <1>4, <1>5 DEF Http!HttpInv

\* A connection that is closed starts again.
LEMMA HttpOnClosed == Http!HttpInv /\ Http!OnClosed => Http!HttpInv'
<1> SUFFICES ASSUME Http!HttpInv, Http!OnClosed PROVE Http!HttpInv'
  OBVIOUS
<1> USE DEF Http!OnClosed
<1>1. Http!TypesInv'
  <2>1. total' \in 0..MaxRequests /\ Len(sent') <= total'
    BY HttpBounds DEF Http!HttpInv, Http!TypesInv
  <2>2. ahead' \in 0..Len(wire') + 1
    BY DEF Http!HttpInv, Http!TypesInv
  <2>3. sent' \in Seq(Http!Requests) /\ wire' \in Seq(Http!TokenSet)
    OBVIOUS
  <2>4. /\ httpConn' \in Http!ConnSet
        /\ writer' \in Http!WriterSet
    BY ConnTypes, WriterTypes
  <2>5. /\ hDisorder' \subseteq {"kept_alive", "url_cut", "pipelined"}
        /\ wire' = <<>> /\ ahead' = 0 /\ httpConn' = Http!NoConn
        /\ writer' = Http!NewWriter /\ responses' = <<>>
    BY DEF Http!HttpInv, Http!TypesInv
  <2> QED  BY <2>1, <2>2, <2>3, <2>4, <2>5 DEF Http!TypesInv
<1>2. Http!WireInv'
  BY DEF Http!WireInv
<1>3. Http!UrlInv'
  BY ConnTypes DEF Http!UrlInv
<1>4. Http!BodyInv'
  BY ConnTypes DEF Http!BodyInv
<1>5. Http!FirstInv'
  BY DEF Http!FirstInv
<1> QED  BY <1>1, <1>2, <1>3, <1>4, <1>5 DEF Http!HttpInv

\* The tokens of a segment are of one request unless that is noted, and so is
\* a url that is cut, or a segment that comes when a request is complete.
LEMMA HttpOnRecvData ==
    ASSUME Http!HttpInv, NEW n \in 1..Len(wire), Http!OnRecvData(n)
    PROVE  Http!HttpInv'
<1>1. /\ sent' = sent /\ wire' = wire /\ ahead = 0 /\ ahead' = n + 1
      /\ writer' = writer /\ responses' = responses /\ total' = total
  BY DEF Http!OnRecvData
<1>2. /\ sent \in Seq(Http!Requests) /\ wire \in Seq(Http!TokenSet)
      /\ Len(wire) \in Nat /\ n \in Nat /\ n <= Len(wire) /\ n >= 1 /\ wire # <<>> /\ sent # <<>>
      /\ httpConn \in Http!ConnSet
  BY DEF Http!HttpInv, Http!TypesInv
<1>3. PICK c \in Http!ConnSet :
        /\ c = IF httpConn = Http!NoConn THEN Http!NewConn ELSE httpConn
        /\ c.url = httpConn.url /\ c.httpBody = httpConn.httpBody
        /\ c.messageComplete = httpConn.messageComplete
        /\ httpConn.method # "none" => c.method = httpConn.method
  <2>1. CASE httpConn = Http!NoConn
    <3>1. /\ Http!NewConn \in Http!ConnSet
          /\ Http!NewConn = IF httpConn = Http!NoConn THEN Http!NewConn ELSE httpConn
          /\ Http!NewConn.url = httpConn.url /\ Http!NewConn.httpBody = httpConn.httpBody
          /\ Http!NewConn.messageComplete = httpConn.messageComplete
          /\ httpConn.method = "none"
      BY <2>1, ConnTypes
    <3> QED  BY ONLY <3>1
  <2>2. CASE httpConn # Http!NoConn
    BY <1>2, <2>2
  <2> QED  BY <2>1, <2>2
<1>4. /\ httpConn' \in Http!ConnSet
      /\ httpConn'.url = httpConn.url /\ httpConn'.httpBody = httpConn.httpBody
      /\ httpConn'.messageComplete = httpConn.messageComplete /\ ~httpConn'.merging
      /\ httpConn.method # "none" => httpConn'.method = httpConn.method
  <2>1. httpConn' = [c EXCEPT !.merging = FALSE]
    BY <1>3 DEF Http!OnRecvData
  <2>2. /\ [c EXCEPT !.merging = FALSE] \in Http!ConnSet
        /\ [c EXCEPT !.merging = FALSE].url = c.url
        /\ [c EXCEPT !.merging = FALSE].httpBody = c.httpBody
        /\ [c EXCEPT !.merging = FALSE].messageComplete = c.messageComplete
        /\ ~[c EXCEPT !.merging = FALSE].merging
        /\ [c EXCEPT !.merging = FALSE].method = c.method
    BY DEF Http!ConnSet
  <2> QED  BY <1>3, <2>1, <2>2
<1>5. /\ hDisorder' \subseteq {"kept_alive", "url_cut", "pipelined"}
      /\ hDisorder' = {} =>
           /\ hDisorder = {} /\ ~httpConn.messageComplete
           /\ wire[1].kind # "url2" /\ wire[n].req = wire[1].req
  BY DEF Http!HttpInv, Http!TypesInv, Http!OnRecvData
<1>7. Http!TypesInv'
  <2>1. ahead' \in 0..Len(wire') + 1
    BY <1>1, <1>2
  <2>2. sent' # <<>>
    BY <1>1, <1>2
  <2> QED  BY <1>1, <1>4, <1>5, <2>1, <2>2 DEF Http!HttpInv, Http!TypesInv
<1>8. Http!WireInv'
  BY <1>1, SameWire DEF Http!HttpInv
<1>9. Http!UrlInv'
  BY <1>4 DEF Http!HttpInv, Http!UrlInv
<1>10. Http!BodyInv'
  BY <1>1, <1>4, SameBody DEF Http!HttpInv
<1>11. Http!FirstInv'
  <2> SUFFICES ASSUME hDisorder' = {} PROVE Http!FirstInv'
    BY DEF Http!FirstInv
  <2>1. /\ hDisorder = {} /\ ~httpConn.messageComplete
        /\ wire[1].kind # "url2" /\ wire[n].req = wire[1].req
    BY <1>5
  <2>2. ASSUME NEW i \in 1..n PROVE wire[i].req = wire[1].req
    <3>1. /\ wire[1].req \in Nat /\ wire[i].req \in Nat /\ wire[n].req \in Nat
          /\ i \in 1..Len(wire) /\ 1 \in 1..Len(wire) /\ n \in 1..Len(wire)
      <4>1. i \in 1..Len(wire) /\ 1 \in 1..Len(wire) /\ n \in 1..Len(wire)
        BY <1>2
      <4>2. Http!IsToken(sent, wire[1]) /\ Http!IsToken(sent, wire[i]) /\ Http!IsToken(sent, wire[n])
        BY <4>1 DEF Http!HttpInv, Http!WireInv
      <4> QED  BY <1>2, <4>1, <4>2, TokenSays
    <3>2. i = 1 \/ Http!Earlier(wire[1], wire[i])
      BY <1>2, <3>1 DEF Http!HttpInv, Http!WireInv
    <3>3. i = n \/ Http!Earlier(wire[i], wire[n])
      BY <1>2, <3>1 DEF Http!HttpInv, Http!WireInv
    <3> QED  BY <2>1, <3>1, <3>2, <3>3 DEF Http!Earlier
  <2>3. \A i \in 1..ahead' - 1 : wire'[i].req = wire'[1].req
    <3>1. ahead' - 1 = n
      BY <1>1, <1>2
    <3> QED  BY <1>1, <2>2, <3>1
  <2>4. Http!Reading
    BY <1>2, <2>1 DEF Http!HttpInv, Http!FirstInv, Http!HasRead
  <2>5. PICK k \in Nat : k = wire[1].piece /\ k # 2
    <3>1. Http!IsToken(sent, wire[1])
      BY <1>2 DEF Http!HttpInv, Http!WireInv
    <3>2. wire[1].piece \in Nat /\ (wire[1].kind = "url2" <=> wire[1].piece = 2)
      BY <1>2, <3>1, TokenSays
    <3> QED  BY <2>1, <3>2
  <2>6. Http!ReadTo(k)
    BY <2>4, <2>5 DEF Http!Reading
  <2>7. Http!ReadTo(k)'
    <3>1. k > 1 => httpConn'.method = sent[1].method
      <4>1. sent[1].method # "none"
        BY <1>2, FirstRequest
      <4>2. k > 1 => httpConn.method = sent[1].method
        BY <2>6 DEF Http!ReadTo
      <4> QED  BY <1>4, <4>1, <4>2
    <3> QED  BY <1>1, <1>4, <2>5, <2>6, <3>1 DEF Http!ReadTo
  <2>8. Http!Reading'
    BY <1>1, <1>4, <2>1, <2>4, <2>5, <2>7 DEF Http!Reading, Http!ReadTo
  <2> QED  BY <2>3, <2>8 DEF Http!FirstInv
<1> QED  BY <1>7, <1>8, <1>9, <1>10, <1>11 DEF Http!HttpInv

\* The first request is answered with its own body, which is the one read, and
\* a second answer is not written without disorder.
LEMMA HttpOnExecuted == Http!HttpInv /\ Http!OnExecuted => Http!HttpInv'
<1> SUFFICES ASSUME Http!HttpInv, Http!OnExecuted PROVE Http!HttpInv'
  OBVIOUS
<1>1. /\ sent' = sent /\ wire' = wire /\ ahead = 1 /\ ahead' = 0
      /\ httpConn' = httpConn /\ total' = total /\ hDisorder' = hDisorder
  BY DEF Http!OnExecuted
<1>2. /\ sent \in Seq(Http!Requests) /\ wire \in Seq(Http!TokenSet) /\ Len(wire) \in Nat
      /\ sent # <<>> /\ httpConn \in Http!ConnSet /\ writer \in Http!WriterSet
  BY <1>1 DEF Http!HttpInv, Http!TypesInv
<1>4. Http!WireInv'
  BY <1>1, SameWire DEF Http!HttpInv
<1>5. Http!UrlInv'
  BY <1>1 DEF Http!HttpInv, Http!UrlInv
<1>6. Http!BodyInv'
  BY <1>1, SameBody DEF Http!HttpInv
<1>7. \A k : Http!ReadTo(k)' <=> Http!ReadTo(k)
  BY <1>1 DEF Http!ReadTo
<1>8. PICK w \in Http!WriterSet :
        /\ w = Http!OnHttpPost(httpConn, writer)
        /\ writer = Http!NewWriter /\ Http!IsRegistered(httpConn.url) =>
             /\ w.code = 200 /\ w.http_body = httpConn.httpBody
             /\ w.content_len = Len(httpConn.httpBody) /\ ~w.close
        /\ ~Http!IsRegistered(httpConn.url) => w.code = 404 /\ w.http_body = Http!NotFoundText
  <2>1. PICK b \in Seq(Http!TokenSet) : b = httpConn.httpBody /\ Len(b) \in Nat
    BY <1>2 DEF Http!ConnSet
  <2>2. PICK v \in Http!WriterSet : v = writer
    BY <1>2
  <2>3. CASE Http!IsRegistered(httpConn.url)
    <3>1. PICK x \in Seq(Http!TokenSet) \cup {Http!NotFoundText} :
            x = IF b = <<>> THEN v.http_body ELSE b
      BY DEF Http!WriterSet
    <3>2. PICK u :
            /\ u = [v EXCEPT !.content_len = Len(b)]
            /\ u \in Http!WriterSet /\ u.content_len = Len(b)
            /\ u.code = v.code /\ u.close = v.close /\ u.http_body = v.http_body
      <4>1. Len(b) \in Nat \cup {-1} /\ v \in Http!WriterSet
        BY <2>1
      <4>2. PICK u : u = [v EXCEPT !.content_len = Len(b)]
        OBVIOUS
      <4>3. HasLength(u, v, Len(b))
        BY <4>2 DEF HasLength
      <4>4. /\ u \in Http!WriterSet /\ u.content_len = Len(b)
            /\ u.code = v.code /\ u.close = v.close /\ u.http_body = v.http_body
        BY <4>1, <4>3, WithLength
      <4> QED  BY ONLY <4>2, <4>4
    <3>3. PICK w :
            /\ w = [u EXCEPT !.http_body = x]
            /\ w \in Http!WriterSet /\ w.http_body = x
            /\ w.code = v.code /\ w.close = v.close /\ w.content_len = Len(b)
      <4>1. x \in Seq(Http!TokenSet) \cup {Http!NotFoundText}
        BY <3>1
      <4>2. PICK w : w = [u EXCEPT !.http_body = x]
        OBVIOUS
      <4>3. HasBody(w, u, x)
        BY <4>2 DEF HasBody
      <4>4. /\ w \in Http!WriterSet /\ w.http_body = x
            /\ w.code = u.code /\ w.close = u.close /\ w.content_len = u.content_len
        <5>1. u \in Http!WriterSet
          BY ONLY <3>2
        <5> QED  BY ONLY <4>1, <4>3, <5>1, WithBody
      <4> QED  BY ONLY <3>2, <4>2, <4>4
    <3>33. Http!OnHttpPost(httpConn, writer) = w
      <4>1. (IF b = <<>> THEN u.http_body ELSE b) = x
        BY ONLY <3>1, <3>2
      <4>2. Http!OnHttpPost(httpConn, writer) =
              [u EXCEPT !.http_body = IF b = <<>> THEN u.http_body ELSE b]
        BY <2>1, <2>2, <2>3, <3>2 DEF Http!OnHttpPost, Http!UserHandle, Http!SetBody
      <4> QED  BY ONLY <3>3, <4>1, <4>2
    <3>4. writer = Http!NewWriter => x = b /\ v.code = 200 /\ ~v.close
      <4>1. writer = Http!NewWriter => v.http_body = <<>> /\ v.code = 200 /\ ~v.close
        BY <2>2 DEF Http!NewWriter
      <4> QED  BY <3>1, <4>1
    <3> QED  BY <2>1, <2>3, <3>3, <3>33, <3>4
  <2>4. CASE ~Http!IsRegistered(httpConn.url)
    <3>1. Len(Http!NotFoundText) \in Nat /\ Http!NotFoundText # <<>>
      BY DEF Http!NotFoundText
    <3>2. PICK u :
            /\ u = [v EXCEPT !.code = 404, !.close = TRUE, !.content_len = Len(Http!NotFoundText)]
            /\ u \in Http!WriterSet /\ u.code = 404
      <4>1. PICK x : x = [v EXCEPT !.code = 404]
        OBVIOUS
      <4>2. PICK y : y = [x EXCEPT !.close = TRUE]
        OBVIOUS
      <4>3. PICK u : u = [y EXCEPT !.content_len = Len(Http!NotFoundText)]
        OBVIOUS
      <4>4. v \in Http!WriterSet /\ 404 \in {200, 404}
            /\ Len(Http!NotFoundText) \in Nat \cup {-1}
        BY <3>1
      <4>5. /\ HasCode(x, v, 404) /\ HasClose(y, x)
            /\ HasLength(u, y, Len(Http!NotFoundText))
        BY <4>1, <4>2, <4>3 DEF HasCode, HasClose, HasLength
      <4>6. x \in Http!WriterSet /\ x.code = 404
        BY <4>4, <4>5, WithCode
      <4>61. y \in Http!WriterSet /\ y.code = 404
        BY <4>4, <4>5, <4>6, WithClose
      <4>7. u \in Http!WriterSet /\ u.code = 404
        BY <4>4, <4>5, <4>61, WithLength
      <4>8. u = [v EXCEPT !.code = 404, !.close = TRUE, !.content_len = Len(Http!NotFoundText)]
        BY <4>1, <4>2, <4>3, <4>4 DEF Http!WriterSet
      <4> QED  BY ONLY <4>7, <4>8
    <3>3. PICK w :
            /\ w = [u EXCEPT !.http_body = Http!NotFoundText]
            /\ w \in Http!WriterSet /\ w.http_body = Http!NotFoundText /\ w.code = 404
      <4>1. Http!NotFoundText \in Seq(Http!TokenSet) \cup {Http!NotFoundText}
        OBVIOUS
      <4>2. PICK w : w = [u EXCEPT !.http_body = Http!NotFoundText]
        OBVIOUS
      <4>3. HasBody(w, u, Http!NotFoundText)
        BY <4>2 DEF HasBody
      <4>4. /\ w \in Http!WriterSet /\ w.http_body = Http!NotFoundText
            /\ w.code = u.code
        <5>1. u \in Http!WriterSet
          BY ONLY <3>2
        <5> QED  BY ONLY <4>1, <4>3, <5>1, WithBody
      <4> QED  BY ONLY <3>2, <4>2, <4>4
    <3>4. Http!OnHttpPost(httpConn, writer) = w
      <4>1. (IF Http!NotFoundText = <<>> THEN u.http_body ELSE Http!NotFoundText) = Http!NotFoundText
        BY ONLY <3>1
      <4>2. Http!OnHttpPost(httpConn, writer) =
              [u EXCEPT !.http_body = IF Http!NotFoundText = <<>> THEN u.http_body ELSE Http!NotFoundText]
        BY <2>2, <2>4, <3>2 DEF Http!OnHttpPost, Http!NotFound, Http!SetBody
      <4> QED  BY ONLY <3>3, <4>1, <4>2
    <3> QED  BY <2>4, <3>3, <3>4
  <2> QED  BY <2>3, <2>4
<1>9. CASE ~(httpConn.messageComplete /\ httpConn.method = "POST")
  <2>1. writer' = writer /\ responses' = responses
    BY <1>9 DEF Http!OnExecuted
  <2>2. Http!TypesInv'
    <3>1. ahead' \in 0..Len(wire') + 1
      BY <1>1, <1>2
    <3>2. sent' # <<>>
      BY <1>1, <1>2
    <3> QED  BY <1>1, <2>1, <3>1, <3>2 DEF Http!HttpInv, Http!TypesInv
  <2>3. Http!FirstInv'
    <3> SUFFICES ASSUME hDisorder = {} PROVE Http!FirstInv'
      BY <1>1 DEF Http!FirstInv
    <3>1. \A i \in 1..ahead' - 1 : wire'[i].req = wire'[1].req
      BY <1>1
    <3>2. CASE Http!Reading
      <4>1. Http!Reading'
        BY <1>1, <1>7, <2>1, <3>2 DEF Http!Reading
      <4> QED  BY <3>1, <4>1 DEF Http!FirstInv
    <3>3. CASE Http!HasRead
      <4>1. PICK k \in Nat : k = sent[1].pieces + 4 /\ k > 1
        BY <1>2, FirstRequest
      <4>2. Http!ReadTo(k) /\ httpConn.messageComplete /\ httpConn.finished = 1
        BY <3>3, <4>1 DEF Http!HasRead
      <4>3. sent[1].method # "POST"
        BY <1>9, <4>1, <4>2 DEF Http!ReadTo
      <4>4. responses = <<>> /\ writer = Http!NewWriter
        BY <3>3, <4>3 DEF Http!HasRead
      <4>5. Http!ReadTo(sent[1].pieces + 4)'
        BY <1>1, <1>7, <4>1, <4>2 DEF Http!ReadTo
      <4>6. Http!HasRead'
        BY <1>1, <2>1, <4>2, <4>3, <4>4, <4>5 DEF Http!HasRead
      <4> QED  BY <3>1, <4>6 DEF Http!FirstInv
    <3> QED  BY <1>2, <3>2, <3>3 DEF Http!HttpInv, Http!FirstInv
  <2> QED  BY <1>4, <1>5, <1>6, <2>2, <2>3 DEF Http!HttpInv
<1>10. CASE httpConn.messageComplete /\ httpConn.method = "POST"
  <2>1. /\ writer' = w
        /\ responses' = Append(responses, [answer |-> w, finished |-> httpConn.finished])
    BY <1>8, <1>10 DEF Http!OnExecuted
  <2>2. Http!TypesInv'
    <3>1. ahead' \in 0..Len(wire') + 1
      BY <1>1, <1>2
    <3>2. sent' # <<>>
      BY <1>1, <1>2
    <3> QED  BY <1>1, <2>1, <3>1, <3>2 DEF Http!HttpInv, Http!TypesInv
  <2>3. Http!FirstInv'
    <3> SUFFICES ASSUME hDisorder = {} PROVE Http!FirstInv'
      BY <1>1 DEF Http!FirstInv
    <3>1. \A i \in 1..ahead' - 1 : wire'[i].req = wire'[1].req
      BY <1>1
    <3>2. Http!HasRead
      BY <1>2, <1>10 DEF Http!HttpInv, Http!FirstInv, Http!Reading
    <3>3. PICK p \in Nat : p = sent[1].pieces
      BY <1>2, FirstRequest
    <3>4. /\ Http!ReadTo(p + 4) /\ httpConn.finished = 1
          /\ responses = <<>> /\ writer = Http!NewWriter
      BY <1>1, <3>2, <3>3 DEF Http!HasRead
    <3>5. /\ httpConn.url = <<Http!Tokens(1, sent[1])[1], Http!Tokens(1, sent[1])[2]>>
          /\ httpConn.httpBody = [i \in 1..p |-> Http!Tokens(1, sent[1])[i + 3]]
      <4>1. /\ p + 4 > 2 /\ p + 4 # 1 /\ p + 4 # 2
            /\ (IF p + 4 > 4 THEN (p + 4) - 4 ELSE 0) = p
        OBVIOUS
      <4> QED  BY <3>4, <4>1 DEF Http!ReadTo
    <3>6. httpConn.httpBody = Http!BodyOf(1)
      BY <3>3, <3>5 DEF Http!BodyOf
    <3>7. Http!IsRegistered(httpConn.url) <=> sent[1].url = "registered"
      <4>1. Http!Tokens(1, sent[1])[1].req = 1
        BY <1>2, RequestTokens
      <4> QED  BY <3>5, <4>1 DEF Http!IsRegistered
    <3>8. Http!RightAnswer(w, 1)
      BY <1>8, <3>4, <3>6, <3>7 DEF Http!RightAnswer
    <3>9. Len(responses') = 1 /\ responses'[1].finished = 1 /\ responses'[1].answer = w
      BY <2>1, <3>4
    <3>10. Http!RightAnswer(responses[1].answer, 1)'
      BY <1>1, <3>8, <3>9 DEF Http!RightAnswer, Http!BodyOf
    <3>11. Http!ReadTo(sent[1].pieces + 4)'
      BY <1>1, <1>7, <3>3, <3>4 DEF Http!ReadTo
    <3>12. sent[1].method = "POST"
      BY <1>10, <3>4 DEF Http!ReadTo
    <3>13. Http!HasRead'
      BY <1>1, <1>10, <3>4, <3>9, <3>10, <3>11, <3>12 DEF Http!HasRead
    <3> QED  BY <3>1, <3>13 DEF Http!FirstInv
  <2> QED  BY <1>4, <1>5, <1>6, <2>2, <2>3 DEF Http!HttpInv
<1> QED  BY <1>9, <1>10

\* A request that is sent comes behind all that is on the wire.
LEMMA HttpSend ==
    ASSUME Http!HttpInv, NEW r \in Http!Requests, Http!Send(r)
    PROVE  Http!HttpInv'
<1>1. /\ total < MaxRequests /\ total' = total + 1 /\ sent' = Append(sent, r)
      /\ wire' = wire \o Http!Tokens(Len(sent) + 1, r)
      /\ ahead' = ahead /\ httpConn' = httpConn /\ writer' = writer
      /\ responses' = responses /\ hDisorder' = hDisorder
  BY DEF Http!Send
<1>2. /\ sent \in Seq(Http!Requests) /\ wire \in Seq(Http!TokenSet)
      /\ Len(sent) <= total /\ total \in 0..MaxRequests
      /\ ahead \in 0..Len(wire) + 1 /\ MaxRequests \in Nat
      /\ httpConn \in Http!ConnSet
  BY HttpBounds DEF Http!HttpInv, Http!TypesInv
<1>3. PICK L \in Nat : L = Len(sent) /\ L + 1 \in 1..MaxRequests /\ L + 1 <= total'
  BY <1>1, <1>2
<1>4. PICK W \in Nat : W = Len(wire)
  BY <1>2
<1>5. PICK m \in Nat :
        /\ m = r.pieces + 3 /\ m >= 3
        /\ Http!Tokens(L + 1, r) \in Seq(Http!TokenSet) /\ Len(Http!Tokens(L + 1, r)) = m
        /\ \A k \in 1..m :
             /\ Http!Tokens(L + 1, r)[k].req = L + 1 /\ Http!Tokens(L + 1, r)[k].piece = k
             /\ Http!Tokens(L + 1, r)[k].last <=> k = m
  <2>1. PICK n \in Nat :
          /\ n = r.pieces
          /\ Http!Tokens(L + 1, r) \in Seq(Http!TokenSet) /\ Len(Http!Tokens(L + 1, r)) = n + 3
          /\ \A k \in 1..n + 3 :
               /\ Http!Tokens(L + 1, r)[k].req = L + 1 /\ Http!Tokens(L + 1, r)[k].piece = k
               /\ Http!Tokens(L + 1, r)[k].last <=> k = n + 3
    <3>1. PICK i \in 1..MaxRequests : i = L + 1
      BY <1>3
    <3>2. PICK n \in Nat :
            /\ n = r.pieces
            /\ Http!Tokens(i, r) \in Seq(Http!TokenSet) /\ Len(Http!Tokens(i, r)) = n + 3
            /\ \A k \in 1..n + 3 :
                 /\ Http!Tokens(i, r)[k].req = i /\ Http!Tokens(i, r)[k].piece = k
                 /\ Http!Tokens(i, r)[k].last <=> k = n + 3
      <4>1. PICK n \in Nat :
              /\ n = r.pieces /\ n <= RequestPieces
              /\ DOMAIN Http!Tokens(i, r) = 1..n + 3
              /\ i \in 1..MaxRequests =>
                   Http!Tokens(i, r) \in Seq(Http!TokenSet) /\ Len(Http!Tokens(i, r)) = n + 3
              /\ \A k \in 1..n + 3 :
                   /\ Http!Tokens(i, r)[k].req = i /\ Http!Tokens(i, r)[k].piece = k
                   /\ Http!Tokens(i, r)[k].last <=> k = n + 3
                   /\ Http!Tokens(i, r)[k].kind = "url1" <=> k = 1
                   /\ Http!Tokens(i, r)[k].kind = "url2" <=> k = 2
                   /\ Http!Tokens(i, r)[k].kind = "body" <=> k > 3
                   /\ Http!Tokens(i, r)[k].kind \in {"url1", "url2", "head", "body"}
                   /\ Http!Tokens(i, r)[k].last \in BOOLEAN
        BY ONLY RequestTokens, r \in Http!Requests, SMTT(40)
      <4> QED  BY ONLY <3>1, <4>1, SMTT(40)
    <3> QED  BY ONLY <3>1, <3>2
  <2>2. n + 3 \in Nat /\ n + 3 >= 3
    OBVIOUS
  <2> QED  BY <2>1, <2>2
<1>6. PICK T \in Seq(Http!TokenSet) :
        /\ T = Http!Tokens(L + 1, r) /\ Len(T) = m
        /\ \A k \in 1..m : T[k].req = L + 1 /\ T[k].piece = k /\ (T[k].last <=> k = m)
  BY ONLY <1>5
<1>7. /\ wire' \in Seq(Http!TokenSet) /\ Len(wire') = W + m
      /\ \A i \in 1..W : wire'[i] = wire[i]
      /\ \A k \in 1..m : wire'[W + k] = T[k]
  <2>1. wire' = wire \o T
    BY <1>1, <1>3, <1>6
  <2>2. /\ wire \o T \in Seq(Http!TokenSet) /\ Len(wire \o T) = Len(wire) + Len(T)
        /\ \A i \in 1..Len(wire) : (wire \o T)[i] = wire[i]
        /\ \A i \in 1..Len(T) : (wire \o T)[Len(wire) + i] = T[i]
    BY <1>2, <1>6, Behind
  <2> QED  BY ONLY <1>4, <1>6, <2>1, <2>2
<1>8. /\ sent' \in Seq(Http!Requests) /\ Len(sent') = L + 1
      /\ \A i \in 1..L : sent'[i] = sent[i]
      /\ sent'[L + 1] = r
      /\ DOMAIN sent = 1..L /\ DOMAIN sent' = 1..L + 1
  BY <1>1, <1>2, <1>3
<1>9. ASSUME NEW t, Http!IsToken(sent, t)
      PROVE  /\ Http!IsToken(sent', t) /\ t.req \in Nat /\ t.req <= L
  <2>1. t.req \in 1..L /\ t.req \in 1..L + 1
    BY <1>8, <1>9 DEF Http!IsToken
  <2> QED  BY <1>8, <1>9, <2>1 DEF Http!IsToken
<1>10. ASSUME NEW k \in 1..m PROVE Http!IsToken(sent', T[k])
  <2>1. PICK t : t = T[k] /\ t.req = L + 1 /\ t.piece = k
    BY <1>6
  <2>2. L + 1 \in 1..L + 1 /\ k \in 1..r.pieces + 3
    BY <1>5
  <2>3. t = Http!Tokens(L + 1, r)[k]
    BY <1>6, <2>1
  <2> QED  BY <1>8, <2>1, <2>2, <2>3 DEF Http!IsToken
<1>11. ASSUME NEW i \in 1..W + m PROVE i \in 1..W \/ \E k \in 1..m : i = W + k
  <2>1. CASE i <= W
    BY <2>1
  <2>2. CASE i > W
    <3>1. i - W \in 1..m /\ i = W + (i - W)
      BY <2>2
    <3> QED  BY <3>1
  <2> QED  BY <2>1, <2>2
<1>12. Http!TypesInv'
  <2>1. ahead' \in 0..Len(wire') + 1
    BY <1>1, <1>2, <1>4, <1>7
  <2>2. total' \in 0..MaxRequests
    BY <1>1, <1>2
  <2>3. sent' # <<>>
    BY <1>8
  <2> QED  BY <1>1, <1>3, <1>7, <1>8, <2>1, <2>2, <2>3 DEF Http!HttpInv, Http!TypesInv
<1>13. Http!WireInv'
  <2>1. ASSUME NEW i \in 1..W + m PROVE Http!IsToken(sent', wire'[i])
    <3>1. CASE i \in 1..W
      <4>1. Http!IsToken(sent, wire[i])
        BY <1>4, <3>1 DEF Http!HttpInv, Http!WireInv
      <4>2. PICK t : t = wire[i] /\ t = wire'[i]
        BY <1>7, <3>1
      <4> QED  BY <1>9, <4>1, <4>2
    <3>2. ASSUME NEW k \in 1..m, i = W + k PROVE Http!IsToken(sent', wire'[i])
      <4>1. wire'[i] = T[k]
        BY <1>7, <3>2
      <4> QED  BY <1>10, <4>1
    <3> QED  BY <1>11, <3>1, <3>2
  <2>2. ASSUME NEW i \in 1..(W + m) - 1 PROVE Http!Follows(wire'[i], wire'[i + 1])
    <3>1. CASE i \in 1..W - 1
      <4>1. Http!Follows(wire[i], wire[i + 1])
        BY <1>4, <3>1 DEF Http!HttpInv, Http!WireInv
      <4>2. wire'[i] = wire[i] /\ wire'[i + 1] = wire[i + 1]
        BY <1>7, <3>1
      <4> QED  BY <4>1, <4>2
    <3>2. CASE i = W
      <4>1. wire[i].last /\ wire[i].req = L
        BY <1>2, <1>3, <1>4, <3>2 DEF Http!HttpInv, Http!WireInv
      <4>2. wire'[i] = wire[i] /\ 1 \in 1..m
        BY <1>5, <1>7, <3>2
      <4>3. wire'[i + 1] = T[1] /\ T[1].req = L + 1 /\ T[1].piece = 1
        BY <1>6, <1>7, <3>2, <4>2
      <4> QED  BY <4>1, <4>2, <4>3 DEF Http!Follows
    <3>3. CASE i > W
      <4>1. PICK k \in Nat : k = i - W /\ k \in 1..m /\ k + 1 \in 1..m /\ i = W + k /\ i + 1 = W + (k + 1)
        BY <3>3
      <4>2. wire'[i] = T[k] /\ wire'[i + 1] = T[k + 1]
        BY <1>7, <4>1
      <4>3. ~T[k].last /\ T[k].req = L + 1 /\ T[k].piece = k /\ T[k + 1].req = L + 1 /\ T[k + 1].piece = k + 1
        BY <1>6, <4>1
      <4> QED  BY <4>2, <4>3 DEF Http!Follows
    <3> QED  BY <3>1, <3>2, <3>3
  <2>3. ASSUME NEW i \in 1..W + m, NEW j \in 1..W + m, i < j
        PROVE  Http!Earlier(wire'[i], wire'[j])
    <3>1. CASE j \in 1..W
      <4>1. i \in 1..W
        BY <2>3, <3>1
      <4>2. Http!Earlier(wire[i], wire[j])
        BY <1>4, <2>3, <3>1, <4>1 DEF Http!HttpInv, Http!WireInv
      <4> QED  BY <1>7, <3>1, <4>1, <4>2
    <3>2. ASSUME NEW k \in 1..m, j = W + k PROVE Http!Earlier(wire'[i], wire'[j])
      <4>1. wire'[j] = T[k] /\ T[k].req = L + 1 /\ T[k].piece = k
        BY <1>6, <1>7, <3>2
      <4>2. CASE i \in 1..W
        <5>1. Http!IsToken(sent, wire[i]) /\ wire'[i] = wire[i]
          BY <1>4, <1>7, <4>2 DEF Http!HttpInv, Http!WireInv
        <5>2. wire'[i].req \in Nat /\ wire'[i].req <= L
          BY <1>9, <5>1
        <5>3. wire'[i].req < wire'[j].req
          BY <4>1, <5>2
        <5> QED  BY <5>3 DEF Http!Earlier
      <4>3. ASSUME NEW l \in 1..m, i = W + l PROVE Http!Earlier(wire'[i], wire'[j])
        <5>1. wire'[i] = T[l] /\ T[l].req = L + 1 /\ T[l].piece = l
          BY <1>6, <1>7, <4>3
        <5>2. l < k
          BY <2>3, <3>2, <4>3
        <5> QED  BY <4>1, <5>1, <5>2 DEF Http!Earlier
      <4> QED  BY <1>11, <4>2, <4>3
    <3> QED  BY <1>11, <3>1, <3>2
  <2>4. wire'[Len(wire')].last /\ wire'[Len(wire')].req = Len(sent')
    <3>1. m \in 1..m
      BY <1>5
    <3>2. wire'[Len(wire')] = T[m] /\ T[m].last /\ T[m].req = L + 1
      BY <1>6, <1>7, <3>1
    <3> QED  BY <1>8, <3>2
  <2> QED  BY ONLY <1>7, <2>1, <2>2, <2>3, <2>4, WireNext
<1>14. Http!UrlInv'
  <2>1. CASE wire = <<>>
    <3>1. wire'[1].piece = 1
      <4>1. W = 0 /\ 1 \in 1..m /\ W + 1 = 1
        BY <1>4, <1>5, <2>1
      <4> QED  BY <1>6, <1>7, <4>1
    <3> QED  BY <1>1, <3>1 DEF Http!HttpInv, Http!UrlInv
  <2>2. CASE wire # <<>>
    <3>1. wire'[1] = wire[1]
      <4>1. 1 \in 1..W
        BY <1>2, <1>4, <2>2
      <4> QED  BY <1>7, <4>1
    <3> QED  BY <1>1, <2>2, <3>1 DEF Http!HttpInv, Http!UrlInv
  <2> QED  BY <2>1, <2>2
<1>15. Http!BodyInv'
  <2>0. PICK b : b = httpConn.httpBody /\ b = httpConn'.httpBody
    BY <1>1
  <2>1. ASSUME NEW i \in DOMAIN b
        PROVE  /\ Http!IsToken(sent', b[i]) /\ b[i].piece > 3
               /\ \A j \in 1..Len(wire') : Http!Earlier(b[i], wire'[j])
    <3>1. PICK t : t = b[i]
      OBVIOUS
    <3>2. /\ Http!IsToken(sent, t) /\ t.piece > 3
          /\ \A j \in 1..W : Http!Earlier(t, wire[j])
      BY <1>4, <2>0, <3>1 DEF Http!HttpInv, Http!BodyInv
    <3>3. Http!IsToken(sent', t) /\ t.req \in Nat /\ t.req <= L
      BY <1>9, <3>2
    <3>4. ASSUME NEW j \in 1..W + m PROVE Http!Earlier(t, wire'[j])
      <4>1. CASE j \in 1..W
        BY <1>7, <3>2, <4>1
      <4>2. ASSUME NEW k \in 1..m, j = W + k PROVE Http!Earlier(t, wire'[j])
        <5>1. wire'[j] = T[k] /\ T[k].req = L + 1
          BY <1>6, <1>7, <4>2
        <5>2. t.req < wire'[j].req
          BY <3>3, <5>1
        <5> QED  BY <5>2 DEF Http!Earlier
      <4> QED  BY <1>11, <4>1, <4>2
    <3> QED  BY <1>7, <3>1, <3>2, <3>3, <3>4
  <2>2. \A i, j \in DOMAIN b : i < j => Http!Earlier(b[i], b[j])
    BY <2>0 DEF Http!HttpInv, Http!BodyInv
  <2>3. ASSUME NEW i \in 1..L + 1, NEW p \in 1..sent'[i].pieces
        PROVE  Http!Tokens(i, sent'[i])[p + 3] \in Http!ToSet(httpConn.httpBody) \cup Http!ToSet(wire')
    <3>1. CASE i \in 1..L
      <4>1. sent'[i] = sent[i] /\ i \in DOMAIN sent
        BY <1>8, <3>1
      <4>2. Http!Tokens(i, sent[i])[p + 3] \in Http!ToSet(httpConn.httpBody) \cup Http!ToSet(wire)
        BY <2>3, <4>1 DEF Http!HttpInv, Http!BodyInv
      <4>3. Http!ToSet(wire) \subseteq Http!ToSet(wire')
        <5>1. DOMAIN wire = 1..W /\ DOMAIN wire' = 1..W + m
          BY <1>2, <1>4, <1>7
        <5>2. ASSUME NEW x \in 1..W PROVE x \in 1..W + m /\ wire[x] = wire'[x]
          BY <1>5, <1>7
        <5> QED  BY <5>1, <5>2 DEF Http!ToSet
      <4> QED  BY <4>1, <4>2, <4>3
    <3>2. CASE i = L + 1
      <4>1. sent'[i] = r /\ p \in 1..r.pieces
        BY <1>8, <2>3, <3>2
      <4>2. p + 3 \in 1..m /\ W + (p + 3) \in 1..W + m
        <5>1. PICK n \in Nat : n = r.pieces /\ m = n + 3
          BY <1>5, RequestTokens
        <5>2. p \in 1..n
          BY <4>1, <5>1
        <5> QED  BY <5>1, <5>2
      <4>3. wire'[W + (p + 3)] = Http!Tokens(i, sent'[i])[p + 3]
        BY <1>6, <1>7, <3>2, <4>1, <4>2
      <4>4. W + (p + 3) \in DOMAIN wire'
        BY <1>7, <4>2
      <4> QED  BY <4>3, <4>4 DEF Http!ToSet
    <3> QED  BY <3>1, <3>2
  <2>4. \A i \in DOMAIN sent' : \A p \in 1..sent'[i].pieces :
          Http!Tokens(i, sent'[i])[p + 3] \in Http!ToSet(b) \cup Http!ToSet(wire')
    BY <1>8, <2>0, <2>3
  <2> QED  BY ONLY <2>0, <2>1, <2>2, <2>4, BodyNext
<1>16. Http!FirstInv'
  <2> SUFFICES ASSUME hDisorder = {} PROVE Http!FirstInv'
    BY <1>1 DEF Http!FirstInv
  <2>1. \A i \in 1..ahead' - 1 : wire'[i].req = wire'[1].req
    <3> SUFFICES ASSUME NEW i \in 1..ahead - 1 PROVE wire'[i].req = wire'[1].req
      BY <1>1
    <3>1. i \in 1..W /\ 1 \in 1..W
      BY <1>2, <1>4
    <3>2. wire[i].req = wire[1].req
      BY DEF Http!HttpInv, Http!FirstInv
    <3> QED  BY <1>7, <3>1, <3>2
  <2>2. CASE sent = <<>>
    <3>1. /\ wire = <<>> /\ httpConn = Http!NoConn /\ writer = Http!NewWriter /\ responses = <<>>
      BY <2>2 DEF Http!HttpInv, Http!TypesInv
    <3>2. W = 0 /\ L = 0 /\ 1 \in 1..m /\ W + 1 = 1
      BY <1>3, <1>4, <1>5, <2>2, <3>1
    <3>3. wire'[1].req = 1 /\ wire'[1].piece = 1 /\ wire' # <<>>
      BY <1>6, <1>7, <3>2
    <3>4. Http!ReadTo(1)'
      <4>1. [p \in 1..0 |-> Http!Tokens(1, sent'[1])[p + 3]] = <<>>
        OBVIOUS
      <4>2. (IF 1 > 4 THEN 1 - 4 ELSE 0) = 0 /\ ~(1 > 2) /\ ~(1 = 2) /\ ~(1 > 1)
        OBVIOUS
      <4>3. httpConn'.url = <<>> /\ httpConn'.httpBody = <<>>
        BY <1>1, <3>1, ConnTypes
      <4> QED  BY <4>1, <4>2, <4>3 DEF Http!ReadTo
    <3>5. Http!Reading'
      <4>1. Http!ReadTo(wire[1].piece)'
        BY <3>3, <3>4 DEF Http!ReadTo
      <4>2. ~httpConn'.messageComplete
        BY <1>1, <3>1, ConnTypes
      <4> QED  BY <1>1, <3>1, <3>3, <4>1, <4>2 DEF Http!Reading, Http!NewWriter
    <3> QED  BY <2>1, <3>5 DEF Http!FirstInv
  <2>3. CASE sent # <<>>
    <3>1. 1 \in 1..L /\ sent'[1] = sent[1]
      BY <1>2, <1>3, <1>8, <2>3
    <3>2. \A k : Http!ReadTo(k)' <=> Http!ReadTo(k)
      BY <1>1, <3>1 DEF Http!ReadTo
    <3>3. CASE Http!Reading
      <4>1. wire'[1] = wire[1] /\ wire' # <<>>
        <5>1. 1 \in 1..W
          BY <1>2, <1>4, <3>3 DEF Http!Reading
        <5> QED  BY <1>7, <5>1
      <4>2. Http!ReadTo(wire[1].piece)'
        BY <3>2, <3>3, <4>1 DEF Http!Reading, Http!ReadTo
      <4>3. Http!Reading'
        BY <1>1, <3>3, <4>1, <4>2 DEF Http!Reading, Http!NewWriter
      <4> QED  BY <2>1, <4>3 DEF Http!FirstInv
    <3>4. CASE Http!HasRead
      <4>1. Http!ReadTo(sent[1].pieces + 4)'
        BY <3>1, <3>2, <3>4 DEF Http!HasRead, Http!ReadTo
      <4>2. \A a : Http!RightAnswer(a, 1)' <=> Http!RightAnswer(a, 1)
        BY <3>1 DEF Http!RightAnswer, Http!BodyOf
      <4>3. PICK a : a = responses[1].answer
        OBVIOUS
      <4>4. Http!RightAnswer(responses[1].answer, 1) <=> Http!RightAnswer(a, 1)
        BY <4>3
      <4>5. Http!RightAnswer(responses[1].answer, 1)' <=> Http!RightAnswer(a, 1)'
        BY <1>1, <4>3 DEF Http!RightAnswer
      <4>6. Http!HasRead'
        BY <1>1, <3>1, <3>4, <4>1, <4>2, <4>4, <4>5 DEF Http!HasRead, Http!NewWriter
      <4> QED  BY <2>1, <4>6 DEF Http!FirstInv
    <3> QED  BY <2>3, <3>3, <3>4 DEF Http!HttpInv, Http!FirstInv
  <2> QED  BY <2>2, <2>3
<1> QED  BY <1>12, <1>13, <1>14, <1>15, <1>16 DEF Http!HttpInv

\* A connection with what a token changes.
HasUrl(g, h, u, m)   == g = [h EXCEPT !.url = u, !.method = m, !.merging = TRUE]
HasMoreBody(g, h, b) == g = [h EXCEPT !.httpBody = b]
HasEnd(g, h, i)      == g = [h EXCEPT !.messageComplete = TRUE, !.finished = i]

LEMMA WithUrl ==
    ASSUME NEW h, h \in Http!ConnSet, NEW u, u \in Seq(Http!TokenSet),
           NEW m, m \in Http!Methods, NEW g, HasUrl(g, h, u, m)
    PROVE  /\ g \in Http!ConnSet /\ g.url = u /\ g.method = m /\ g.merging
           /\ g.httpBody = h.httpBody /\ g.messageComplete = h.messageComplete
           /\ g.finished = h.finished
BY DEF HasUrl, Http!ConnSet

LEMMA WithMoreBody ==
    ASSUME NEW h, h \in Http!ConnSet, NEW b, b \in Seq(Http!TokenSet),
           NEW g, HasMoreBody(g, h, b)
    PROVE  /\ g \in Http!ConnSet /\ g.httpBody = b
           /\ g.url = h.url /\ g.method = h.method /\ g.merging = h.merging
           /\ g.messageComplete = h.messageComplete /\ g.finished = h.finished
BY DEF HasMoreBody, Http!ConnSet

LEMMA WithEnd ==
    ASSUME NEW h, h \in Http!ConnSet, NEW i, i \in Nat, NEW g, HasEnd(g, h, i)
    PROVE  /\ g \in Http!ConnSet /\ g.messageComplete = TRUE /\ g.finished = i
           /\ g.url = h.url /\ g.method = h.method /\ g.merging = h.merging
           /\ g.httpBody = h.httpBody
BY DEF HasEnd, Http!ConnSet

LEMMA OneMore ==
    ASSUME NEW S, NEW s \in Seq(S), NEW x \in S
    PROVE  /\ Append(s, x) \in Seq(S) /\ Len(Append(s, x)) = Len(s) + 1
           /\ \A i \in 1..Len(s) : Append(s, x)[i] = s[i]
           /\ Append(s, x)[Len(s) + 1] = x
OBVIOUS

LEMMA AppendToOne ==
    ASSUME NEW a, NEW b
    PROVE  Append(<<a>>, b) = <<a, b>>
<1>1. PICK s \in Seq({a, b}) : s = <<a>> /\ Len(s) = 1 /\ s[1] = a
  <2>1. <<a>> \in Seq({a, b}) /\ Len(<<a>>) = 1 /\ <<a>>[1] = a
    OBVIOUS
  <2> QED  BY ONLY <2>1
<1>2. PICK t \in Seq({a, b}) : t = <<a, b>> /\ Len(t) = 2 /\ t[1] = a /\ t[2] = b
  <2>1. <<a, b>> \in Seq({a, b}) /\ Len(<<a, b>>) = 2 /\ <<a, b>>[1] = a /\ <<a, b>>[2] = b
    OBVIOUS
  <2> QED  BY ONLY <2>1
<1>3. PICK u \in Seq({a, b}) : u = Append(s, b) /\ Len(u) = 2 /\ u[1] = a /\ u[2] = b
  <2>1. /\ Append(s, b) \in Seq({a, b}) /\ Len(Append(s, b)) = Len(s) + 1
        /\ \A i \in 1..Len(s) : Append(s, b)[i] = s[i]
        /\ Append(s, b)[Len(s) + 1] = b
    BY OneMore
  <2>2. 1 + 1 = 2 /\ 1 \in 1..1
    OBVIOUS
  <2> QED  BY ONLY <1>1, <2>1, <2>2
<1>4. Len(u) = Len(t) /\ \A i \in 1..Len(u) : u[i] = t[i]
  <2>1. \A i \in 1..2 : i = 1 \/ i = 2
    OBVIOUS
  <2> QED  BY ONLY <1>2, <1>3, <2>1
<1>5. u = t
  BY <1>4, SameSequence
<1> QED  BY ONLY <1>1, <1>2, <1>3, <1>5

\* What a connection is after a token.
LEMMA TokenRead ==
    ASSUME NEW h, h \in Http!ConnSet, NEW t, t \in Http!TokenSet,
           sent[t.req].method \in Http!Methods
    PROVE  \E g \in Http!ConnSet :
             /\ g = Http!OnToken(h, t)
             /\ t.kind = "body" => g.httpBody = Append(h.httpBody, t)
             /\ t.kind # "body" => g.httpBody = h.httpBody
             /\ t.kind \in {"url1", "url2"} => g.method = sent[t.req].method /\ g.merging = TRUE
             /\ t.kind \notin {"url1", "url2"} =>
                  g.method = h.method /\ g.merging = h.merging /\ g.url = h.url
             /\ t.kind = "url2" /\ h.merging => g.url = Append(h.url, t)
             /\ t.kind = "url1" => g.url = <<t>>
             /\ t.kind = "url2" /\ ~h.merging => g.url = <<t>>
             /\ t.last => g.messageComplete = TRUE /\ g.finished = t.req
             /\ ~t.last => g.messageComplete = h.messageComplete /\ g.finished = h.finished
<1>1. /\ t.kind \in {"url1", "url2", "head", "body"} /\ t.last \in BOOLEAN /\ t.req \in Nat
      /\ h.url \in Seq(Http!TokenSet) /\ h.httpBody \in Seq(Http!TokenSet)
  BY HttpBounds DEF Http!TokenSet, Http!ConnSet
<1>2. PICK m \in Http!Methods : m = sent[t.req].method
  OBVIOUS
<1>3. PICK f :
        /\ f = (IF t.kind = "body" THEN Http!OnBody(h, t)
                ELSE IF t.kind = "head" THEN h ELSE Http!OnUrl(h, t))
        /\ f \in Http!ConnSet
        /\ f.messageComplete = h.messageComplete /\ f.finished = h.finished
        /\ t.kind = "body" => f.httpBody = Append(h.httpBody, t)
        /\ t.kind # "body" => f.httpBody = h.httpBody
        /\ t.kind \in {"url1", "url2"} => f.method = m /\ f.merging = TRUE
        /\ t.kind \notin {"url1", "url2"} =>
             f.method = h.method /\ f.merging = h.merging /\ f.url = h.url
        /\ t.kind = "url2" /\ h.merging => f.url = Append(h.url, t)
        /\ t.kind = "url1" => f.url = <<t>>
        /\ t.kind = "url2" /\ ~h.merging => f.url = <<t>>
  <2>1. CASE t.kind = "body"
    <3>1. PICK b \in Seq(Http!TokenSet) : b = Append(h.httpBody, t)
      <4>1. Append(h.httpBody, t) \in Seq(Http!TokenSet)
        BY <1>1, OneMore
      <4> QED  BY ONLY <4>1
    <3>2. PICK g : g = [h EXCEPT !.httpBody = b]
      OBVIOUS
    <3>3. HasMoreBody(g, h, b)
      BY <3>2 DEF HasMoreBody
    <3>4. /\ g \in Http!ConnSet /\ g.httpBody = b
          /\ g.url = h.url /\ g.method = h.method /\ g.merging = h.merging
          /\ g.messageComplete = h.messageComplete /\ g.finished = h.finished
      BY <3>3, WithMoreBody
    <3>5. g = Http!OnBody(h, t)
      BY <3>1, <3>2 DEF Http!OnBody
    <3> QED  BY <2>1, <3>1, <3>4, <3>5
  <2>2. CASE t.kind = "head"
    BY <2>2
  <2>3. CASE t.kind \in {"url1", "url2"}
    <3>1. PICK u \in Seq(Http!TokenSet) :
            /\ u = IF t.kind = "url2" /\ h.merging THEN Append(h.url, t) ELSE <<t>>
      <4>1. Append(h.url, t) \in Seq(Http!TokenSet)
        BY <1>1, OneMore
      <4>2. <<t>> \in Seq(Http!TokenSet)
        OBVIOUS
      <4> QED  BY ONLY <4>1, <4>2
    <3>2. PICK g : g = [h EXCEPT !.url = u, !.method = m, !.merging = TRUE]
      OBVIOUS
    <3>3. HasUrl(g, h, u, m)
      BY <3>2 DEF HasUrl
    <3>4. /\ g \in Http!ConnSet /\ g.url = u /\ g.method = m /\ g.merging = TRUE
          /\ g.httpBody = h.httpBody /\ g.messageComplete = h.messageComplete
          /\ g.finished = h.finished
      <4>1. h \in Http!ConnSet /\ u \in Seq(Http!TokenSet) /\ m \in Http!Methods
        BY <3>1
      <4>2. /\ g \in Http!ConnSet /\ g.url = u /\ g.method = m /\ g.merging
            /\ g.httpBody = h.httpBody /\ g.messageComplete = h.messageComplete
            /\ g.finished = h.finished
        BY ONLY <3>3, <4>1, WithUrl
      <4>3. g.merging = TRUE
        BY ONLY <4>2 DEF Http!ConnSet
      <4> QED  BY ONLY <4>2, <4>3
    <3>5. g = Http!OnUrl(h, t)
      BY <1>2, <3>1, <3>2 DEF Http!OnUrl
    <3> QED  BY <2>3, <3>1, <3>4, <3>5
  <2> QED  BY <1>1, <2>1, <2>2, <2>3
<1>4. Http!OnToken(h, t) = Http!OnMessageComplete(f, t)
  BY <1>3 DEF Http!OnToken
<1>5. CASE ~t.last
  <2>1. Http!OnToken(h, t) = f
    BY <1>4, <1>5 DEF Http!OnMessageComplete
  <2> QED  BY <1>2, <1>3, <1>5, <2>1
<1>6. CASE t.last
  <2>1. PICK g : g = [f EXCEPT !.messageComplete = TRUE, !.finished = t.req]
    OBVIOUS
  <2>2. HasEnd(g, f, t.req)
    BY <2>1 DEF HasEnd
  <2>3. /\ g \in Http!ConnSet /\ g.messageComplete = TRUE /\ g.finished = t.req
        /\ g.url = f.url /\ g.method = f.method /\ g.merging = f.merging
        /\ g.httpBody = f.httpBody
    <3>1. f \in Http!ConnSet /\ t.req \in Nat
      BY <1>1, <1>3
    <3> QED  BY ONLY <2>2, <3>1, WithEnd
  <2>4. g = Http!OnToken(h, t)
    BY <1>4, <1>6, <2>1 DEF Http!OnMessageComplete
  <2> QED  BY <1>2, <1>3, <1>6, <2>3, <2>4
<1> QED  BY <1>5, <1>6

\* A token that is read has left the wire, and a body's is kept.
LEMMA HttpExecute == Http!HttpInv /\ Http!Execute => Http!HttpInv'
<1> SUFFICES ASSUME Http!HttpInv, Http!Execute PROVE Http!HttpInv'
  OBVIOUS
<1>1. /\ sent' = sent /\ wire' = Tail(wire) /\ ahead > 1 /\ ahead' = ahead - 1
      /\ httpConn' = Http!OnToken(httpConn, Head(wire)) /\ writer' = writer
      /\ responses' = responses /\ total' = total /\ hDisorder' = hDisorder
  BY DEF Http!Execute
<1>2. /\ sent \in Seq(Http!Requests) /\ wire \in Seq(Http!TokenSet)
      /\ ahead \in 0..Len(wire) + 1 /\ sent # <<>>
      /\ httpConn \in Http!ConnSet
  BY <1>1 DEF Http!HttpInv, Http!TypesInv
<1>3. PICK W \in Nat : W = Len(wire) /\ W >= 1 /\ ahead - 1 \in 1..W /\ 1 \in 1..W
  BY <1>1, <1>2
<1>4. /\ wire' \in Seq(Http!TokenSet) /\ Len(wire') = W - 1 /\ W - 1 \in Nat
      /\ \A i \in 1..W - 1 : wire'[i] = wire[i + 1] /\ i + 1 \in 1..W
      /\ wire # <<>> /\ Head(wire) = wire[1]
  <2>1. wire # <<>>
    BY <1>3
  <2>2. Head(wire) = wire[1]
    BY <1>2, <2>1
  <2>3. Tail(wire) \in Seq(Http!TokenSet) /\ Len(Tail(wire)) = Len(wire) - 1
    BY <1>2, <2>1
  <2>4. \A i \in 1..Len(wire) - 1 : Tail(wire)[i] = wire[i + 1]
    BY <1>2, <2>1
  <2> QED  BY <1>1, <1>3, <2>1, <2>2, <2>3, <2>4
<1>5. PICK t \in Http!TokenSet : t = wire[1] /\ Http!IsToken(sent, t)
  <2>1. wire[1] \in Http!TokenSet
    BY <1>2, <1>3, SeqElement
  <2>2. Http!IsToken(sent, wire[1])
    BY <1>3 DEF Http!HttpInv, Http!WireInv
  <2> QED  BY <2>1, <2>2
<1>6. PICK n \in Nat :
        /\ n = sent[t.req].pieces /\ sent[t.req] \in Http!Requests
        /\ t.req \in Nat /\ t.req \in 1..Len(sent) /\ t.req \in DOMAIN sent
        /\ t.piece \in 1..n + 3
        /\ t = Http!Tokens(t.req, sent[t.req])[t.piece]
        /\ t.last <=> t.piece = n + 3
        /\ t.kind = "url1" <=> t.piece = 1
        /\ t.kind = "url2" <=> t.piece = 2
        /\ t.kind = "body" <=> t.piece > 3
        /\ t.kind \in {"url1", "url2", "head", "body"}
        /\ t.last \in BOOLEAN
  BY <1>2, <1>5, TokenSays
<1>7. PICK k \in Nat :
        /\ k = t.piece /\ k \in 1..n + 3
        /\ t.last <=> k = n + 3
        /\ t.kind = "url1" <=> k = 1
        /\ t.kind = "url2" <=> k = 2
        /\ t.kind = "body" <=> k > 3
        /\ t.kind \in {"url1", "url2"} <=> k < 3
  <2>1. t.piece \in 1..n + 3 /\ t.piece \in Nat
    BY <1>6
  <2>2. PICK k \in Nat : k = t.piece /\ k \in 1..n + 3
    BY <2>1
  <2>3. t.kind \in {"url1", "url2"} <=> k < 3
    <3>1. (t.kind = "url1" <=> k = 1) /\ (t.kind = "url2" <=> k = 2)
      BY <1>6, <2>2
    <3>2. k < 3 <=> k = 1 \/ k = 2
      BY <2>2
    <3> QED  BY <3>1, <3>2
  <2> QED  BY <1>6, <2>2, <2>3
<1>8. PICK g \in Http!ConnSet :
        /\ g = httpConn'
        /\ t.kind = "body" => g.httpBody = Append(httpConn.httpBody, t)
        /\ t.kind # "body" => g.httpBody = httpConn.httpBody
        /\ t.kind \in {"url1", "url2"} => g.method = sent[t.req].method /\ g.merging = TRUE
        /\ t.kind \notin {"url1", "url2"} =>
             g.method = httpConn.method /\ g.merging = httpConn.merging /\ g.url = httpConn.url
        /\ t.kind = "url2" /\ httpConn.merging => g.url = Append(httpConn.url, t)
        /\ t.kind = "url1" => g.url = <<t>>
        /\ t.kind = "url2" /\ ~httpConn.merging => g.url = <<t>>
        /\ t.last => g.messageComplete = TRUE /\ g.finished = t.req
        /\ ~t.last => g.messageComplete = httpConn.messageComplete /\ g.finished = httpConn.finished
  <2>1. sent[t.req].method \in Http!Methods
    BY <1>6 DEF Http!Requests
  <2>2. httpConn' = Http!OnToken(httpConn, t)
    BY <1>1, <1>4, <1>5
  <2> QED  BY <1>2, <2>1, <2>2, TokenRead
<1>9. Http!TypesInv'
  <2>1. ahead' \in 0..Len(wire') + 1
    BY <1>1, <1>3, <1>4
  <2>2. sent' # <<>> /\ httpConn' \in Http!ConnSet
    BY <1>1, <1>2, <1>8
  <2> QED  BY <1>1, <1>4, <2>1, <2>2 DEF Http!HttpInv, Http!TypesInv
<1>10. Http!WireInv'
  <2>1. \A i \in 1..Len(wire') : Http!IsToken(sent', wire'[i])
    BY <1>1, <1>3, <1>4 DEF Http!HttpInv, Http!WireInv
  <2>2. ASSUME NEW i \in 1..Len(wire') - 1 PROVE Http!Follows(wire'[i], wire'[i + 1])
    <3>1. i + 1 \in 1..W - 1 /\ i \in 1..W - 1
      BY <1>3, <1>4
    <3>2. wire'[i] = wire[i + 1] /\ wire'[i + 1] = wire[(i + 1) + 1]
      BY <1>4, <3>1
    <3>3. Http!Follows(wire[i + 1], wire[(i + 1) + 1])
      BY <1>3, <3>1 DEF Http!HttpInv, Http!WireInv
    <3> QED  BY <3>2, <3>3
  <2>3. ASSUME NEW i \in 1..Len(wire'), NEW j \in 1..Len(wire'), i < j
        PROVE  Http!Earlier(wire'[i], wire'[j])
    <3>1. /\ wire'[i] = wire[i + 1] /\ wire'[j] = wire[j + 1]
          /\ i + 1 \in 1..W /\ j + 1 \in 1..W /\ i + 1 < j + 1
      BY <1>4, <2>3
    <3>2. Http!Earlier(wire[i + 1], wire[j + 1])
      BY <1>3, <3>1 DEF Http!HttpInv, Http!WireInv
    <3> QED  BY <3>1, <3>2
  <2>4. ASSUME wire' # <<>> PROVE wire'[Len(wire')].last /\ wire'[Len(wire')].req = Len(sent')
    <3>1. W - 1 \in 1..W - 1 /\ (W - 1) + 1 = W
      BY <1>3, <1>4, <2>4
    <3>2. wire'[Len(wire')] = wire[W]
      BY <1>4, <3>1
    <3>3. wire[W].last /\ wire[W].req = Len(sent)
      BY <1>3, <1>4 DEF Http!HttpInv, Http!WireInv
    <3> QED  BY <1>1, <3>2, <3>3
  <2> QED  BY ONLY <2>1, <2>2, <2>3, <2>4, WireNext
<1>11. ASSUME wire' # <<>>
       PROVE  /\ W >= 2 /\ wire'[1] = wire[2] /\ 2 \in 1..W
              /\ t.last => wire'[1].req = t.req + 1 /\ wire'[1].piece = 1
              /\ ~t.last => wire'[1].req = t.req /\ wire'[1].piece = k + 1
  <2>1. 1 \in 1..W - 1 /\ 1 + 1 = 2 /\ W >= 2 /\ 2 \in 1..W
    BY <1>3, <1>4, <1>11
  <2>2. wire'[1] = wire[2]
    BY <1>4, <2>1
  <2>3. Http!Follows(wire[1], wire[1 + 1])
    BY <1>3, <2>1 DEF Http!HttpInv, Http!WireInv
  <2>4. Http!Follows(t, wire'[1])
    BY <1>5, <2>1, <2>2, <2>3
  <2> QED  BY <1>7, <2>1, <2>2, <2>4 DEF Http!Follows
<1>12. Http!UrlInv'
  <2>1. Len(httpConn.url) <= 2 /\ Len(httpConn.url) \in Nat /\ httpConn.url \in Seq(Http!TokenSet)
    BY <1>2 DEF Http!HttpInv, Http!UrlInv, Http!ConnSet
  <2>2. k = 2 /\ httpConn.merging => Len(httpConn.url) = 1
    BY <1>4, <1>5, <1>7 DEF Http!HttpInv, Http!UrlInv
  <2>3. Len(<<t>>) = 1
    OBVIOUS
  <2>4. Len(g.url) <= 2
    <3>1. CASE k = 2 /\ httpConn.merging
      <4>1. Len(Append(httpConn.url, t)) = 2
        <5>1. Len(Append(httpConn.url, t)) = Len(httpConn.url) + 1
          BY <2>1, OneMore
        <5>2. Len(httpConn.url) = 1
          BY <2>2, <3>1
        <5> QED  BY <5>1, <5>2
      <4>2. g.url = Append(httpConn.url, t)
        BY <1>7, <1>8, <3>1
      <4> QED  BY <4>1, <4>2
    <3>2. CASE k = 1 \/ (k = 2 /\ ~httpConn.merging)
      <4>1. g.url = <<t>>
        BY <1>7, <1>8, <3>2
      <4>2. Len(g.url) = 1
        BY ONLY <2>3, <4>1
      <4> QED  BY <4>2
    <3>3. CASE k > 2
      <4>1. t.kind \notin {"url1", "url2"}
        BY <1>7, <3>3
      <4> QED  BY <1>8, <2>1, <4>1
    <3> QED  BY <1>7, <3>1, <3>2, <3>3
  <2>5. ASSUME wire' # <<>>, wire'[1].piece = 2 PROVE Len(g.url) = 1
    <3>1. k = 1
      BY <1>7, <1>11, <2>5
    <3> QED  BY <1>7, <1>8, <2>3, <3>1
  <2> QED  BY <1>8, <2>4, <2>5 DEF Http!UrlInv
<1>13. Http!BodyInv'
  <2>0. PICK h \in Seq(Http!TokenSet) : h = httpConn.httpBody
    BY <1>2 DEF Http!ConnSet
  <2>00. PICK B \in Nat : B = Len(h) /\ DOMAIN h = 1..B
    BY <2>0
  <2>1. ASSUME NEW i \in 1..B
        PROVE  /\ Http!IsToken(sent, h[i]) /\ h[i].piece > 3
               /\ \A j \in 1..B : i < j => Http!Earlier(h[i], h[j])
               /\ \A j \in 1..W : Http!Earlier(h[i], wire[j])
    BY <1>3, <2>0, <2>00 DEF Http!HttpInv, Http!BodyInv
  <2>2. ASSUME NEW i \in 1..B
        PROVE  /\ Http!Earlier(h[i], t)
               /\ \A j \in 1..W - 1 : Http!Earlier(h[i], wire'[j])
    BY <1>3, <1>4, <1>5, <2>1
  <2>3. ASSUME NEW j \in 1..W - 1 PROVE Http!Earlier(t, wire'[j])
    <3>1. j + 1 \in 1..W /\ 1 < j + 1 /\ wire'[j] = wire[j + 1]
      BY <1>4
    <3>2. Http!Earlier(wire[1], wire[j + 1])
      BY <1>3, <3>1 DEF Http!HttpInv, Http!WireInv
    <3> QED  BY <1>5, <3>1, <3>2
  <2>4. ASSUME NEW x, x \in Http!ToSet(wire) PROVE x = t \/ x \in Http!ToSet(wire')
    <3>1. PICK i \in 1..W : x = wire[i]
      BY <1>2, <1>3, <2>4 DEF Http!ToSet
    <3>2. CASE i = 1
      BY <1>5, <3>1, <3>2
    <3>3. CASE i > 1
      <4>1. i - 1 \in 1..W - 1 /\ (i - 1) + 1 = i
        BY <3>3
      <4>2. wire'[i - 1] = x
        BY <1>4, <3>1, <4>1
      <4>3. i - 1 \in DOMAIN wire'
        BY <1>4, <4>1
      <4> QED  BY <4>2, <4>3 DEF Http!ToSet
    <3> QED  BY <3>2, <3>3
  <2>5. ASSUME NEW i \in DOMAIN sent, NEW p \in 1..sent[i].pieces
        PROVE  /\ Http!Tokens(i, sent[i])[p + 3].kind = "body"
               /\ \/ Http!Tokens(i, sent[i])[p + 3] \in Http!ToSet(h)
                  \/ Http!Tokens(i, sent[i])[p + 3] = t
                  \/ Http!Tokens(i, sent[i])[p + 3] \in Http!ToSet(wire')
    <3>1. PICK r \in Http!Requests : r = sent[i]
      BY <1>2
    <3>2. PICK m \in Nat : m = r.pieces /\ \A l \in 1..m + 3 : Http!Tokens(i, r)[l].kind = "body" <=> l > 3
      BY RequestTokens
    <3>3. p + 3 \in 1..m + 3 /\ p + 3 > 3
      BY <2>5, <3>1, <3>2
    <3>4. Http!Tokens(i, r)[p + 3].kind = "body"
      BY <3>2, <3>3
    <3>5. Http!Tokens(i, sent[i])[p + 3] \in Http!ToSet(httpConn.httpBody) \cup Http!ToSet(wire)
      BY <2>5 DEF Http!HttpInv, Http!BodyInv
    <3> QED  BY <2>0, <2>4, <3>1, <3>4, <3>5
  <2>6. CASE k > 3
    <3>1. PICK b \in Seq(Http!TokenSet) :
            /\ b = g.httpBody /\ Len(b) = B + 1 /\ DOMAIN b = 1..B + 1
            /\ \A i \in 1..B : b[i] = h[i]
            /\ b[B + 1] = t
      <4>1. g.httpBody = Append(h, t)
        BY <1>7, <1>8, <2>0, <2>6
      <4>2. /\ Append(h, t) \in Seq(Http!TokenSet) /\ Len(Append(h, t)) = Len(h) + 1
            /\ \A i \in 1..Len(h) : Append(h, t)[i] = h[i]
            /\ Append(h, t)[Len(h) + 1] = t
        BY OneMore
      <4> QED  BY <2>00, <4>1, <4>2, SMTT(40)
    <3>2. \A i \in DOMAIN b : i \in 1..B \/ i = B + 1
      BY <3>1
    <3>3. ASSUME NEW i \in DOMAIN b
          PROVE  /\ Http!IsToken(sent', b[i]) /\ b[i].piece > 3
                 /\ \A j \in 1..Len(wire') : Http!Earlier(b[i], wire'[j])
      <4>1. CASE i \in 1..B
        BY <1>1, <1>4, <2>1, <2>2, <3>1, <4>1
      <4>2. CASE i = B + 1
        BY <1>1, <1>4, <1>5, <1>7, <2>3, <2>6, <3>1, <4>2
      <4> QED  BY <3>2, <4>1, <4>2
    <3>4. ASSUME NEW i \in DOMAIN b, NEW j \in DOMAIN b, i < j PROVE Http!Earlier(b[i], b[j])
      <4>1. i \in 1..B
        BY <3>1, <3>4
      <4>2. CASE j \in 1..B
        BY <2>1, <3>1, <3>4, <4>1, <4>2
      <4>3. CASE j = B + 1
        BY <2>2, <3>1, <4>1, <4>3
      <4> QED  BY <3>2, <4>2, <4>3
    <3>5. t \in Http!ToSet(b)
      BY <3>1 DEF Http!ToSet
    <3>6. Http!ToSet(h) \subseteq Http!ToSet(b)
      <4>1. ASSUME NEW i \in 1..B PROVE i \in DOMAIN b /\ h[i] = b[i]
        BY <3>1
      <4> QED  BY <2>00, <4>1 DEF Http!ToSet
    <3>7. \A i \in DOMAIN sent' : \A p \in 1..sent'[i].pieces :
            Http!Tokens(i, sent'[i])[p + 3] \in Http!ToSet(b) \cup Http!ToSet(wire')
      BY <1>1, <2>5, <3>5, <3>6
    <3>8. b = httpConn'.httpBody
      BY <1>8, <3>1
    <3> QED  BY ONLY <3>3, <3>4, <3>7, <3>8, BodyNext
  <2>7. CASE ~(k > 3)
    <3>1. h = httpConn'.httpBody
      BY <1>7, <1>8, <2>0, <2>7
    <3>2. ASSUME NEW i \in DOMAIN h
          PROVE  /\ Http!IsToken(sent', h[i]) /\ h[i].piece > 3
                 /\ \A j \in 1..Len(wire') : Http!Earlier(h[i], wire'[j])
      BY <1>1, <1>4, <2>00, <2>1, <2>2
    <3>3. ASSUME NEW i \in DOMAIN h, NEW j \in DOMAIN h, i < j PROVE Http!Earlier(h[i], h[j])
      BY <2>00, <2>1, <3>3
    <3>4. \A i \in DOMAIN sent' : \A p \in 1..sent'[i].pieces :
            Http!Tokens(i, sent'[i])[p + 3] \in Http!ToSet(h) \cup Http!ToSet(wire')
      <4>1. t.kind # "body"
        BY <1>7, <2>7
      <4> QED  BY <1>1, <2>5, <4>1
    <3> QED  BY ONLY <3>1, <3>2, <3>3, <3>4, BodyNext
  <2> QED  BY <2>6, <2>7
<1>14. Http!FirstInv'
  <2> SUFFICES ASSUME hDisorder = {} PROVE Http!FirstInv'
    BY <1>1 DEF Http!FirstInv
  <2>1. \A i \in 1..ahead - 1 : wire[i].req = wire[1].req
    BY DEF Http!HttpInv, Http!FirstInv
  <2>2. ASSUME NEW i \in 1..ahead' - 1 PROVE wire'[i].req = wire'[1].req
    <3>1. i \in 1..W - 1 /\ i + 1 \in 1..ahead - 1 /\ 1 \in 1..W - 1 /\ 1 + 1 \in 1..ahead - 1
      BY <1>1, <1>3, <2>2
    <3>2. wire'[i] = wire[i + 1] /\ wire'[1] = wire[1 + 1]
      BY <1>4, <3>1
    <3> QED  BY <2>1, <3>1, <3>2
  <2>3. Http!Reading
    <3>1. Http!Reading \/ Http!HasRead
      BY <1>2 DEF Http!HttpInv, Http!FirstInv
    <3>2. ~Http!HasRead
      <4>1. ~(ahead <= 1)
        BY <1>1, <1>2
      <4> QED  BY <4>1 DEF Http!HasRead
    <3> QED  BY <3>1, <3>2
  <2>4. /\ t.req = 1 /\ Http!ReadTo(k) /\ ~httpConn.messageComplete
        /\ responses = <<>> /\ writer = Http!NewWriter
    <3>1. wire[1].req = 1 /\ Http!ReadTo(wire[1].piece) /\ ~httpConn.messageComplete
          /\ responses = <<>> /\ writer = Http!NewWriter
      BY <2>3 DEF Http!Reading
    <3>2. wire[1].piece = k
      BY <1>5, <1>7
    <3> QED  BY <1>5, <3>1, <3>2
  <2>5. PICK T : T = Http!Tokens(1, sent[1])
    OBVIOUS
  <2>6. /\ t = T[k] /\ n = sent[1].pieces /\ sent[1] \in Http!Requests
        /\ k = 1 => httpConn.url = <<>>
        /\ k = 2 => httpConn.url = <<T[1]>>
        /\ k > 2 => httpConn.url = <<T[1], T[2]>>
        /\ k > 1 => httpConn.method = sent[1].method
        /\ k = 2 => httpConn.merging
        /\ httpConn.httpBody = [p \in 1..(IF k > 4 THEN k - 4 ELSE 0) |-> T[p + 3]]
    BY <1>6, <1>7, <2>4, <2>5 DEF Http!ReadTo
  <2>7. /\ k + 1 = 2 => g.url = <<T[1]>>
        /\ k + 1 > 2 => g.url = <<T[1], T[2]>>
        /\ g.method = sent[1].method
        /\ k + 1 = 2 => g.merging
    <3>1. CASE k = 1
      BY <1>7, <1>8, <2>4, <2>6, <3>1
    <3>2. CASE k = 2
      <4>1. g.url = Append(<<T[1]>>, t) /\ g.method = sent[1].method
        BY <1>7, <1>8, <2>4, <2>6, <3>2
      <4>2. Append(<<T[1]>>, t) = <<T[1], t>>
        BY AppendToOne
      <4>3. t = T[2]
        BY <2>6, <3>2
      <4> QED  BY <3>2, <4>1, <4>2, <4>3
    <3>3. CASE k > 2
      <4>1. t.kind \notin {"url1", "url2"}
        BY <1>7, <3>3
      <4> QED  BY <1>8, <2>6, <3>3, <4>1
    <3> QED  BY <1>7, <3>1, <3>2, <3>3
  <2>8. g.httpBody = [p \in 1..(IF k + 1 > 4 THEN (k + 1) - 4 ELSE 0) |-> T[p + 3]]
    <3>1. CASE k <= 3
      <4>1. /\ (IF k > 4 THEN k - 4 ELSE 0) = 0
            /\ (IF k + 1 > 4 THEN (k + 1) - 4 ELSE 0) = 0
        BY <3>1
      <4>2. g.httpBody = httpConn.httpBody
        BY <1>7, <1>8, <3>1
      <4> QED  BY <2>6, <4>1, <4>2
    <3>2. CASE k > 3
      <4>1. PICK q \in Nat : q = k - 4 /\ (IF k > 4 THEN k - 4 ELSE 0) = q
                             /\ (IF k + 1 > 4 THEN (k + 1) - 4 ELSE 0) = q + 1 /\ q + 1 + 3 = k
        BY <3>2
      <4>2. PICK h \in Seq(Http!TokenSet) :
              h = httpConn.httpBody /\ h = [p \in 1..q |-> T[p + 3]]
        BY <1>2, <2>6, <4>1 DEF Http!ConnSet
      <4>3. Len(h) = q /\ \A p \in 1..q : h[p] = T[p + 3]
        BY <4>2
      <4>4. /\ g.httpBody \in Seq(Http!TokenSet) /\ Len(g.httpBody) = q + 1
            /\ \A p \in 1..q : g.httpBody[p] = h[p]
            /\ g.httpBody[q + 1] = t
        <5>1. g.httpBody = Append(h, t)
          BY <1>7, <1>8, <3>2, <4>2
        <5>2. /\ Append(h, t) \in Seq(Http!TokenSet) /\ Len(Append(h, t)) = Len(h) + 1
              /\ \A i \in 1..Len(h) : Append(h, t)[i] = h[i]
              /\ Append(h, t)[Len(h) + 1] = t
          BY OneMore
        <5> QED  BY <4>3, <5>1, <5>2
      <4>5. ASSUME NEW p \in 1..q + 1 PROVE g.httpBody[p] = T[p + 3]
        <5>1. CASE p \in 1..q
          BY <4>3, <4>4, <5>1
        <5>2. CASE p = q + 1
          <6>1. p + 3 = k
            BY <4>1, <5>2
          <6> QED  BY <2>6, <4>4, <5>2, <6>1
        <5> QED  BY <5>1, <5>2
      <4>6. PICK b \in Seq(Http!TokenSet) :
              b = g.httpBody /\ Len(b) = q + 1 /\ \A p \in 1..q + 1 : b[p] = T[p + 3]
        BY <4>4, <4>5
      <4>7. b = [p \in 1..q + 1 |-> T[p + 3]]
        <5> DEFINE e(p) == T[p + 3]
        <5>1. ASSUME NEW p \in 1..q + 1 PROVE b[p] \in Http!TokenSet /\ b[p] = e(p)
          BY <4>6, SeqElement
        <5> HIDE DEF e
        <5>2. PICK m \in Nat : m = q + 1
          OBVIOUS
        <5>3. PICK w \in Seq(Http!TokenSet) :
                w = [p \in 1..m |-> e(p)] /\ Len(w) = m /\ \A p \in 1..m : w[p] = e(p)
          <6>1. \A p \in 1..m : e(p) \in Http!TokenSet
            BY <5>1, <5>2
          <6>2. [p \in 1..m |-> e(p)] \in Seq(Http!TokenSet)
            BY <6>1
          <6>3. Len([p \in 1..m |-> e(p)]) = m /\ \A p \in 1..m : [x \in 1..m |-> e(x)][p] = e(p)
            BY <6>2
          <6> QED  BY ONLY <6>2, <6>3
        <5>4. Len(b) = Len(w) /\ \A p \in 1..Len(b) : b[p] = w[p]
          BY <4>6, <5>1, <5>2, <5>3
        <5>5. b = w
          BY <5>4, SameSequence
        <5>6. b = [p \in 1..q + 1 |-> e(p)]
          BY ONLY <5>2, <5>3, <5>5
        <5> QED  BY <5>6 DEF e
      <4> QED  BY ONLY <4>1, <4>6, <4>7
    <3> QED  BY <3>1, <3>2
  <2>9. PICK j \in Nat : j = k + 1 /\ j > 1
    BY <1>7
  <2>10. Http!ReadTo(j)'
    <3>1. T = Http!Tokens(1, sent'[1]) /\ sent'[1].method = sent[1].method
      BY <1>1, <2>5
    <3>2. /\ j # 1
          /\ j = 2 => httpConn'.url = <<T[1]>>
          /\ j > 2 => httpConn'.url = <<T[1], T[2]>>
          /\ httpConn'.method = sent'[1].method
          /\ j = 2 => httpConn'.merging
          /\ httpConn'.httpBody = [p \in 1..(IF j > 4 THEN j - 4 ELSE 0) |-> T[p + 3]]
      BY <1>8, <2>7, <2>8, <2>9, <3>1
    <3> QED  BY <3>1, <3>2 DEF Http!ReadTo
  <2>11. CASE t.last
    <3>1. ahead' = 1
      <4> SUFFICES ASSUME ahead' # 1 PROVE FALSE
        OBVIOUS
      <4>1. 2 \in 1..ahead - 1 /\ 1 \in 1..ahead - 1 /\ W - 1 >= 1
        BY <1>1, <1>2, <1>3
      <4>2. wire' # <<>>
        BY <1>4, <4>1
      <4>3. wire[2].req = t.req /\ wire[2].req = t.req + 1
        BY <1>5, <1>11, <2>1, <2>11, <4>1, <4>2
      <4> QED  BY <1>6, <4>3
    <3>2. j = sent'[1].pieces + 4
      <4>1. n = sent'[1].pieces
        BY <1>1, <2>6
      <4>2. j = n + 4
        BY <1>7, <2>9, <2>11
      <4> QED  BY ONLY <4>1, <4>2
    <3>3. Http!ReadTo(sent[1].pieces + 4)'
      BY <2>10, <3>2 DEF Http!ReadTo
    <3>4. httpConn'.messageComplete /\ httpConn'.finished = 1
      BY <1>8, <2>4, <2>11
    <3>5. Http!HasRead'
      BY <1>1, <2>4, <3>1, <3>3, <3>4 DEF Http!HasRead, Http!NewWriter
    <3> QED  BY <2>2, <3>5 DEF Http!FirstInv
  <2>12. CASE ~t.last
    <3>1. wire' # <<>>
      <4> SUFFICES ASSUME wire' = <<>> PROVE FALSE
        OBVIOUS
      <4>1. W = 1
        <5>1. Len(wire') = 0
          OBVIOUS
        <5>2. W \in Nat /\ Len(wire') = W - 1
          BY <1>3, <1>4
        <5> QED  BY ONLY <5>1, <5>2
      <4>2. wire[1].last
        BY <1>3, <1>4, <4>1 DEF Http!HttpInv, Http!WireInv
      <4> QED  BY <1>5, <2>12, <4>2
    <3>2. wire'[1].req = 1 /\ wire'[1].piece = j
      BY <1>11, <2>4, <2>9, <2>12, <3>1
    <3>3. Http!ReadTo(wire[1].piece)'
      BY <2>10, <3>2 DEF Http!ReadTo
    <3>4. ~httpConn'.messageComplete
      BY <1>8, <2>4, <2>12
    <3>5. Http!Reading'
      BY <1>1, <2>4, <3>1, <3>2, <3>3, <3>4 DEF Http!Reading, Http!NewWriter
    <3> QED  BY <2>2, <3>5 DEF Http!FirstInv
  <2> QED  BY <2>11, <2>12
<1> QED  BY <1>9, <1>10, <1>12, <1>13, <1>14 DEF Http!HttpInv

\* Every step of the server keeps the invariant.
LEMMA HttpSteps == Http!HttpInv /\ [Http!Next]_http => Http!HttpInv'
<1> SUFFICES ASSUME Http!HttpInv, [Http!Next]_http PROVE Http!HttpInv'
  OBVIOUS
<1>1. CASE \E r \in Http!Requests : Http!Send(r)
  BY <1>1, HttpSend
<1>2. CASE \E n \in 1..Len(wire) : Http!OnRecvData(n)
  BY <1>2, HttpOnRecvData
<1>3. CASE Http!Execute
  BY <1>3, HttpExecute
<1>4. CASE Http!OnExecuted
  BY <1>4, HttpOnExecuted
<1>5. CASE Http!OnClosed
  BY <1>5, HttpOnClosed
<1>6. CASE UNCHANGED http
  <2>1. /\ sent' = sent /\ wire' = wire /\ ahead' = ahead /\ httpConn' = httpConn
        /\ writer' = writer /\ responses' = responses /\ total' = total /\ hDisorder' = hDisorder
    BY <1>6 DEF http
  <2>2. Http!TypesInv'
    BY <2>1 DEF Http!HttpInv, Http!TypesInv
  <2>3. Http!WireInv'
    BY <2>1, SameWire DEF Http!HttpInv
  <2>4. Http!UrlInv'
    BY <2>1 DEF Http!HttpInv, Http!UrlInv
  <2>5. Http!BodyInv'
    BY <2>1, SameBody DEF Http!HttpInv
  <2>6. Http!FirstInv'
    <3>1. Http!ReadTo(wire[1].piece)' <=> Http!ReadTo(wire[1].piece)
      BY <2>1 DEF Http!ReadTo
    <3>2. Http!ReadTo(sent[1].pieces + 4)' <=> Http!ReadTo(sent[1].pieces + 4)
      BY <2>1 DEF Http!ReadTo
    <3>3. Http!RightAnswer(responses[1].answer, 1)' <=> Http!RightAnswer(responses[1].answer, 1)
      BY <2>1 DEF Http!RightAnswer, Http!BodyOf
    <3>4. Http!Reading' <=> Http!Reading
      BY <2>1, <3>1 DEF Http!Reading, Http!NewWriter
    <3>5. Http!HasRead' <=> Http!HasRead
      BY <2>1, <3>2, <3>3 DEF Http!HasRead, Http!NewWriter
    <3> QED  BY <2>1, <3>4, <3>5 DEF Http!HttpInv, Http!FirstInv
  <2> QED  BY <2>2, <2>3, <2>4, <2>5, <2>6 DEF Http!HttpInv
<1> QED  BY <1>1, <1>2, <1>3, <1>4, <1>5, <1>6 DEF Http!Next

\* What the invariant says of the answers and of the bodies.
LEMMA HttpInvSays ==
    ASSUME Http!HttpInv
    PROVE  /\ Http!TypeOK /\ Http!FirstAnswered
           /\ Http!AnsweredWhenRead /\ Http!BodiesNeverReset
<1>1. /\ sent \in Seq(Http!Requests) /\ wire \in Seq(Http!TokenSet)
      /\ httpConn \in Http!ConnSet /\ writer \in Http!WriterSet
      /\ httpConn.httpBody \in Seq(Http!TokenSet)
      /\ sent = <<>> => responses = <<>> /\ httpConn = Http!NoConn
  BY DEF Http!HttpInv, Http!TypesInv, Http!ConnSet
<1>2. Http!TypeOK
  <2>1. sent \in Seq(Http!Requests) /\ wire \in Seq(Http!TokenSet) /\ ahead \in 0..Len(wire) + 1
        /\ total \in 0..MaxRequests /\ hDisorder \subseteq {"kept_alive", "url_cut", "pipelined"}
    BY DEF Http!HttpInv, Http!TypesInv
  <2>2. /\ httpConn.url \in Seq(Http!TokenSet) /\ httpConn.httpBody \in Seq(Http!TokenSet)
        /\ httpConn.messageComplete \in BOOLEAN
    BY <1>1 DEF Http!ConnSet
  <2>3. writer.code \in {200, 404} /\ writer.content_len \in Nat \cup {-1}
    BY <1>1 DEF Http!WriterSet
  <2>4. Len(httpConn.url) <= 2
    BY DEF Http!HttpInv, Http!UrlInv
  <2> QED  BY <2>1, <2>2, <2>3, <2>4 DEF Http!TypeOK
<1>3. ASSUME hDisorder = {}, sent # <<>> PROVE Http!Reading \/ Http!HasRead
  BY <1>3 DEF Http!HttpInv, Http!FirstInv
<1>4. Http!FirstAnswered
  <2> SUFFICES ASSUME hDisorder = {}, NEW i \in DOMAIN responses
               PROVE  responses[i].finished = i /\ Http!RightAnswer(responses[i].answer, i)
    BY DEF Http!FirstAnswered
  <2>1. responses # <<>>
    OBVIOUS
  <2>2. sent # <<>> /\ ~Http!Reading
    BY <1>1, <2>1 DEF Http!Reading
  <2>3. Http!HasRead
    BY <1>3, <2>2
  <2>4. /\ Len(responses) = 1 /\ responses[1].finished = 1
        /\ Http!RightAnswer(responses[1].answer, 1)
    <3>1. ahead \in Nat
      BY <1>2 DEF Http!TypeOK
    <3>2. ahead = 0 /\ sent[1].method = "POST"
      BY <2>1, <2>3, <3>1 DEF Http!HasRead
    <3> QED  BY <2>3, <3>2 DEF Http!HasRead
  <2>5. i = 1
    BY <2>4
  <2> QED  BY <2>4, <2>5
<1>5. Http!AnsweredWhenRead
  <2> SUFFICES ASSUME hDisorder = {}, wire = <<>>, ahead = 0, Len(sent) = 1
               PROVE  Len(responses) = IF sent[1].method = "POST" THEN 1 ELSE 0
    BY DEF Http!AnsweredWhenRead
  <2>1. sent # <<>> /\ ~Http!Reading
    BY DEF Http!Reading
  <2>2. Http!HasRead
    BY <1>3, <2>1
  <2> QED  BY <2>2 DEF Http!HasRead
<1>6. Http!BodiesNeverReset
  <2>1. PICK h \in Seq(Http!TokenSet) : h = httpConn.httpBody
    BY <1>1
  <2>2. \A i, j \in DOMAIN h : i < j => Http!Earlier(h[i], h[j])
    BY <2>1 DEF Http!HttpInv, Http!BodyInv
  <2>3. ASSUME NEW x, x \in Http!ToSet(h)
        PROVE  x \in (UNION {Http!ToSet(Http!BodyOf(i)) : i \in DOMAIN sent}) \ Http!ToSet(wire)
    <3>1. PICK i \in DOMAIN h : x = h[i]
      BY <2>3 DEF Http!ToSet
    <3>2. /\ Http!IsToken(sent, x) /\ x.piece > 3
          /\ \A j \in 1..Len(wire) : Http!Earlier(x, wire[j])
      BY <2>1, <3>1 DEF Http!HttpInv, Http!BodyInv
    <3>3. PICK n \in Nat :
            /\ n = sent[x.req].pieces /\ x.req \in Nat /\ x.req \in DOMAIN sent
            /\ x.piece \in 1..n + 3 /\ x = Http!Tokens(x.req, sent[x.req])[x.piece]
      BY <1>1, <3>2, TokenSays
    <3>4. x \notin Http!ToSet(wire)
      <4> SUFFICES ASSUME x \in Http!ToSet(wire) PROVE FALSE
        OBVIOUS
      <4>1. PICK j \in 1..Len(wire) : x = wire[j]
        BY <1>1 DEF Http!ToSet
      <4>2. Http!Earlier(x, x)
        BY <3>2, <4>1
      <4>3. x.req \in Nat /\ x.piece \in Nat
        BY <3>3
      <4> QED  BY <4>2, <4>3 DEF Http!Earlier
    <3>5. x \in Http!ToSet(Http!BodyOf(x.req))
      <4>1. PICK p \in 1..n : p = x.piece - 3 /\ p + 3 = x.piece
        BY <3>2, <3>3
      <4>2. PICK q : q = x.req
        OBVIOUS
      <4>3. Http!BodyOf(q) = [i1 \in 1..n |-> Http!Tokens(q, sent[q])[i1 + 3]]
        BY <3>3, <4>2 DEF Http!BodyOf
      <4>4. p \in DOMAIN Http!BodyOf(q) /\ Http!BodyOf(q)[p] = x
        BY <3>3, <4>1, <4>2, <4>3
      <4> QED  BY <4>2, <4>4 DEF Http!ToSet
    <3> QED  BY <3>3, <3>4, <3>5
  <2>4. ASSUME NEW x, x \in (UNION {Http!ToSet(Http!BodyOf(i)) : i \in DOMAIN sent}) \ Http!ToSet(wire)
        PROVE  x \in Http!ToSet(h)
    <3>1. PICK i \in DOMAIN sent : x \in Http!ToSet(Http!BodyOf(i))
      BY <2>4
    <3>2. PICK p \in DOMAIN Http!BodyOf(i) : x = Http!BodyOf(i)[p]
      BY <3>1 DEF Http!ToSet
    <3>3. p \in 1..sent[i].pieces /\ x = Http!Tokens(i, sent[i])[p + 3]
      BY <3>2 DEF Http!BodyOf
    <3>4. x \in Http!ToSet(httpConn.httpBody) \cup Http!ToSet(wire)
      BY <3>3 DEF Http!HttpInv, Http!BodyInv
    <3> QED  BY <2>1, <2>4, <3>4
  <2> QED  BY <2>1, <2>2, <2>3, <2>4 DEF Http!BodiesNeverReset
<1> QED  BY <1>2, <1>4, <1>5, <1>6

-----------------------------------------------------------------------------
(* What they say together *)

\* In every behaviour, however many requests, pieces and cuts there are (HttpConn
\* and HttpClient, NetCore.cc and http_conn.cc): a first request is answered when
\* all of it is read, once and with its own body, no byte of a body is lost or
\* doubled, and the client is handed a body whole and once, or a part of it.
THEOREM BodiesAreKept == MCSpec => []BodiesSurvive
<1>1. MCInit => Http!HttpInv /\ Client!ClientInv
  BY HttpStarts, ClientStarts DEF MCInit
<1>2. Http!HttpInv /\ [MCNext]_all => Http!HttpInv'
  <2>1. [MCNext]_all => [Http!Next]_http
    BY DEF MCNext, all
  <2> QED  BY <2>1, HttpSteps
<1>3. Client!ClientInv /\ [MCNext]_all => Client!ClientInv'
  <2>1. [MCNext]_all => [Client!Next]_client
    BY DEF MCNext, all
  <2> QED  BY <2>1, ClientSteps
<1>4. MCSpec => MCInit /\ [][MCNext]_all
  BY DEF MCSpec
<1>5. Http!HttpInv /\ Client!ClientInv => BodiesSurvive
  BY HttpInvSays, ClientInvSays DEF BodiesSurvive
<1> QED  BY <1>1, <1>2, <1>3, <1>4, <1>5, PTL

\* What the buffers' calls put in and take out, and how long a ring is.
RingTypes ==
    /\ length_ \in RingLen..MaxRing
    /\ ringGiven \in Seq(Bytes) /\ ringTaken \in Seq(Bytes)

CacheTypes ==
    /\ Buffers!CopyFrom(bytes, 0, length) \in Seq(Bytes)
    /\ cacheGiven \in Seq(Bytes) /\ cacheTaken \in Seq(Bytes)

\* No bytes are a sequence of bytes.
LEMMA NoBytes == <<>> \in Seq(Bytes)
OBVIOUS

\* A step of the ring is one of the queue, and that gives and takes bytes.
LEMMA RingTypesStep ==
    ASSUME Buffers!RingInv, RingTypes, Buffers!RingNext
    PROVE  RingTypes'
<1>1. /\ length_ \in Nat \ {0} /\ r_Pos_ \in 0..length_ /\ w_Pos_ \in 0..length_
      /\ RingLen \in Nat /\ MaxRing \in Nat
  BY RingIs, BuffersAssumption DEF Buffers!LengthsAssumption
<1>2. PICK q \in Seq(Bytes) : q = Buffers!Readable(buf_, r_Pos_, w_Pos_, length_)
  <2>1. CASE r_Pos_ # w_Pos_
    BY <2>1, RingIs
  <2>2. CASE r_Pos_ = w_Pos_
    <3>1. Buffers!GetUsed(r_Pos_, w_Pos_, length_) = 0
      BY <1>1, <2>2, UsedIs
    <3>2. Buffers!Readable(buf_, r_Pos_, w_Pos_, length_) = <<>>
      BY <3>1 DEF Buffers!Readable
    <3> QED  BY ONLY <3>2, NoBytes
  <2> QED  BY <2>1, <2>2
<1>3. length_' \in RingLen..MaxRing
  <2>1. length_' = length_ \/ (length_' = length_ + 1 /\ length_ + 1 <= MaxRing)
    BY DEF Buffers!RingNext, Buffers!WriteData, Buffers!WriteRefused, Buffers!WriteStraight,
       Buffers!WriteWrapped, Buffers!ReadData, Buffers!ReadNothing, Buffers!AddRingBufSpace,
       Buffers!ClearRing
  <2> QED  BY <1>1, <2>1 DEF RingTypes
<1>4. ringGiven' \in Seq(Bytes) /\ ringTaken' \in Seq(Bytes)
  <2>1. Buffers!RingQueue!QNext
    BY RingStep
  <2>2. ASSUME NEW d \in Buffers!RingQueue!Pieces,
               Buffers!RingQueue!Push(d) \/ Buffers!RingQueue!Overfill(d)
        PROVE  ringGiven' \in Seq(Bytes) /\ ringTaken' \in Seq(Bytes)
    <3>1. d \in Seq(Bytes)
      BY PieceIs DEF Buffers!RingQueue!Pieces, Buffers!Pieces
    <3>2. ringGiven' = d /\ ringTaken' = <<>>
      BY <2>2 DEF Buffers!RingQueue!Push, Buffers!RingQueue!Overfill
    <3> QED  BY <3>1, <3>2, NoBytes
  <2>3. ASSUME NEW k \in 0..Len(q), Buffers!RingQueue!Pop(k)
        PROVE  ringGiven' \in Seq(Bytes) /\ ringTaken' \in Seq(Bytes)
    <3>1. SubSeq(q, 1, k) \in Seq(Bytes)
      BY CutFirst
    <3>2. ringGiven' = <<>> /\ ringTaken' = SubSeq(q, 1, k)
      BY <1>2, <2>3 DEF Buffers!RingQueue!Pop
    <3> QED  BY <3>1, <3>2, NoBytes
  <2>4. ASSUME Buffers!RingQueue!Refuse \/ Buffers!RingQueue!Clear
        PROVE  ringGiven' \in Seq(Bytes) /\ ringTaken' \in Seq(Bytes)
    BY <2>4, NoBytes DEF Buffers!RingQueue!Refuse, Buffers!RingQueue!Clear
  <2> QED  BY <1>2, <2>1, <2>2, <2>3, <2>4 DEF Buffers!RingQueue!QNext
<1> QED  BY <1>3, <1>4 DEF RingTypes

\* And so is one of the cache.
LEMMA CacheTypesStep ==
    ASSUME Buffers!CacheInv, CacheTypes, Buffers!CacheNext
    PROVE  CacheTypes'
<1>1. PICK q \in Seq(Bytes) : q = Buffers!CopyFrom(bytes, 0, length)
  BY DEF CacheTypes
<1>2. Buffers!CacheQueue!QNext
  BY CacheStep
<1>3. ASSUME NEW d \in Buffers!CacheQueue!Pieces, Buffers!CacheQueue!Push(d)
      PROVE  CacheTypes'
  <2>1. d \in Seq(Bytes)
    BY PieceIs DEF Buffers!CacheQueue!Pieces, Buffers!Pieces
  <2>2. q \o d \in Seq(Bytes)
    BY <2>1
  <2>3. /\ Buffers!CopyFrom(bytes, 0, length)' = q \o d
        /\ cacheGiven' = d /\ cacheTaken' = <<>>
    BY <1>1, <1>3 DEF Buffers!CacheQueue!Push
  <2> QED  BY <2>1, <2>2, <2>3, NoBytes DEF CacheTypes
<1>4. ASSUME NEW k \in 0..Len(q), Buffers!CacheQueue!Pop(k)
      PROVE  CacheTypes'
  <2>1. SubSeq(q, 1, k) \in Seq(Bytes) /\ SubSeq(q, k + 1, Len(q)) \in Seq(Bytes)
    BY CutFirst, CutRest
  <2>2. /\ Buffers!CopyFrom(bytes, 0, length)' = SubSeq(q, k + 1, Len(q))
        /\ cacheGiven' = <<>> /\ cacheTaken' = SubSeq(q, 1, k)
    BY <1>1, <1>4 DEF Buffers!CacheQueue!Pop
  <2> QED  BY <2>1, <2>2, NoBytes DEF CacheTypes
<1>5. ASSUME Buffers!CacheQueue!Refuse \/ Buffers!CacheQueue!Clear
      PROVE  CacheTypes'
  <2>1. Buffers!CopyFrom(bytes, 0, length)' \in {q, <<>>} /\ cacheGiven' = <<>> /\ cacheTaken' = <<>>
    BY <1>1, <1>5 DEF Buffers!CacheQueue!Refuse, Buffers!CacheQueue!Clear
  <2> QED  BY <2>1, NoBytes DEF CacheTypes
<1> QED  BY <1>1, <1>2, <1>3, <1>4, <1>5 DEF Buffers!CacheQueue!QNext, Buffers!CacheQueue!Overfill

LEMMA BufferTypesStart == Buffers!Init => RingTypes /\ CacheTypes
<1> SUFFICES ASSUME Buffers!Init PROVE RingTypes /\ CacheTypes
  OBVIOUS
<1>1. Buffers!CopyFrom(bytes, 0, length) = <<>>
  BY DEF Buffers!Init, Buffers!CopyFrom
<1>2. RingLen \in RingLen..MaxRing
  BY BuffersAssumption DEF Buffers!LengthsAssumption
<1> QED  BY <1>1, <1>2, NoBytes DEF Buffers!Init, RingTypes, CacheTypes

\* What the variables of the five systems hold, in every behaviour: the posts,
\* the buffers, the server's table and the two ends of HTTP keep the types that
\* AsyncCore, DataBuf, TcpServer, HttpConn and HttpClient give their fields.
THEOREM NetworkIsTyped == MCSpec => []TypesOK
<1>1. MCInit => /\ PostsInv /\ Server!ServerInv /\ Http!HttpInv /\ Client!ClientInv
                /\ Buffers!RingInv /\ Buffers!CacheInv /\ RingTypes /\ CacheTypes
  BY PostsInit, ServerInit, HttpStarts, ClientStarts, BuffersInit, BufferTypesStart DEF MCInit
<1>2. PostsInv /\ [MCNext]_all => PostsInv'
  <2>1. [MCNext]_all => [Next]_vars
    BY DEF MCNext, all
  <2> QED  BY <2>1, PostsStep
<1>3. Server!ServerInv /\ [MCNext]_all => Server!ServerInv'
  <2>1. [MCNext]_all => [Server!Next]_server
    BY DEF MCNext, all
  <2> QED  BY <2>1, ServerStep
<1>4. Http!HttpInv /\ [MCNext]_all => Http!HttpInv'
  <2>1. [MCNext]_all => [Http!Next]_http
    BY DEF MCNext, all
  <2> QED  BY <2>1, HttpSteps
<1>5. Client!ClientInv /\ [MCNext]_all => Client!ClientInv'
  <2>1. [MCNext]_all => [Client!Next]_client
    BY DEF MCNext, all
  <2> QED  BY <2>1, ClientSteps
<1>6. Buffers!RingInv /\ RingTypes /\ [MCNext]_all => Buffers!RingInv' /\ RingTypes'
  <2>1. [MCNext]_all => Buffers!RingNext \/ UNCHANGED ring
    BY DEF MCNext, all
  <2>2. Buffers!RingInv /\ RingTypes /\ UNCHANGED ring => Buffers!RingInv' /\ RingTypes'
    BY DEF ring, Buffers!RingInv, Buffers!LosesOnlyWhenFull, Buffers!IsFull,
       Buffers!EmptyIsReset, RingTypes
  <2> QED  BY <2>1, <2>2, RingStep, RingTypesStep
<1>7. Buffers!CacheInv /\ CacheTypes /\ [MCNext]_all => Buffers!CacheInv' /\ CacheTypes'
  <2>1. [MCNext]_all => Buffers!CacheNext \/ UNCHANGED cache
    BY DEF MCNext, all
  <2>2. Buffers!CacheInv /\ CacheTypes /\ UNCHANGED cache => Buffers!CacheInv' /\ CacheTypes'
    BY DEF cache, Buffers!CacheInv, CacheTypes
  <2> QED  BY <2>1, <2>2, CacheStep, CacheTypesStep
<1>8. Buffers!RingInv /\ RingTypes /\ Buffers!CacheInv /\ CacheTypes => Buffers!TypeOK
  BY DEF Buffers!RingInv, RingTypes, Buffers!CacheInv, CacheTypes, Buffers!TypeOK
<1>9. ASSUME PostsInv, Server!ServerInv, Http!HttpInv, Client!ClientInv,
             Buffers!RingInv, RingTypes, Buffers!CacheInv, CacheTypes
      PROVE  TypesOK
  <2>1. TypeOK
    BY <1>9 DEF PostsInv
  <2>2. Buffers!TypeOK
    BY <1>8, <1>9
  <2>3. Server!TypeOK
    BY <1>9, ServerInvSays
  <2>4. Http!TypeOK
    BY <1>9, HttpInvSays
  <2>5. Client!TypeOK
    BY <1>9, ClientInvSays
  <2> QED  BY ONLY <2>1, <2>2, <2>3, <2>4, <2>5 DEF TypesOK
<1>10. MCSpec => MCInit /\ [][MCNext]_all
  BY DEF MCSpec
<1> QED  BY <1>1, <1>2, <1>3, <1>4, <1>5, <1>6, <1>7, <1>9, <1>10, PTL
=============================================================================
