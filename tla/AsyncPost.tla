----------------------------- MODULE AsyncPost -----------------------------
(***************************************************************************)
(* AsyncCore (net/AsyncEvent.cc): callbacks posted by any thread to the    *)
(* loop's.  A post is two steps, for the lock covers only the queue: the   *)
(* push, and uv_async_send, which sets the handle's pending flag and is    *)
(* coalesced with the sends before it.  libuv clears the flag before it    *)
(* calls async_callback, which swaps the queue with an empty one and runs  *)
(* what it got.  A callback may post again or call closeAsync.             *)
(***************************************************************************)
EXTENDS Naturals, Sequences

CONSTANTS
  Threads,    (* Threads that post; Loop is one of them.                   *)
  Loop,       (* The thread that runs mainLoop.                            *)
  MaxPosts    (* Posts of each thread.  Bounds the model.                  *)

ASSUME ThreadsAssumption == Loop \in Threads
ASSUME MaxPostsAssumption == MaxPosts \in Nat \ {0}

VARIABLES
  cbQueue,    (* cbQueue_.                                                 *)
  callbacks,  (* The local queue of process_callback.                      *)
  pending,    (* The flag of the uv_async_t.                               *)
  async,      (* The handle: "open", "closing", "freed".                   *)
  woken,      (* libuv has cleared the flag and calls async_callback.      *)
  poster,     (* Per thread: "idle", or "pushed" before uv_async_send.     *)
  posts,      (* Posts begun by each thread.                               *)
  ran,        (* History: callbacks run.                                   *)
  fault       (* A thread sent to a handle that is freed.                  *)

vars == <<cbQueue, callbacks, pending, async, woken, poster, posts, ran, fault>>

AllCallbacks == Threads \X (1 .. MaxPosts)

TypeOK ==
  /\ cbQueue   \in Seq(AllCallbacks)
  /\ callbacks \in Seq(AllCallbacks)
  /\ pending   \in BOOLEAN
  /\ async     \in {"open", "closing", "freed"}
  /\ woken     \in BOOLEAN
  /\ poster    \in [Threads -> {"idle", "pushed"}]
  /\ posts     \in [Threads -> 0 .. MaxPosts]
  /\ ran       \in Seq(AllCallbacks)
  /\ fault     \in BOOLEAN

Init ==
  /\ cbQueue   = << >>
  /\ callbacks = << >>
  /\ pending   = FALSE
  /\ async     = "open"
  /\ woken     = FALSE
  /\ poster    = [t \in Threads |-> "idle"]
  /\ posts     = [t \in Threads |-> 0]
  /\ ran       = << >>
  /\ fault     = FALSE

-----------------------------------------------------------------------------
(* postAsyncEvent up to the unlock.                                        *)
PushCallback(t) ==
  /\ ~fault
  /\ poster[t] = "idle"
  /\ posts[t] < MaxPosts
  /\ posts'   = [posts EXCEPT ![t] = @ + 1]
  /\ cbQueue' = Append(cbQueue, <<t, posts[t] + 1>>)
  /\ poster'  = [poster EXCEPT ![t] = "pushed"]
  /\ UNCHANGED <<callbacks, pending, async, woken, ran, fault>>

(* uv_async_send, through the pointer async_ that closeAsync leaves as it  *)
(* is.                                                                     *)
SendAsync(t) ==
  /\ ~fault
  /\ poster[t] = "pushed"
  /\ poster' = [poster EXCEPT ![t] = "idle"]
  /\ pending' = (pending \/ async # "freed")
  /\ fault'  = (async = "freed")
  /\ UNCHANGED <<cbQueue, callbacks, async, woken, posts, ran>>

(* The loop's thread does one thing at a time: while it posts, it does     *)
(* nothing else.                                                           *)
LoopFree == ~fault /\ poster[Loop] = "idle"

(* libuv finds the flag set and clears it.                                 *)
Wake ==
  /\ LoopFree
  /\ pending
  /\ async = "open"
  /\ ~woken
  /\ callbacks = << >>
  /\ pending' = FALSE
  /\ woken'   = TRUE
  /\ UNCHANGED <<cbQueue, callbacks, async, poster, posts, ran, fault>>

(* Mutants: the flag is cleared after the callbacks have run; the last one *)
(* is run first.                                                           *)
RunThenClear ==
  /\ LoopFree
  /\ callbacks # << >>
  /\ ran'       = Append(ran, Head(callbacks))
  /\ callbacks' = Tail(callbacks)
  /\ pending'   = (pending /\ Len(callbacks) > 1)
  /\ UNCHANGED <<cbQueue, async, woken, poster, posts, fault>>

RunLast ==
  /\ LoopFree
  /\ callbacks # << >>
  /\ ran'       = Append(ran, callbacks[Len(callbacks)])
  /\ callbacks' = SubSeq(callbacks, 1, Len(callbacks) - 1)
  /\ UNCHANGED <<cbQueue, pending, async, woken, poster, posts, fault>>

(* async_callback and process_callback up to the unlock.                   *)
SwapQueue ==
  /\ LoopFree
  /\ woken
  /\ callbacks' = cbQueue
  /\ cbQueue'   = << >>
  /\ woken'     = FALSE
  /\ UNCHANGED <<pending, async, poster, posts, ran, fault>>

(* One turn of process_callback's loop.                                    *)
RunCallback ==
  /\ LoopFree
  /\ callbacks # << >>
  /\ ran'       = Append(ran, Head(callbacks))
  /\ callbacks' = Tail(callbacks)
  /\ UNCHANGED <<cbQueue, pending, async, woken, poster, posts, fault>>

(* closeAsync, called on the loop's thread, which uv_close requires.       *)
CloseAsync ==
  /\ LoopFree
  /\ ~woken
  /\ async = "open"
  /\ async' = "closing"
  /\ UNCHANGED <<cbQueue, callbacks, pending, woken, poster, posts, ran, fault>>

(* The callback of uv_close deletes the handle, at the end of the loop's   *)
(* iteration.                                                              *)
FreeAsync ==
  /\ LoopFree
  /\ async = "closing"
  /\ callbacks = << >>
  /\ async' = "freed"
  /\ UNCHANGED <<cbQueue, callbacks, pending, woken, poster, posts, ran, fault>>

Next ==
  \/ \E t \in Threads : PushCallback(t) \/ SendAsync(t)
  \/ Wake \/ SwapQueue \/ RunCallback
  \/ CloseAsync \/ FreeAsync

(* Threads are scheduled and the loop turns.  Nobody need post or close.   *)
Fairness ==
  /\ \A t \in Threads : WF_vars(SendAsync(t))
  /\ WF_vars(Wake) /\ WF_vars(SwapQueue) /\ WF_vars(RunCallback)

Spec == Init /\ [][Next]_vars /\ Fairness

-----------------------------------------------------------------------------
(* What waits is the rest of the batch, then the queue.                    *)
Abstract == INSTANCE PostQueue WITH
  Callbacks <- AllCallbacks,
  queue     <- callbacks \o cbQueue,
  done      <- ran,
  open      <- (async = "open"),
  kept      <- (IF async = "open" THEN 0 ELSE Len(callbacks))

(* Posting is the abstract queue: in order, nothing run twice, and every   *)
(* callback run some time unless the handle is closed (AsyncEvent.cc,      *)
(* postAsyncEvent and process_callback), although sends are coalesced.     *)
ImplementsPostQueue == Abstract!QSpec

(* A callback that waits in an open queue is about to be noticed: a wakeup *)
(* is pending, under way, or a thread has still to send one.               *)
NoLostWakeup ==
  cbQueue # << >> /\ async = "open" =>
    \/ pending
    \/ woken
    \/ \E t \in Threads : poster[t] = "pushed"
=============================================================================
