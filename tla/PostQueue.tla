----------------------------- MODULE PostQueue -----------------------------
(***************************************************************************)
(* What NetIoManager::postMainLoop promises: callbacks are run one by one  *)
(* in the order in which they were posted, each at most once, and, unless  *)
(* the queue is closed, each some time.  Closing lets the first few of     *)
(* those that wait run and drops the rest.  AsyncPost implements this.     *)
(***************************************************************************)
EXTENDS Naturals, Sequences

CONSTANTS Callbacks    (* The callbacks that may be posted.                *)

VARIABLES
  queue,   (* Callbacks posted and not run yet, in order.                  *)
  done,    (* Callbacks run, in order.                                     *)
  open,    (* FALSE once the queue is closed.                              *)
  kept     (* How many of the queue a close has left to run.               *)

qvars == <<queue, done, open, kept>>

QInit ==
  /\ queue = << >>
  /\ done  = << >>
  /\ open  = TRUE
  /\ kept  = 0

(* A closed queue still takes posts: they are kept for ever.               *)
Post(c) ==
  /\ queue' = Append(queue, c)
  /\ UNCHANGED <<done, open, kept>>

RunFirst ==
  /\ queue # << >>
  /\ open \/ kept > 0
  /\ done'  = Append(done, Head(queue))
  /\ queue' = Tail(queue)
  /\ kept'  = IF open THEN kept ELSE kept - 1
  /\ open'  = open

Close(k) ==
  /\ open
  /\ open' = FALSE
  /\ kept' = k
  /\ UNCHANGED <<queue, done>>

QNext ==
  \/ \E c \in Callbacks : Post(c)
  \/ RunFirst
  \/ \E k \in 0 .. Len(queue) : Close(k)

QSafety == QInit /\ [][QNext]_qvars

QSpec == QSafety /\ WF_qvars(RunFirst)
=============================================================================
