-------------------------- MODULE ClosableFifoQueue --------------------------
(***************************************************************************)
(* A FIFO queue shared by threads that can be closed: whoever waits for a  *)
(* value when the queue is closed and empty is told so.  Each operation is *)
(* one critical section of the queue's mutex; a thread that finds nothing  *)
(* gives the mutex up by waiting on _cond, which every change broadcasts   *)
(* to.  The optional conditions and semaphores of the constructor are not  *)
(* given by PtThreadPool, and are left out.                                *)
(***************************************************************************)
EXTENDS Sequences

VARIABLES
  dataqueue,
  closed,
  waiters         \* the threads waiting on _cond

queueVars == <<dataqueue, closed, waiters>>

QueueInit ==
  /\ dataqueue = <<>>
  /\ closed = FALSE
  /\ waiters = {}

ClosedAndEmpty == closed /\ dataqueue = <<>>

\* As enqueue would be if it told nobody.
EnqueueSilently(v) ==
  /\ ~closed
  /\ dataqueue' = Append(dataqueue, v)
  /\ UNCHANGED <<closed, waiters>>

\* As enqueue would be if it put the value at the wrong end.
EnqueueFirst(v) ==
  /\ ~closed
  /\ dataqueue' = <<v>> \o dataqueue
  /\ waiters' = {}
  /\ UNCHANGED closed

\* enqueue; on a closed queue it throws, and there is no such step.
Enqueue(v) ==
  /\ ~closed
  /\ dataqueue' = Append(dataqueue, v)
  /\ waiters' = {}
  /\ UNCHANGED closed

\* As close would be if it told nobody.
CloseSilently ==
  /\ closed' = TRUE
  /\ UNCHANGED <<dataqueue, waiters>>

Close ==
  /\ closed' = TRUE
  /\ waiters' = {}
  /\ UNCHANGED dataqueue

(***************************************************************************)
(* The three ways through the loop of dequeueBlocking: the oldest value,   *)
(* SmClosedException, or another wait.                                     *)
(***************************************************************************)
Dequeue(t) ==
  /\ t \notin waiters
  /\ dataqueue # <<>>
  /\ dataqueue' = Tail(dataqueue)
  /\ waiters' = {}
  /\ UNCHANGED closed

FindClosed(t) ==
  /\ t \notin waiters
  /\ ClosedAndEmpty
  /\ UNCHANGED queueVars

Await(t) ==
  /\ t \notin waiters
  /\ dataqueue = <<>>
  /\ ~closed
  /\ waiters' = waiters \union {t}
  /\ UNCHANGED <<dataqueue, closed>>

\* pthreads lets a condition wake a thread for no reason.
WakeSpuriously(t) ==
  /\ t \in waiters
  /\ waiters' = waiters \ {t}
  /\ UNCHANGED <<dataqueue, closed>>
=============================================================================
