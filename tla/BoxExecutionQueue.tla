------------------------- MODULE BoxExecutionQueue -------------------------
(***************************************************************************)
(* The queue of scheduled work between the scheduler and the workers, its  *)
(* mutex and condition variable, and the scheduler's own wake condition,   *)
(* which the queue broadcasts when it runs empty.                          *)
(*                                                                         *)
(* A condition variable is the set of the threads blocked on it; every     *)
(* wake-up in this code is a broadcast and empties the set.                *)
(***************************************************************************)
EXTENDS Measurement

CONSTANT NoQE

VARIABLES
  beq,            \* _executionQueue
  beqHolder,      \* the worker inside the queue's mutex across steps
  beqWaiters,     \* the workers blocked on the queue's condition variable
  schedWaiting    \* the scheduler is blocked on its wake condition

beqVars == <<beq, beqHolder, beqWaiters, schedWaiting>>

(***************************************************************************)
(* A queue element carries one locked box and, for each of its input arcs, *)
(* how many tuples the worker is to take (_dequeuePin_list), an int.       *)
(***************************************************************************)
QueueElements == [box : Boxes, pin : [Arcs -> Int]]

ASSUME QEAssumption == NoQE \notin QueueElements

BeqInit ==
  /\ beq = <<>>
  /\ beqHolder = Nobody
  /\ beqWaiters = {}
  /\ schedWaiting = FALSE

BroadcastScheduler == schedWaiting' = FALSE

\* As Push below would be if it did not signal the waiting workers.
PushSilently(qe) ==
  /\ beqHolder = Nobody
  /\ beq' = Append(beq, qe)
  /\ UNCHANGED <<beqHolder, beqWaiters, schedWaiting>>

\* push and signal; both run inside the scheduler's critical section.
Push(qe) ==
  /\ beqHolder = Nobody
  /\ beq' = Append(beq, qe)
  /\ beqWaiters' = {}
  /\ UNCHANGED <<beqHolder, schedWaiting>>

\* As Pop below would be if it left the element in the queue.
PopKeeping ==
  /\ beq # <<>>
  /\ UNCHANGED beqVars

\* pop: the scheduler is woken when the last element leaves.
Pop ==
  /\ beq # <<>>
  /\ beq' = Tail(beq)
  /\ schedWaiting' = (schedWaiting /\ Tail(beq) # <<>>)
  /\ UNCHANGED <<beqHolder, beqWaiters>>

\* signalIfEmpty by worker w, which keeps the mutex until it waits.
SignalIfEmpty(w) ==
  /\ beq = <<>>
  /\ BroadcastScheduler
  /\ beqHolder' = w
  /\ UNCHANGED <<beq, beqWaiters>>

\* wait: pthread_cond_wait gives up the mutex and blocks in one step.
Wait(w) ==
  /\ beqHolder = w
  /\ beqHolder' = Nobody
  /\ beqWaiters' = beqWaiters \cup {w}
  /\ UNCHANGED <<beq, schedWaiting>>

\* signal from outside the mutex, as Scheduler::start does on its way out.
Signal ==
  /\ beqWaiters' = {}
  /\ UNCHANGED <<beq, beqHolder, schedWaiting>>
=============================================================================
