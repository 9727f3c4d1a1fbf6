---------------------------- MODULE SMInterface ----------------------------
(***************************************************************************)
(* The storage manager: one tuple queue per arc, the per-arc record count  *)
(* kept in shared memory, and the set of boxes that have work.             *)
(*                                                                         *)
(* A count is read and written atomically (a SysV semaphore guards each    *)
(* access) and the box work set has a mutex of its own, so every access to *)
(* either is one step.  The arc mutex spans several of them: enqueueUnpin  *)
(* and dequeueUnpin are split where another thread can see the difference. *)
(***************************************************************************)
EXTENDS Catalog

CONSTANTS
  Workers,        \* the worker threads
  Stream,         \* the stream thread, which feeds the input arcs
  Nobody

VARIABLES
  queue,          \* _queues[arc]: the tuples stored on the arc, oldest first
  numRecords,     \* Shared::_num_records_in_queue of the arc
  workSet,        \* __box_work_set
  arcHolder       \* the thread that is inside the arc's mutex

smVars == <<queue, numRecords, workSet, arcHolder>>

ASSUME ThreadAssumption ==
  /\ IsFiniteSet(Workers)
  /\ Workers # {}
  /\ Stream \notin Workers
  /\ Nobody \notin Workers \cup {Stream}

Threads == Workers \cup {Stream}

\* A tuple is known by the input arc it arrived on and its number there.
Tuples == Arcs \X Nat

SMInit ==
  /\ queue = [a \in Arcs |-> <<>>]
  /\ numRecords = [a \in Arcs |-> 0]
  /\ workSet = {}
  /\ arcHolder = [a \in Arcs |-> Nobody]

LockArc(t, a)   == /\ arcHolder[a] = Nobody
                   /\ arcHolder' = [arcHolder EXCEPT ![a] = t]
UnlockArc(t, a) == /\ arcHolder[a] = t
                   /\ arcHolder' = [arcHolder EXCEPT ![a] = Nobody]

(***************************************************************************)
(* dequeuePin copies the oldest n tuples and leaves them on the arc.  It   *)
(* seeks from the front and does not look at the count; a copy from past   *)
(* the end of the queue would be garbage, here it is just shorter.         *)
(***************************************************************************)
DequeuePin(a, n) ==
  SubSeq(queue[a], 1, IF n < Len(queue[a]) THEN n ELSE Len(queue[a]))

\* As DequeueRemove below would be if it dropped whatever has arrived since.
DequeueAll(t, a, n) ==
  /\ arcHolder[a] = Nobody
  /\ queue' = [queue EXCEPT ![a] = <<>>]
  /\ numRecords' = [numRecords EXCEPT ![a] = 0]
  /\ IF numRecords[a] = n THEN LockArc(t, a) ELSE UNCHANGED arcHolder
  /\ UNCHANGED workSet

(***************************************************************************)
(* dequeueUnpin, up to its look at the box work set: the n tuples that     *)
(* were pinned leave the queue and the count drops.  The lock is kept only *)
(* when the arc is now empty, which is when the work set may change.       *)
(***************************************************************************)
DequeueRemove(t, a, n) ==
  /\ arcHolder[a] = Nobody
  /\ queue' = [queue EXCEPT ![a] = SubSeq(@, n + 1, Len(@))]
  /\ numRecords' = [numRecords EXCEPT ![a] = @ - n]
  /\ IF numRecords[a] = n THEN LockArc(t, a) ELSE UNCHANGED arcHolder
  /\ UNCHANGED workSet

(***************************************************************************)
(* dequeueUnpin, the rest for an arc it emptied.  Boxes::getNumInputQueues *)
(* is 0 for every box (no code sets it), so the first look at the inputs   *)
(* always finds nothing; the second one, under the mutex of the work set,  *)
(* adds the counts of the other input arcs and takes the box out when they *)
(* are all 0.  None of these counts is read under its arc's mutex.         *)
(***************************************************************************)
DequeueForget(t, a) ==
  /\ UnlockArc(t, a)
  /\ workSet' = IF \A i \in InArcs(DestId[a]) \ {a} : numRecords[i] = 0
                THEN workSet \ {DestId[a]} ELSE workSet
  /\ UNCHANGED <<queue, numRecords>>

\* As EnqueueWrite below would be if a box that is being run were passed over.
EnqueueForIdleBox(t, a, tuples) ==
  /\ LockArc(t, a)
  /\ queue' = [queue EXCEPT ![a] = @ \o tuples]
  /\ workSet' = IF a \in AppArcs \/ DestId[a] \in boxLocked
                THEN workSet ELSE workSet \cup {DestId[a]}
  /\ UNCHANGED numRecords

(***************************************************************************)
(* enqueueUnpin: writeTuples appends, then the destination box enters the  *)
(* work set, and only after that (EnqueueCount) the count grows.           *)
(***************************************************************************)
EnqueueWrite(t, a, tuples) ==
  /\ LockArc(t, a)
  /\ queue' = [queue EXCEPT ![a] = @ \o tuples]
  /\ workSet' = IF a \in AppArcs THEN workSet ELSE workSet \cup {DestId[a]}
  /\ UNCHANGED numRecords

\* As EnqueueCount below would be if it counted calls and not tuples.
EnqueueCountOne(t, a, n) ==
  /\ UnlockArc(t, a)
  /\ numRecords' = [numRecords EXCEPT ![a] = @ + 1]
  /\ UNCHANGED <<queue, workSet>>

EnqueueCount(t, a, n) ==
  /\ UnlockArc(t, a)
  /\ numRecords' = [numRecords EXCEPT ![a] = @ + n]
  /\ UNCHANGED <<queue, workSet>>
=============================================================================
