---------------------------- MODULE WorkerThread ----------------------------
(***************************************************************************)
(* A worker thread: it takes a queue element, copies the pinned tuples of  *)
(* the element's box, runs the box, stores the results, and releases the   *)
(* box.  This is WorkerThread::run for elements of one box (SCHED_BY_BOX). *)
(*                                                                         *)
(* The box itself forwards every tuple of every input, input by input, to  *)
(* all the arcs of its output port, as UnionQBox::doBox does without load  *)
(* shedding; like every box of the code it keeps no input.                 *)
(***************************************************************************)
EXTENDS BoxExecutionQueue

VARIABLES
  wpc,            \* where each worker is in its loop
  wqe,            \* the element it works on
  wout,           \* its buffers: the tuples loaded so far, then the output
  warc,           \* its position in the arc list it goes through
  announced       \* AppTupleInfo::_appArcCounts, shared by the workers

workerVars == <<wpc, wqe, wout, warc, announced>>

WorkerLocations ==
  {"top", "queue", "nowork", "popped", "load", "run", "deq", "forget",
   "enq", "count", "announce", "unlock", "signal", "done", "aborted"}

WorkerInit ==
  /\ wpc = [w \in Workers |-> "top"]
  /\ wqe = [w \in Workers |-> NoQE]
  /\ wout = [w \in Workers |-> <<>>]
  /\ warc = [w \in Workers |-> 1]
  /\ announced = [a \in AppArcs |-> 0]

GoTo(w, loc) == wpc' = [wpc EXCEPT ![w] = loc]

Inputs(w)  == InputQueueIds[wqe[w].box]
Outputs(w) == OutputQueueIds[wqe[w].box]

\* The next arc of the list, or the first arc of what comes after the list.
Advance(w, ids, again, next) ==
  IF warc[w] < Len(ids)
  THEN GoTo(w, again) /\ warc' = [warc EXCEPT ![w] = @ + 1]
  ELSE GoTo(w, next) /\ warc' = [warc EXCEPT ![w] = 1]

\* while (__global_stop.getStop() != true)
AtTop(w) ==
  /\ wpc[w] = "top"
  /\ TestStop
  /\ GoTo(w, IF StopSeen THEN "done" ELSE "queue")
  /\ UNCHANGED <<wqe, wout, warc, announced, beqVars, smVars, boxLocked>>

(***************************************************************************)
(* The critical section of the execution queue: with the stop flag up the  *)
(* worker leaves it empty-handed, otherwise it pops, or finds the queue    *)
(* empty, wakes the scheduler and is about to wait (WaitForWork).  A woken *)
(* worker comes back here, for it has to lock the mutex again.             *)
(***************************************************************************)
CheckQueue(w) ==
  /\ wpc[w] = "queue"
  /\ w \notin beqWaiters
  /\ beqHolder = Nobody
  /\ TestStop
  /\ \/ /\ StopSeen
        /\ GoTo(w, "popped")
        /\ UNCHANGED <<wqe, beqVars>>
     \/ /\ ~StopSeen
        /\ Pop
        /\ wqe' = [wqe EXCEPT ![w] = Head(beq)]
        /\ GoTo(w, "popped")
     \/ /\ ~StopSeen
        /\ SignalIfEmpty(w)
        /\ GoTo(w, "nowork")
        /\ UNCHANGED wqe
  /\ UNCHANGED <<wout, warc, announced, smVars, boxLocked>>

WaitForWork(w) ==
  /\ wpc[w] = "nowork"
  /\ Wait(w)
  /\ GoTo(w, "queue")
  /\ UNCHANGED <<wqe, wout, warc, announced, stopVars, smVars, boxLocked>>

\* A worker that sees the flag here drops the element it popped, if any,
\* with the element's box still locked.
CheckStop(w) ==
  /\ wpc[w] = "popped"
  /\ TestStop
  /\ GoTo(w, IF StopSeen THEN "done" ELSE "load")
  /\ IF StopSeen THEN BroadcastScheduler ELSE UNCHANGED schedWaiting
  /\ UNCHANGED <<wqe, wout, warc, announced, beq, beqHolder, beqWaiters,
                 smVars, boxLocked>>

\* loadQueues, one input arc; a pinned arc is read under its mutex.
LoadQueue(w) ==
  LET a == Inputs(w)[warc[w]] IN
  /\ wpc[w] = "load"
  /\ arcHolder[a] = Nobody
  /\ wout' = [wout EXCEPT ![w] = @ \o DequeuePin(a, wqe[w].pin[a])]
  /\ Advance(w, Inputs(w), "load", "run")
  /\ UNCHANGED <<wqe, announced, beqVars, stopVars, smVars, boxLocked>>

(***************************************************************************)
(* doBox, called only for a box with input: without any, assert(false)     *)
(* aborts the process.  The results for applications are counted as        *)
(* written at once, before they are on any arc.                            *)
(***************************************************************************)
HasInput(qe) == \E a \in InArcs(qe.box) : qe.pin[a] > 0

\* As DoBox below would be with the test of the stop flag that the code has
\* commented out after doBox.
DoBoxUnlessStopped(w) ==
  /\ wpc[w] = "run"
  /\ CountWritten(Len(wout[w])
                  * Cardinality(OutArcs(wqe[w].box) \cap AppArcs))
  /\ GoTo(w, IF StopSeen THEN "done" ELSE "deq")
  /\ UNCHANGED <<wqe, wout, warc, announced, beqVars, smVars, boxLocked>>

DoBox(w) ==
  /\ wpc[w] = "run"
  /\ IF HasInput(wqe[w])
     THEN /\ GoTo(w, "deq")
          /\ CountWritten(Len(wout[w])
                          * Cardinality(OutArcs(wqe[w].box) \cap AppArcs))
     ELSE GoTo(w, "aborted") /\ UNCHANGED stopVars
  /\ UNCHANGED <<wqe, wout, warc, announced, beqVars, smVars, boxLocked>>

\* As AfterInputs below would be if the results were announced without being
\* stored.
AfterInputsAnnounce(w) == "announce"

\* Where unloadQueues goes once the inputs are done: enqueueUnpin is called
\* only when the box produced something.
AfterInputs(w) == IF wout[w] = <<>> THEN "announce" ELSE "enq"

\* unloadQueues: dequeueUnpin of one input arc, in two steps if it empties.
RemoveInput(w) ==
  LET a == Inputs(w)[warc[w]]
      n == wqe[w].pin[a] IN
  /\ wpc[w] = "deq"
  /\ DequeueRemove(w, a, n)
  /\ IF numRecords[a] = n
     THEN GoTo(w, "forget") /\ UNCHANGED warc
     ELSE Advance(w, Inputs(w), "deq", AfterInputs(w))
  /\ UNCHANGED <<wqe, wout, announced, beqVars, stopVars, boxLocked>>

ForgetInput(w) ==
  /\ wpc[w] = "forget"
  /\ DequeueForget(w, Inputs(w)[warc[w]])
  /\ Advance(w, Inputs(w), "deq", AfterInputs(w))
  /\ UNCHANGED <<wqe, wout, announced, beqVars, stopVars, boxLocked>>

\* unloadQueues: enqueueUnpin of one output arc, in two steps.
WriteOutput(w) ==
  /\ wpc[w] = "enq"
  /\ EnqueueWrite(w, Outputs(w)[warc[w]], wout[w])
  /\ GoTo(w, "count")
  /\ UNCHANGED <<wqe, wout, warc, announced, beqVars, stopVars, boxLocked>>

CountOutput(w) ==
  /\ wpc[w] = "count"
  /\ EnqueueCount(w, Outputs(w)[warc[w]], Len(wout[w]))
  /\ Advance(w, Outputs(w), "enq", "announce")
  /\ UNCHANGED <<wqe, wout, announced, beqVars, stopVars, boxLocked>>

\* announceNewAppTuples, under the mutex of the application tuple monitor.
AnnounceNewAppTuples(w) ==
  /\ wpc[w] = "announce"
  /\ announced' = [a \in AppArcs |->
       announced[a] + IF a \in OutArcs(wqe[w].box) THEN Len(wout[w]) ELSE 0]
  /\ GoTo(w, "unlock")
  /\ UNCHANGED <<wqe, wout, warc, beqVars, stopVars, smVars, boxLocked>>

\* The box is released and the element deleted.
ReleaseBox(w) ==
  /\ wpc[w] = "unlock"
  /\ UnlockBox(wqe[w].box)
  /\ wqe' = [wqe EXCEPT ![w] = NoQE]
  /\ wout' = [wout EXCEPT ![w] = <<>>]
  /\ GoTo(w, "signal")
  /\ UNCHANGED <<warc, announced, beqVars, stopVars, smVars>>

\* The size of the queue is read here without the queue's mutex.
SignalScheduler(w) ==
  /\ wpc[w] = "signal"
  /\ IF beq = <<>> THEN BroadcastScheduler ELSE UNCHANGED schedWaiting
  /\ GoTo(w, "top")
  /\ UNCHANGED <<wqe, wout, warc, announced, beq, beqHolder, beqWaiters,
                 stopVars, smVars, boxLocked>>

Worker(w) ==
  \/ AtTop(w) \/ CheckQueue(w) \/ WaitForWork(w) \/ CheckStop(w)
  \/ LoadQueue(w) \/ DoBox(w) \/ RemoveInput(w) \/ ForgetInput(w)
  \/ WriteOutput(w) \/ CountOutput(w) \/ AnnounceNewAppTuples(w)
  \/ ReleaseBox(w) \/ SignalScheduler(w)
=============================================================================
