--------------------------- MODULE SuperboxWorker ---------------------------
(***************************************************************************)
(* A worker that runs superboxes: WorkerThread::run for the elements of    *)
(* SCHED_BY_APP.  Every arc of the element is a buffer in the worker's     *)
(* queue_info_map; the boxes of the list read and write these buffers, and *)
(* only at the end the buffers go back to the arcs.                        *)
(*                                                                         *)
(* How the worker gets an element and signals the scheduler, and the box   *)
(* itself, are those of WorkerThread.  wout is the queue_info_map here.    *)
(***************************************************************************)
EXTENDS WorkerThread, Applications

LOCAL INSTANCE SequencesExt

VARIABLE
  strayed         \* the boxes a worker unlocked while another superbox had them

(***************************************************************************)
(* queue_info: the memory that was written, the first tuple to read (0 for *)
(* NULL), how many tuples are resident and for how many there is memory.   *)
(* Garbage is what memory holds that nobody wrote.                         *)
(***************************************************************************)
Garbage    == <<Nobody, 0>>
NullBuffer == [slots |-> <<>>, front |-> 0, resident |-> 0, alloc |-> 0]

Buffer(w, a) == IF a \in DOMAIN wout[w] THEN wout[w][a] ELSE NullBuffer

SetBuffer(w, a, buffer) ==
  wout' = [wout EXCEPT ![w] = [x \in {a} \cup DOMAIN @ |->
                                 IF x = a THEN buffer ELSE Buffer(w, x)]]

Slot(buffer, i) == IF i \in DOMAIN buffer.slots THEN buffer.slots[i] ELSE Garbage

Content(buffer, first) ==
  [i \in 1..buffer.resident |-> Slot(buffer, first + i - 1)]

\* The lists of the element, in the order loadQueues goes through them.
Pins(qe) == qe.deq \o qe.enq \o qe.both

\* The next entry of a list of n, or the first one of what follows.
Step(w, n, again, following) ==
  IF warc[w] < n
  THEN GoTo(w, again) /\ warc' = [warc EXCEPT ![w] = @ + 1]
  ELSE GoTo(w, following) /\ warc' = [warc EXCEPT ![w] = 1]

\* Where unloadQueues starts, and where it goes after a list.
AfterDeq(w) == IF wqe[w].enq # <<>> THEN "enq"
               ELSE IF wqe[w].both # <<>> THEN "both" ELSE "announce"
AfterEnq(w) == IF wqe[w].both # <<>> THEN "both" ELSE "announce"
AfterRun(w) == IF wqe[w].deq # <<>> THEN "deq" ELSE AfterDeq(w)

workerIdle == <<wqe, announced, beqVars, stopVars, boxLocked, appLocked, strayed>>

-----------------------------------------------------------------------------
(* loadQueues                                                              *)

LoadNext(w) == Step(w, Len(Pins(wqe[w])), "load", "run")

\* dequeuePin: a copy of the oldest tuples, which stay on the arc.
LoadDequeuePin(w) ==
  LET pin == Pins(wqe[w])[warc[w]] IN
  /\ wpc[w] = "load"
  /\ warc[w] <= Len(wqe[w].deq)
  /\ arcHolder[pin.arc] = Nobody
  /\ SetBuffer(w, pin.arc, [slots |-> DequeuePin(pin.arc, pin.n), front |-> 1,
                            resident |-> pin.n, alloc |-> pin.n])
  /\ LoadNext(w)
  /\ UNCHANGED <<workerIdle, smVars>>

\* enqueuePin: memory only.
LoadEnqueuePin(w) ==
  LET pin == Pins(wqe[w])[warc[w]] IN
  /\ wpc[w] = "load"
  /\ warc[w] > Len(wqe[w].deq)
  /\ warc[w] <= Len(wqe[w].deq) + Len(wqe[w].enq)
  /\ SetBuffer(w, pin.arc, [NullBuffer EXCEPT !.alloc = pin.n])
  /\ LoadNext(w)
  /\ UNCHANGED <<workerIdle, smVars>>

(***************************************************************************)
(* dequeueEnqueuePin: as many tuples as the arc counts leave the queue and *)
(* are resident, but all of them are copied to the first slot; the count   *)
(* stays as it is.                                                         *)
(***************************************************************************)
LoadDequeueEnqueuePin(w) ==
  LET pin == Pins(wqe[w])[warc[w]]
      a   == pin.arc
      r   == numRecords[a] IN
  /\ wpc[w] = "load"
  /\ warc[w] > Len(wqe[w].deq) + Len(wqe[w].enq)
  /\ arcHolder[a] = Nobody
  /\ SetBuffer(w, a,
       [slots |-> [i \in 1..r |-> IF i = 1 /\ r <= Len(queue[a]) THEN queue[a][r]
                                                                 ELSE Garbage],
        front |-> 1, resident |-> r, alloc |-> pin.n + r])
  /\ queue' = [queue EXCEPT ![a] = SubSeq(@, r + 1, Len(@))]
  /\ LoadNext(w)
  /\ UNCHANGED <<workerIdle, numRecords, workSet, arcHolder>>

-----------------------------------------------------------------------------
(* The boxes                                                               *)

TrainOf(w, b) ==
  FlattenSeq([i \in DOMAIN InputQueueIds[b] |->
                LET buffer == Buffer(w, InputQueueIds[b][i]) IN
                Content(buffer, buffer.front)])

\* As Consumed below would be if the buffer still counted what was read.
ConsumedResident(buffer) == [buffer EXCEPT !.front = @ + 2 * buffer.resident]

\* An input buffer after doBox: the code that moves its front occurs twice.
Consumed(buffer) ==
  [buffer EXCEPT !.resident = 0, !.front = @ + 2 * buffer.resident]

\* As Produced below would be if the results were not counted.
ProducedUncounted(buffer, tuples) == [buffer EXCEPT !.slots = @ \o tuples]

\* An output buffer: the results go to its rear.
Produced(buffer, tuples) ==
  [buffer EXCEPT !.slots = @ \o tuples, !.resident = @ + Len(tuples)]

(***************************************************************************)
(* doBox for one box of the list.  assert(false) stops the process when no *)
(* input has a tuple, and a buffer without memory does when it is read.    *)
(***************************************************************************)
RunBox(w) ==
  LET b     == wqe[w].boxes[warc[w]]
      train == TrainOf(w, b) IN
  /\ wpc[w] = "run"
  /\ IF train = <<>> \/ \E a \in InArcs(b) : Buffer(w, a).front = 0 /\ Buffer(w, a).resident > 0
     THEN GoTo(w, "aborted") /\ UNCHANGED <<wout, warc, stopVars>>
     ELSE /\ wout' = [wout EXCEPT ![w] =
               [a \in InArcs(b) \cup OutArcs(b) \cup DOMAIN @ |->
                  CASE a \in InArcs(b)               -> Consumed(Buffer(w, a))
                    [] a \in OutArcs(b) \ InArcs(b) -> Produced(Buffer(w, a), train)
                    [] OTHER                        -> Buffer(w, a)]]
          /\ CountWritten(Len(train) * Cardinality(OutArcs(b) \cap AppArcs))
          /\ Step(w, Len(wqe[w].boxes), "run", AfterRun(w))
  /\ UNCHANGED <<wqe, announced, beqVars, smVars, boxLocked, appLocked, strayed>>

-----------------------------------------------------------------------------
(* unloadQueues                                                            *)

DeqNext(w) == Step(w, Len(wqe[w].deq), "deq", AfterDeq(w))

\* dequeueUnpin: what was taken out of the buffer leaves the arc.
UnloadDequeuePin(w) ==
  LET a == wqe[w].deq[warc[w]].arc
      n == Buffer(w, a).alloc - Buffer(w, a).resident IN
  /\ wpc[w] = "deq"
  /\ DequeueRemove(w, a, n)
  /\ IF numRecords[a] = n THEN GoTo(w, "forget") /\ UNCHANGED warc ELSE DeqNext(w)
  /\ UNCHANGED <<workerIdle, wout>>

UnloadForget(w) ==
  /\ wpc[w] = "forget"
  /\ DequeueForget(w, wqe[w].deq[warc[w]].arc)
  /\ DeqNext(w)
  /\ UNCHANGED <<workerIdle, wout>>

EnqNext(w) == Step(w, Len(wqe[w].enq), "enq", AfterEnq(w))

\* enqueueUnpin, unless the buffer is empty.
UnloadEnqueuePin(w) ==
  LET a      == wqe[w].enq[warc[w]].arc
      buffer == Buffer(w, a) IN
  /\ wpc[w] = "enq"
  /\ IF buffer.resident # 0
     THEN EnqueueWrite(w, a, Content(buffer, 1)) /\ GoTo(w, "count") /\ UNCHANGED warc
     ELSE EnqNext(w) /\ UNCHANGED smVars
  /\ UNCHANGED <<workerIdle, wout>>

UnloadCount(w) ==
  LET a == wqe[w].enq[warc[w]].arc IN
  /\ wpc[w] = "count"
  /\ EnqueueCount(w, a, Buffer(w, a).resident)
  /\ EnqNext(w)
  /\ UNCHANGED <<workerIdle, wout>>

(***************************************************************************)
(* dequeueEnqueueUnpin, unless the buffer is empty: then the count of the  *)
(* arc keeps the value it had before dequeueEnqueuePin took its tuples.    *)
(***************************************************************************)
UnloadDequeueEnqueuePin(w) ==
  LET a      == wqe[w].both[warc[w]].arc
      buffer == Buffer(w, a) IN
  /\ wpc[w] = "both"
  /\ IF buffer.resident > 0
     THEN /\ arcHolder[a] = Nobody
          /\ queue' = [queue EXCEPT ![a] = @ \o Content(buffer, buffer.front)]
          /\ numRecords' = [numRecords EXCEPT ![a] = buffer.resident]
          /\ workSet' = workSet \cup ({DestId[a]} \ {NoBox})
          /\ UNCHANGED arcHolder
     ELSE UNCHANGED smVars
  /\ Step(w, Len(wqe[w].both), "both", "announce")
  /\ UNCHANGED <<workerIdle, wout>>

-----------------------------------------------------------------------------
\* announceNewAppTuples: what the boxes wrote for applications.
AnnounceSuperbox(w) ==
  /\ wpc[w] = "announce"
  /\ announced' = [a \in AppArcs |-> announced[a] + Buffer(w, a).resident]
  /\ GoTo(w, "unlock")
  /\ UNCHANGED <<wqe, wout, warc, beqVars, stopVars, smVars, boxLocked, appLocked, strayed>>

\* The boxes a worker still holds: those its superbox was pushed with but
\* those it has unlocked.
HeldBy(w) ==
  LET qe == wqe[w] IN
  (qe.locked \ qe.unfed) \
    (IF wpc[w] = "unlock"    THEN {qe.boxes[i] : i \in 1..(warc[w] - 1)}
     ELSE IF wpc[w] = "unlockapp" THEN qe.locked ELSE {})

(***************************************************************************)
(* The boxes of the list are released one after the other, whether or not  *)
(* they are still this superbox's own: a list that has a box twice unlocks *)
(* it twice, and a box given back is unlocked too.                         *)
(***************************************************************************)
ReleaseNextBox(w) ==
  LET b == wqe[w].boxes[warc[w]] IN
  /\ wpc[w] = "unlock"
  /\ UnlockBox(b)
  /\ strayed' = IF b \in boxLocked \ HeldBy(w) THEN strayed \cup {b} ELSE strayed
  /\ Step(w, Len(wqe[w].boxes), "unlock", "unlockapp")
  /\ UNCHANGED <<wqe, wout, announced, beqVars, stopVars, smVars, appLocked>>

\* ... and then the application; the element is deleted.
ReleaseApp(w) ==
  /\ wpc[w] = "unlockapp"
  /\ appLocked' = appLocked \ {wqe[w].app}
  /\ wqe' = [wqe EXCEPT ![w] = NoQE]
  /\ wout' = [wout EXCEPT ![w] = <<>>]
  /\ GoTo(w, "signal")
  /\ UNCHANGED <<warc, announced, beqVars, stopVars, smVars, boxLocked, strayed>>

\* What the worker does as in SCHED_BY_BOX.
SharedWorkerStep(w) ==
  /\ AtTop(w) \/ CheckQueue(w) \/ WaitForWork(w) \/ CheckStop(w) \/ SignalScheduler(w)
  /\ UNCHANGED <<appLocked, strayed>>

SuperboxStep(w) ==
  \/ SharedWorkerStep(w)
  \/ LoadDequeuePin(w) \/ LoadEnqueuePin(w) \/ LoadDequeueEnqueuePin(w) \/ RunBox(w)
  \/ UnloadDequeuePin(w) \/ UnloadForget(w) \/ UnloadEnqueuePin(w) \/ UnloadCount(w)
  \/ UnloadDequeueEnqueuePin(w) \/ AnnounceSuperbox(w)
  \/ ReleaseNextBox(w) \/ ReleaseApp(w)
=============================================================================
