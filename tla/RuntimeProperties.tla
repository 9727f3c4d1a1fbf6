------------------------- MODULE RuntimeProperties -------------------------
(***************************************************************************)
(* The running system: the scheduler thread, the worker threads and the    *)
(* stream thread over one storage manager, one set of box mutexes, one     *)
(* execution queue and one stop flag; and what it is to guarantee.         *)
(***************************************************************************)
EXTENDS WorkerThread, Scheduler, StreamThread, Functions

vars == <<schedVars, workerVars, streamVars, beqVars, stopVars, smVars,
          boxLocked>>

Init ==
  /\ CatalogInit
  /\ SMInit
  /\ StopInit
  /\ BeqInit
  /\ WorkerInit
  /\ SchedulerInit
  /\ StreamInit

Ended   == {w \in Workers : wpc[w] = "done"}
Aborted == \E w \in Workers : wpc[w] = "aborted"

WorkerStep(w)  == Worker(w) /\ UNCHANGED <<schedVars, streamVars>>
SchedulerNext  == /\ SchedulerStep \/ JoinWorker(Ended)
                  /\ UNCHANGED <<workerVars, streamVars>>
StreamNext     == StreamStep /\ UNCHANGED <<schedVars, workerVars>>
TimePasses     == /\ Expire
                  /\ UNCHANGED <<schedVars, workerVars, streamVars, beqVars,
                                 smVars, boxLocked>>

\* A failed assertion in one thread ends the process.
Next ==
  /\ ~Aborted
  /\ \/ \E w \in Workers : WorkerStep(w)
     \/ SchedulerNext
     \/ StreamNext
     \/ TimePasses

Spec == Init /\ [][Next]_vars

(***************************************************************************)
(* Threads are scheduled by the operating system and each of them keeps    *)
(* running.  A thread that waits for a mutex is enabled whenever the mutex *)
(* is free; weak fairness is all that is assumed of them.                  *)
(***************************************************************************)
Fairness ==
  /\ \A w \in Workers : WF_vars(~Aborted /\ WorkerStep(w))
  /\ WF_vars(~Aborted /\ SchedulerNext)
  /\ WF_vars(~Aborted /\ StreamNext)

FairSpec == Spec /\ Fairness

-----------------------------------------------------------------------------
(* What the runtime is to guarantee.                                       *)

(***************************************************************************)
(* Every variable has its type; the record counts and the pins sized after *)
(* them are ints in the code.                                              *)
(***************************************************************************)
StorageTyping ==
  /\ queue \in [Arcs -> Seq(Tuples)]
  /\ numRecords \in [Arcs -> Int]
  /\ workSet \subseteq Boxes
  /\ arcHolder \in [Arcs -> Threads \cup {Nobody}]

StopTyping ==
  /\ stop \in BOOLEAN
  /\ expired \in BOOLEAN
  /\ written \in Nat

QueueTyping ==
  /\ boxLocked \subseteq Boxes
  /\ beq \in Seq(QueueElements)
  /\ beqHolder \in Workers \cup {Nobody}
  /\ beqWaiters \subseteq Workers
  /\ schedWaiting \in BOOLEAN

WorkerTyping ==
  /\ wpc \in [Workers -> WorkerLocations]
  /\ wqe \in [Workers -> QueueElements \cup {NoQE}]
  /\ wout \in [Workers -> Seq(Tuples)]
  /\ warc \in [Workers -> Nat \ {0}]
  /\ announced \in [AppArcs -> Nat]

SchedulerTyping ==
  /\ spc \in SchedulerLocations
  /\ candidates \in Seq(Boxes)
  /\ runnable \subseteq Boxes
  /\ untested \subseteq Boxes
  /\ numToSchedule \in Int
  /\ next \in Nat \ {0}
  /\ lastBox \in Nat
  /\ loaded \in QueueElements \cup {NoQE}
  /\ nextArc \in Nat \ {0}
  /\ toJoin \subseteq Workers
  /\ joining \in Workers \cup {Nobody}

StreamTyping ==
  /\ generated \in [InputArcs -> Nat]
  /\ ppc \in StreamLocations
  /\ parc \in InputArcs \cup {Nobody}

Typing ==
  /\ StorageTyping
  /\ StopTyping
  /\ QueueTyping
  /\ WorkerTyping
  /\ SchedulerTyping
  /\ StreamTyping

(***************************************************************************)
(* What must be in place wherever a thread is: a worker between taking an  *)
(* element and releasing its box has one, the scheduler between locking a  *)
(* box and pushing it has one, and their positions in an arc list are      *)
(* positions of it.                                                        *)
(***************************************************************************)
WorkerPhase(w) ==
  /\ wpc[w] \in {"top", "queue", "nowork", "signal"} => wqe[w] = NoQE
  /\ wqe[w] = NoQE => \/ wpc[w] \in {"top", "queue", "nowork", "signal", "done"}
                      \/ wpc[w] = "popped" /\ stop
  /\ wpc[w] \in {"load", "deq", "forget"} => warc[w] <= Len(Inputs(w))
  /\ wpc[w] \in {"enq", "count"} => warc[w] <= Len(Outputs(w))
  /\ wpc[w] \notin {"load", "deq", "forget", "enq", "count"} => warc[w] = 1

WorkerPhases == \A w \in Workers : WorkerPhase(w)

SchedulerPhases ==
  /\ loaded = NoQE <=> spc \notin {"pin", "push"}
  /\ spc = "pin" => nextArc <= Len(InputQueueIds[loaded.box])
  /\ spc # "pin" => nextArc = 1

StreamPhases == ppc \in {"enq", "count"} => parc \in InputArcs

(***************************************************************************)
(* The type invariant: the types of the variables, the phases of the       *)
(* threads, and no count or pin ever below zero.                           *)
(***************************************************************************)
CountsNatural ==
  /\ \A a \in Arcs : numRecords[a] >= 0
  /\ loaded # NoQE => \A a \in Arcs : loaded.pin[a] >= 0
  /\ \A i \in DOMAIN beq, a \in Arcs : beq[i].pin[a] >= 0
  /\ \A w \in Workers : wqe[w] # NoQE => \A a \in Arcs : wqe[w].pin[a] >= 0

TypeOK ==
  /\ Typing
  /\ WorkerPhases
  /\ SchedulerPhases
  /\ StreamPhases
  /\ CountsNatural

\* The workers that have a queue element.
Busy == {w \in Workers : wqe[w] # NoQE}

\* No two elements, wherever they are, have the same box.
QueuedOnce == \A i, j \in DOMAIN beq : beq[i].box = beq[j].box => i = j
BusyOnce   == \A v, w \in Busy : wqe[v].box = wqe[w].box => v = w
NotBoth    == \A i \in DOMAIN beq, w \in Busy : beq[i].box # wqe[w].box
LoadedOnce ==
  loaded # NoQE => /\ \A i \in DOMAIN beq : beq[i].box # loaded.box
                   /\ \A w \in Busy : wqe[w].box # loaded.box

\* The boxes that are locked are those of the elements under way.
LocksHeld ==
  boxLocked = {beq[i].box : i \in DOMAIN beq} \cup {wqe[w].box : w \in Busy}
              \cup (IF loaded # NoQE THEN {loaded.box} ELSE {})

(***************************************************************************)
(* A box is run by one thread at a time.  The lock passes from the         *)
(* scheduler through the queue to a worker, and lockBoxTry, unlockBox,     *)
(* push and pop are far apart in the code.                                 *)
(***************************************************************************)
BoxExclusion == QueuedOnce /\ BusyOnce /\ NotBoth /\ LoadedOnce /\ LocksHeld

(***************************************************************************)
(* Outside an arc's critical section the count in shared memory, which the *)
(* scheduler sizes its trains by, is the length of the arc's queue.        *)
(***************************************************************************)
CountsConsistent ==
  \A a \in Arcs : arcHolder[a] = Nobody => numRecords[a] = Len(queue[a])

\* The arcs whose pinned tuples worker w has still to remove.
Pinned(w) ==
  CASE wpc[w] \in {"popped", "load", "run", "done", "aborted"} ->
         InArcs(wqe[w].box)
    [] wpc[w] = "deq" -> {Inputs(w)[i] : i \in warc[w]..Len(Inputs(w))}
    [] wpc[w] = "forget" -> {Inputs(w)[i] : i \in (warc[w] + 1)..Len(Inputs(w))}
    [] OTHER -> {}

(***************************************************************************)
(* The tuples an element was sized for by the scheduler are still on the   *)
(* arc when a worker copies and removes them, however long it was queued:  *)
(* dequeuePin and dequeueUnpin do not look.                                *)
(***************************************************************************)
PinsAvailable ==
  /\ loaded # NoQE => \A a \in Arcs : loaded.pin[a] <= Len(queue[a])
  /\ \A i \in DOMAIN beq, a \in Arcs : beq[i].pin[a] <= Len(queue[a])
  /\ \A w \in Busy : \A a \in Pinned(w) : wqe[w].pin[a] <= Len(queue[a])

(***************************************************************************)
(* Who is inside an arc's mutex, and what is left to do there: a worker    *)
(* has emptied an input, or has written an output that is not counted yet; *)
(* the stream thread has written one tuple.                                *)
(***************************************************************************)
ArcSections ==
  \A a \in Arcs :
    /\ \A w \in Workers : arcHolder[a] = w =>
         \/ /\ wpc[w] = "forget"
            /\ a = Inputs(w)[warc[w]]
            /\ Len(queue[a]) = numRecords[a]
         \/ /\ wpc[w] = "count"
            /\ a = Outputs(w)[warc[w]]
            /\ Len(queue[a]) = numRecords[a] + Len(wout[w])
    /\ arcHolder[a] = Stream =>
         ppc = "count" /\ parc = a /\ Len(queue[a]) = numRecords[a] + 1

\* An element takes tuples from the inputs of its own box only.
PinsOwned ==
  /\ loaded # NoQE =>
       \A a \in Arcs : loaded.pin[a] # 0 => a \in InArcs(loaded.box)
  /\ \A i \in DOMAIN beq, a \in Arcs :
       beq[i].pin[a] # 0 => a \in InArcs(beq[i].box)
  /\ \A w \in Busy, a \in Arcs :
       wqe[w].pin[a] # 0 => a \in InArcs(wqe[w].box)

(***************************************************************************)
(* The output arcs on which worker w has stored its results and which it   *)
(* has still to announce.                                                  *)
(***************************************************************************)
Stored(w) ==
  CASE wpc[w] = "enq" -> {Outputs(w)[i] : i \in 1..(warc[w] - 1)}
    [] wpc[w] = "count" -> {Outputs(w)[i] : i \in 1..warc[w]}
    [] wpc[w] = "announce" -> OutArcs(wqe[w].box)
    [] OTHER -> {}

(***************************************************************************)
(* An application's arc holds what was announced, and beyond that just the *)
(* results of the worker that has stored on it and is yet to announce.     *)
(***************************************************************************)
AppLedger ==
  \A a \in AppArcs :
    IF SrcId[a] = NoBox
    THEN announced[a] = 0
    ELSE /\ \A w \in Workers : a \in Stored(w) =>
              Len(queue[a]) = announced[a] + Len(wout[w])
         /\ (\A w \in Workers : a \notin Stored(w)) =>
              Len(queue[a]) = announced[a]

\* A worker without an element at work has nothing in its buffers.
BuffersEmpty ==
  \A w \in Workers :
    wpc[w] \in {"top", "queue", "nowork", "popped", "signal", "done"} =>
      wout[w] = <<>>

\* The workers that Scheduler::start has joined are those that have ended.
JoinedEnded ==
  /\ \A w \in Workers \ (toJoin \cup {joining}) : wpc[w] = "done"
  /\ spc # "join" => joining = Nobody
  /\ spc = "finished" => toJoin = {}

\* What worker w has counted as written and has still to announce, over all
\* the application arcs of its box.
Owed(w) ==
  IF wpc[w] \in {"deq", "forget", "enq", "count", "announce"}
  THEN Len(wout[w]) * Cardinality(OutArcs(wqe[w].box) \cap AppArcs)
  ELSE 0

\* What was counted as written was announced, or a worker owes it.
WrittenLedger ==
  written = SumFunction(announced) + SumFunction([w \in Workers |-> Owed(w)])

(***************************************************************************)
(* A worker never gets a box without input: "else assert(false)" after the *)
(* call of doBox in WorkerThread::run.                                     *)
(***************************************************************************)
NoEmptyRun == \A w \in Workers : wpc[w] # "aborted"

\* A count of an input of box b says that there are tuples.
Fed(b) == \E a \in InArcs(b) : numRecords[a] > 0

(***************************************************************************)
(* The candidates not loaded yet are different boxes, free and fed, from   *)
(* the look at their counts to their turn to be loaded.                    *)
(***************************************************************************)
CandidatesFed ==
  /\ spc \notin {"load", "pin", "push"} => next = 1
  /\ spc \in {"find", "load", "pin", "push"} =>
       /\ NoRepeat(candidates)
       /\ \A i \in next..Len(candidates) :
            candidates[i] \notin boxLocked /\ Fed(candidates[i])
  /\ spc = "find" => \A i \in DOMAIN candidates : candidates[i] \notin untested

\* The element under construction has a tuple pinned, or will have one.
LoadedFed ==
  /\ spc = "push" => HasInput(loaded)
  /\ spc = "pin" =>
       LET ids == InputQueueIds[loaded.box] IN
       \E i \in 1..Len(ids) : IF i < nextArc THEN loaded.pin[ids[i]] > 0
                                             ELSE numRecords[ids[i]] > 0

\* Every element has a tuple for its box.
ElementsFed ==
  /\ CandidatesFed
  /\ LoadedFed
  /\ \A i \in DOMAIN beq : HasInput(beq[i])
  /\ \A w \in Busy : HasInput(wqe[w])
  /\ NoEmptyRun

(***************************************************************************)
(* A box with tuples on an input arc is in the box work set, or nobody     *)
(* will schedule it: the assertion of Scheduler::testBoxWorkSet.           *)
(***************************************************************************)
WorkSetComplete ==
  \A b \in Boxes : (\E a \in InArcs(b) : numRecords[a] > 0) => b \in workSet

\* The network has no box that merges arcs.
OneInputEach == \A b \in Boxes : Len(InputQueueIds[b]) = 1

(***************************************************************************)
(* A box is in the work set from the first tuple on its arc until a worker *)
(* has found the arc empty and still holds it.                             *)
(***************************************************************************)
WorkKnown ==
  \A a \in Arcs \ AppArcs :
    /\ numRecords[a] > 0 => DestId[a] \in workSet
    /\ \A w \in Workers : arcHolder[a] = w =>
         IF wpc[w] = "forget" THEN numRecords[a] = 0 ELSE DestId[a] \in workSet
    /\ arcHolder[a] = Stream => DestId[a] \in workSet

(***************************************************************************)
(* The inductive invariant: the types and the phases, the exclusive boxes  *)
(* and the sections of the arcs are what keeps every record count equal to *)
(* the length of its queue and every pin within it; exclusion is also what *)
(* keeps the ledgers of the announced tuples, and the joined workers are   *)
(* what the end of a run can rely on.  That every element has input needs  *)
(* a policy that does not draw the same box twice, and that a box with     *)
(* tuples is known needs a network whose boxes have one input.             *)
(***************************************************************************)
IInv ==
  /\ TypeOK
  /\ BoxExclusion
  /\ CountsConsistent
  /\ ArcSections
  /\ PinsOwned
  /\ PinsAvailable
  /\ AppLedger
  /\ WrittenLedger
  /\ BuffersEmpty
  /\ JoinedEnded
  /\ Policy # "BOX_RANDOM_TYPE" => ElementsFed
  /\ OneInputEach => WorkKnown

(***************************************************************************)
(* What the application tuple monitor was told is on the application's arc *)
(* already.                                                                *)
(***************************************************************************)
AnnouncedAvailable ==
  \A a \in AppArcs : announced[a] <= Len(queue[a])

(***************************************************************************)
(* When Scheduler::start returns after a stop, every worker has ended      *)
(* between two elements: no tuple is in a worker's buffers, no arc is held *)
(* by one, and all that is on an application's arc was announced; and all  *)
(* that was counted as written by doBox was announced too.                 *)
(***************************************************************************)
ShutdownClean ==
  spc = "finished" =>
    /\ \A w \in Workers : wpc[w] = "done" /\ wout[w] = <<>>
    /\ \A a \in Arcs : arcHolder[a] \notin Workers
    /\ \A a \in AppArcs : announced[a] = Len(queue[a])
    /\ written = SumFunction(announced)

(***************************************************************************)
(* The runtime implements reliable streams: whatever the boxes, trains and *)
(* interleavings, each application arc holds the tuples of every input arc *)
(* in order, without loss in between and without duplicates.               *)
(***************************************************************************)
Streams == INSTANCE ReliableStreams
             WITH Sources <- InputArcs, Sinks <- AppArcs, sent <- generated,
                  recv <- [a \in AppArcs |-> queue[a]]

ImplementsStreams == Streams!Spec

(***************************************************************************)
(* Every tuple the stream thread makes reaches the applications: in the    *)
(* end nothing is left on the arcs between the boxes, no box has work and  *)
(* every box is released.                                                  *)
(***************************************************************************)
Drained ==
  <>[](/\ ppc = "done"
       /\ \A a \in Arcs \ AppArcs : queue[a] = <<>>
       /\ workSet = {}
       /\ boxLocked = {})

(***************************************************************************)
(* Once the stop flag is up, Scheduler::start joins every worker and       *)
(* returns ("wait for WorkerThread completions").                          *)
(***************************************************************************)
ShutdownCompletes == stop ~> spc = "finished"
=============================================================================
