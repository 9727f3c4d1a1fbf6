----------------------------- MODULE Scheduler -----------------------------
(***************************************************************************)
(* The scheduler thread in SCHED_BY_BOX mode: wait for an event, and when  *)
(* the execution queue runs low pick boxes with input, lock each of them,  *)
(* and push it for the workers.  When the run is over, join the workers.   *)
(***************************************************************************)
EXTENDS BoxExecutionQueue

CONSTANTS
  Policy,         \* _box_schedule_type
  WinSize,        \* Boxes::getWinSize
  BeqSizeLimit,   \* the configured _beq_size
  TrainPercent,   \* _fixed_train_size, in percent
  NumToFind       \* num_to_find of findEligibleBox_Random

VARIABLES
  spc,            \* where the scheduler is
  candidates,     \* _candidates_v
  runnable,       \* runnable_box_v: the copy of the box work set
  untested,       \* the boxes of that copy not looked at yet
  numToSchedule,  \* the argument of refillQueue
  next,           \* the loop index over the candidates
  lastBox,        \* last_box of findEligibleBox_RR
  loaded,         \* the queue element being built
  nextArc,        \* the position in the input arcs of its box
  toJoin,         \* the workers start() has not come to yet
  joining         \* the worker it is joining

schedVars == <<spc, candidates, runnable, untested, numToSchedule, next,
               lastBox, loaded, nextArc, toJoin, joining>>

\* What belongs to one phase of the scheduler and is idle in the others.
findVars == <<candidates, runnable, untested, lastBox>>
loadVars == <<next, loaded, nextArc>>
joinVars == <<toJoin, joining>>

SchedulerLocations ==
  {"event", "sleep", "wait", "test", "size", "copy", "find", "load", "pin",
   "push", "signal", "join", "finished"}

ASSUME SchedulerAssumption ==
  /\ Policy \in {"SLOPE_SLACK_TYPE", "BOX_RR_TYPE", "BOX_LQF_TYPE",
                 "BOX_RANDOM_TYPE"}
  /\ WinSize \in [Boxes -> Nat \ {0}]
  /\ BeqSizeLimit \in Nat \ {0}
  /\ TrainPercent \in 0..100
  /\ NumToFind \in Nat \ {0}

\* A train of more than the whole queue (_fixed_train_size > 1) would make a
\* worker copy tuples that are not there; no option check rules it out.

\* start() lowers _beq_size to the number of boxes.
BeqSize ==
  IF Cardinality(Boxes) < BeqSizeLimit THEN Cardinality(Boxes) ELSE BeqSizeLimit

SchedulerInit ==
  /\ spc = "event"
  /\ candidates = <<>>
  /\ runnable = {}
  /\ untested = {}
  /\ numToSchedule = 0
  /\ next = 1
  /\ lastBox = 0
  /\ loaded = NoQE
  /\ nextArc = 1
  /\ toJoin = Workers
  /\ joining = Nobody

(***************************************************************************)
(* waitForEvent.  Queue size, work set and candidates are read without a   *)
(* lock; with work in sight the scheduler does not wait.  Nothing is       *)
(* re-checked before the wait, so a broadcast that comes between the look  *)
(* and the wait is lost, and the two-second timeout makes up for it.       *)
(***************************************************************************)
WaitForEvent ==
  /\ spc = "event"
  /\ spc' = IF beq = <<>> /\ workSet # {} /\ candidates # <<>>
            THEN "test" ELSE "sleep"
  /\ UNCHANGED <<findVars, loadVars, joinVars, numToSchedule, beqVars,
                 stopVars, smVars, boxLocked>>

SchedulerSleeps ==
  /\ spc = "sleep"
  /\ schedWaiting' = TRUE
  /\ spc' = "wait"
  /\ UNCHANGED <<findVars, loadVars, joinVars, numToSchedule, beq, beqHolder,
                 beqWaiters, stopVars, smVars, boxLocked>>

SchedulerWoken ==
  /\ spc = "wait"
  /\ ~schedWaiting
  /\ spc' = "test"
  /\ UNCHANGED <<findVars, loadVars, joinVars, numToSchedule, beqVars,
                 stopVars, smVars, boxLocked>>

SchedulerTimeout ==
  /\ spc = "wait"
  /\ schedWaiting
  /\ schedWaiting' = FALSE
  /\ spc' = "test"
  /\ UNCHANGED <<findVars, loadVars, joinVars, numToSchedule, beq, beqHolder,
                 beqWaiters, stopVars, smVars, boxLocked>>

\* The end of waitForEvent, and the loop condition of start().
TestForStop ==
  /\ spc = "test"
  /\ TestStop
  /\ spc' = IF StopSeen THEN "signal" ELSE "size"
  /\ UNCHANGED <<findVars, loadVars, joinVars, numToSchedule, beqVars, smVars,
                 boxLocked>>

\* start(): refill only when more than half of the queue is free.
ReadSize ==
  LET free == BeqSize - Len(beq) IN
  /\ spc = "size"
  /\ beqHolder = Nobody
  /\ IF Len(beq) < BeqSize /\ free > BeqSize \div 2
     THEN spc' = "copy" /\ numToSchedule' = free
     ELSE spc' = "event" /\ UNCHANGED numToSchedule
  /\ UNCHANGED <<findVars, loadVars, joinVars, beqVars, stopVars, smVars,
                 boxLocked>>

\* findEligibleBox_*: forget the candidates, copy the box work set.
CopyWorkSet ==
  /\ spc = "copy"
  /\ candidates' = <<>>
  /\ runnable' = workSet
  /\ untested' = workSet
  /\ spc' = "find"
  /\ UNCHANGED <<lastBox, loadVars, joinVars, numToSchedule, beqVars, stopVars,
                 smVars, boxLocked>>

(***************************************************************************)
(* full_window: every policy but longest-queue-first takes a box as soon   *)
(* as one of its inputs holds a window.                                    *)
(***************************************************************************)
FullWindow(b) ==
  IF Policy = "BOX_LQF_TYPE"
  THEN \A a \in InArcs(b) : numRecords[a] >= WinSize[b]
  ELSE \E a \in InArcs(b) : numRecords[a] >= WinSize[b]

\* The loop over the copied set goes on.
Searching ==
  /\ untested # {}
  /\ Policy = "BOX_RANDOM_TYPE" => Len(candidates) < NumToFind

\* findEligibleBox_Random draws from the whole copy at each turn, so it can
\* test a box again; the others look at each box once, by ascending id.
Drawn ==
  IF Policy = "BOX_RANDOM_TYPE" THEN runnable
  ELSE {b \in untested : \A c \in untested : b <= c}

(***************************************************************************)
(* One turn of the loop: try the lock of the box, look at its counts, give *)
(* the lock back.  Nothing but the scheduler ever takes a box lock, and    *)
(* the counts of a box that no worker has can only grow, so what one look  *)
(* at all of them finds, the loop over them can find too, and vice versa.  *)
(***************************************************************************)
TestBox(b) ==
  /\ spc = "find"
  /\ Searching
  /\ b \in Drawn
  /\ candidates' = IF b \notin boxLocked /\ FullWindow(b)
                   THEN Append(candidates, b) ELSE candidates
  /\ untested' = untested \ {b}
  /\ UNCHANGED <<spc, runnable, lastBox, loadVars, joinVars, numToSchedule,
                 beqVars, stopVars, smVars, boxLocked>>

(***************************************************************************)
(* The order in which the candidates are loaded.  Round robin, which has   *)
(* them by ascending id, rotates those to the end that do not come after   *)
(* the box that was first the last time.  The slopes of SLOPE_SLACK depend *)
(* on the time, and the sort key of LQF (_largest_input_queue_length) is   *)
(* never assigned: any order may result.  Random keeps the order drawn.    *)
(***************************************************************************)
RotateBy(k) ==
  [i \in DOMAIN candidates |->
     candidates[((i + k - 1) % Len(candidates)) + 1]]

NotLater == {i \in DOMAIN candidates : candidates[i] <= lastBox}

Orders ==
  CASE Policy = "BOX_RANDOM_TYPE" -> {candidates}
    [] Policy = "BOX_RR_TYPE" -> {RotateBy(Cardinality(NotLater))}
    [] OTHER -> {s \in [DOMAIN candidates -> Boxes] :
                   \A b \in Boxes :
                     Cardinality({i \in DOMAIN s : s[i] = b})
                       = Cardinality({i \in DOMAIN s : candidates[i] = b})}

OrderCandidates ==
  /\ spc = "find"
  /\ ~Searching
  /\ \E s \in Orders :
       /\ candidates' = s
       /\ lastBox' = IF Policy = "BOX_RR_TYPE" /\ s # <<>> THEN s[1] ELSE lastBox
  /\ runnable' = {}
  /\ untested' = {}
  /\ spc' = IF candidates = <<>> THEN "event" ELSE "load"
  /\ UNCHANGED <<loadVars, joinVars, numToSchedule, beqVars, stopVars, smVars,
                 boxLocked>>

\* As Train below would be if it were a number of tuples and not a share of
\* the queue, and without its lower bound.
TrainOfTwo(n) == 2
TrainUnbounded(n) == (n * TrainPercent) \div 100

\* The train of an arc with n tuples: at least one of them.
Train(n) ==
  IF n > 0 /\ n * TrainPercent < 100 THEN 1
  ELSE (n * TrainPercent) \div 100

(***************************************************************************)
(* loadSingleBox: the box is locked again, the counts of its input arcs    *)
(* are read again, one after the other (PinInput), and whatever they are   *)
(* by then goes into the queue element.  A candidate whose lock is taken   *)
(* is passed over.                                                         *)
(***************************************************************************)
MoreToLoad == next <= numToSchedule /\ next <= Len(candidates)

LoadSingleBox ==
  LET b == candidates[next] IN
  /\ spc = "load"
  /\ MoreToLoad
  /\ LockBoxTry(b)
  /\ loaded' = [box |-> b, pin |-> [a \in Arcs |-> 0]]
  /\ spc' = "pin"
  /\ next' = next + 1
  /\ UNCHANGED <<nextArc, findVars, joinVars, numToSchedule, beqVars, stopVars,
                 smVars>>

SkipLockedBox ==
  /\ spc = "load"
  /\ MoreToLoad
  /\ candidates[next] \in boxLocked
  /\ next' = next + 1
  /\ UNCHANGED <<spc, loaded, nextArc, findVars, joinVars, numToSchedule,
                 beqVars, stopVars, smVars, boxLocked>>

PinInput ==
  LET ids == InputQueueIds[loaded.box]
      a == ids[nextArc] IN
  /\ spc = "pin"
  /\ loaded' = [box |-> loaded.box,
                pin |-> [loaded.pin EXCEPT ![a] = Train(numRecords[a])]]
  /\ IF nextArc < Len(ids) THEN nextArc' = nextArc + 1 /\ spc' = "pin"
                           ELSE nextArc' = 1 /\ spc' = "push"
  /\ UNCHANGED <<next, findVars, joinVars, numToSchedule, beqVars, stopVars,
                 smVars, boxLocked>>

PushElement ==
  /\ spc = "push"
  /\ Push(loaded)
  /\ loaded' = NoQE
  /\ spc' = "load"
  /\ UNCHANGED <<next, nextArc, findVars, joinVars, numToSchedule, stopVars,
                 smVars, boxLocked>>

RefillDone ==
  /\ spc = "load"
  /\ ~MoreToLoad
  /\ next' = 1
  /\ spc' = "event"
  /\ UNCHANGED <<loaded, nextArc, findVars, joinVars, numToSchedule, beqVars,
                 stopVars, smVars, boxLocked>>

(***************************************************************************)
(* The end of start(): for one worker after the other, broadcast without   *)
(* the mutex of the queue and wait until that worker has ended.  Workers   *)
(* are interchangeable, so the order of their ids is any order.            *)
(***************************************************************************)
SignalWorker(w) ==
  /\ spc = "signal"
  /\ w \in toJoin
  /\ Signal
  /\ toJoin' = toJoin \ {w}
  /\ joining' = w
  /\ spc' = "join"
  /\ UNCHANGED <<findVars, loadVars, numToSchedule, stopVars, smVars,
                 boxLocked>>

\* pthread_join of that worker; ended is the set of the threads that exited.
JoinWorker(ended) ==
  /\ spc = "join"
  /\ joining \in ended
  /\ joining' = Nobody
  /\ spc' = IF toJoin = {} THEN "finished" ELSE "signal"
  /\ UNCHANGED <<toJoin, findVars, loadVars, numToSchedule, beqVars, stopVars,
                 smVars, boxLocked>>

\* Every step of the scheduler thread but the one that waits for a worker.
SchedulerStep ==
  \/ WaitForEvent \/ SchedulerSleeps \/ SchedulerWoken \/ SchedulerTimeout
  \/ TestForStop \/ ReadSize \/ CopyWorkSet \/ (\E b \in Boxes : TestBox(b))
  \/ OrderCandidates \/ LoadSingleBox \/ SkipLockedBox \/ PinInput
  \/ PushElement \/ RefillDone \/ (\E w \in Workers : SignalWorker(w))
=============================================================================
