# A verification of the Aurora runtime

Aurora is a stream processing engine: a network of boxes (operators) connected by
arcs (queues of tuples) runs over streams that never end. `src/sched` holds the
engine, `src/predparser` the language of predicates and expressions of its boxes, and
`src/util` the threads, locks, pools and parsers below it. This directory models it in
TLA+, in five parts:

1. the **runtime**, that is the scheduler, the workers, the stream thread and the storage
   manager they share, scheduling box by box (`SCHED_BY_BOX`);
2. the runtime scheduling whole applications as **superboxes** (`SCHED_BY_APP`);
3. the **operators**: what the boxes compute on trains of tuples, with the predicates,
   expressions and aggregate functions they are configured with;
4. the **thread pool** of `src/util`;
5. the **primitives**: the other objects that several threads share, that is two locks, two pools of
   file descriptors, an ordered map, the scheduler's priority grid and the tables of the relation boxes.

Each part is checked with TLC on small instances. TLAPS proves the central invariants of
parts 1, 4 and 5 for every value of the constants.

All paths below are relative to `src/sched/src` unless they say otherwise.

## 1. The system

| Part | State | Operations | Talks to |
|---|---|---|---|
| `Catalog` | boxes, arcs, one mutex per box and per arc | load the network, `lockBoxTry`, `unlockBox`, `lockArc` | everyone |
| `SMInterface`, `Shared` | tuple queue per arc, record count per arc in shared memory, `__box_work_set` | `dequeuePin`, `dequeueUnpin`, `enqueueUnpin` (superboxes: `dequeueEnqueuePin/Unpin`) | called by workers and the stream thread |
| `Measurement`, `GlobalStop` | stop flag, counters | `testStopCond`, `getStop`, increments | every thread asks for the flag |
| `BoxExecutionQueue` | queue of elements, mutex, condition variable | `push`, `pop`, `signalIfEmpty`, `wait`, `signal` | scheduler to workers |
| `Scheduler` | candidates, last box, limits, thread pool | `start`, `waitForEvent`, `refillQueue`, `findEligibleBox_*`, `loadSingleBox`; for applications the traversals and top-K trees | counts, work set, box locks, execution queue |
| `WorkerThread` | the element at hand, buffers | `run`, `loadQueues`, `unloadQueues`, `announceNewAppTuples` | storage manager, box, application monitor |
| `StreamThread` | arrivals still to come | `addInput`, `run` | storage manager, wakes the scheduler |
| QBoxes | window state of each operator, kept in the catalog between runs | `doBox`, `applyLoadShedding` | called by workers |
| relation boxes | accounts, balances, tolls and accidents in a Berkeley DB | get, put, cursors | each other, through the tables |
| `PriorityGrid` | graphs of utility, a cell per box and bucket of latency, lists of boxes by urgency | `loadBox`, `findEligibleBox_Bucketing`, `_Bucketing1` | scheduler, box locks |
| `QoSMonitor`, `QueueMon`, `SysMon`, `NetThread`, `InputReceiver` | statistics, display, sockets | | scheduler, storage manager |
| `PtThreadPool`, `ClosableFifoQueue` (`src/util`) | two queues, two counts, the threads, a semaphore | `schedule`, `quiesce`, the destructor; `enqueue`, `close`, `dequeueBlocking` | a client, and its server threads |
| `FairMutexWithCancel`, `FifoCriticalSection` (`src/util`) | a list of waiters, one condition each | `lock`, `unlock`, `cancel` | any threads |
| `FileDescPool`, `FdMultiPool` (`src/util`) | free and leased descriptors, limits | acquire, release, limits, close | users of files |
| `TopNMultimap` (`src/util`) | the N highest entries and the others | `insert`, `erase` | whoever includes it (its test) |
| the rest of `src/util` | logging, properties, XML, strings | | |
| `src/predparser` | trees of predicates and expressions, window buffers, aggregate state | `parsePred`, `evaluate`, `init`/`incr`/`final` | QBoxes |

What happens to a tuple: the stream thread makes it and `enqueueUnpin`s it on an input arc, which puts the
destination box in the work set and then raises the arc's count. The scheduler
copies the work set, tries the lock of each box, looks at its counts, orders the candidates by its policy,
locks each one again, sizes a train per input arc, and pushes an element.
A worker pops it, copies the trains (they stay on the arcs), runs the box, removes the
trains (the work set may lose the box here), stores the results on the output
arcs, tells the application, unlocks the box and wakes the scheduler.

What is hard about it:

* The box lock is taken by one thread and released by another, with a queue between the two.
* The scheduler decides on counts that it reads without the arc mutexes, at three
  different times (work set, look, train), while workers and the stream change them.
* The work set is written by arrivals and removals on *different* arcs, so no arc mutex orders them.
* Three condition variables are waited for without re-testing, with broadcasts
  inside and outside of the mutex; a timeout repairs some of it.
* A stop can come at any moment: between pop and run, between count and store.
* A superbox is planned on counts that are read leaf by leaf, with memory sized from them,
  and run later over buffers that bypass the arcs inside it.
* An operator sees its stream cut into trains by the scheduler, with its inputs interleaved in any way,
  and may not let the cuts show in what it computes.
* The relation boxes read and write a row in two calls without a transaction.

What each part owes, and the property that says so:

| Part | Owes | Property |
|---|---|---|
| storage manager | counts equal to queue lengths; a work set that misses no box | `CountsConsistent`, `WorkSetComplete` |
| scheduler and workers | exclusive boxes; trains within the queue and never empty; announcements that are true; a clean and complete shutdown | `BoxExclusion`, `PinsAvailable`, `NoEmptyRun`, `AnnouncedAvailable`, `ShutdownClean`, `ShutdownCompletes` |
| the whole runtime | delivery of everything, in order, exactly once | `Drained`, `ImplementsStreams` |
| superboxes | exclusive applications and boxes; no assertion that is not explained; inner arcs empty at all times; enough memory; the same streams | `SuperboxExclusion`, `AbortsExplained`, `InnerArcsEmpty`, `BuffersSuffice`, `ImplementsStreams` |
| operators | every tuple passed once; sorted; all pairs of the window, once; windows that are final | `PassedOnce`, `BSortSorted`, `JoinExact`, `ResampleWindows`, `AggregateWindows` |
| predparser | texts mean what they say; functions compute what they are named for | `TextMeans`, `AggregatesExact` |
| thread pool | one execution per runnable, in turn; an end that is one; a bound on threads | `ImplementsPool`, `EveryRunnableReturns`, `ClosedMeansDone`, `QuiesceCloses`, `QuietAfterPost`, `ThreadLimit` |
| locks | one holder, in turn; no caller forgotten | `FairGrants`, `GrantedUnlessCancelled`, `FifoExclusion` |
| descriptor pools | limits kept; no sleeper beside a free descriptor; a total within the system's | `LimitKept`, `SleepersWoken`, `MultiPoolBudget` |
| ordered map, grid | the highest on top; the most urgent first; every box where it belongs | `TopNRanked`, `UrgentFirst`, `CellCovers`, `GridSound` |
| relation boxes | balances that account for every charge; every car before an accident found, and a toll of the place and the time; the latest toll, and the accident in the row | `LedgerBalanced`, `TablesRead`; `TollUpToDate`, `AccidentNoted` |

The hazards behind them are listed, each at its line, in `PROJECT.json`.

## 2. The modules

```
Catalog <- SMInterface <- Measurement <- BoxExecutionQueue <-+- WorkerThread -+
                                                             +- Scheduler ----+- RuntimeProperties
                                                             +- StreamThread -+     |     |
ReliableStreams (abstract) <------- refined by -------------------------------------+  MCRuntime
            ^                                                                       |
            |                                                           RuntimeTheorems <- StreamTheorems
            |                                                                  (with SumTheorems)
            |
            +- refined by --- SuperboxProperties <-+- SuperboxWorker (WorkerThread, Applications)
                                  |     |          +- AppScheduler   (Scheduler, Applications)
                                  |     |          +- StreamThread;     Catalog <- Applications
                                  |  SuperboxTheorems (with SumTheorems)
      ApplicationTrees --> MCSuperbox;                  Applications <- ApplicationTrees

QBox <-+- StatelessQBoxes, BSortQBox, AggregateQBox -------+
       +- BufferList <- JoinQBox, ResampleQBox ------------+- Operators <- OperatorTheorems (with SumTheorems)
       |                                                         |
       +- Predparser ------------------------------------------- Phrases <- MCOperators

ClosableFifoQueue (twice) <- PtThreadPool <- PoolTheorems
RunnablePool (abstract) <--- refined by ---+

PtThreadPool, FairMutexWithCancel, FifoCriticalSection, FileDescPool,
TopNMultimap, PriorityGrid, Relations <- Primitives <- MCPrimitives
FairMutexWithCancel, FifoCriticalSection, FileDescPool,
TopNMultimap, Relations <- PrimitiveTheorems (with SumTheorems)
PriorityGrid <- GridTheorems (with SumTheorems)
```

### The runtime

* **Catalog**: the network is a constant. `CatalogAssumption` says what
  the scheduler's constructor establishes when it goes once over the arcs, that every box has an input
  (`findEligibleBox_SlopeSlack` asserts it) and an output (`run` dereferences the first arc of
  every port). `boxLocked` is the set of the box mutexes held.
* **SMInterface**: `queue`, `numRecords`, `workSet`, `arcHolder`. Each access to a count is one step
  (a SysV semaphore guards it), and so is each access to the work set (a mutex guards
  it). `enqueueUnpin` is split between the insertion into the work set and the new count
  (`EnqueueWrite`, `EnqueueCount`); `dequeueUnpin` between the new count and the look at
  the siblings (`DequeueRemove`, `DequeueForget`). The arc mutex is held across each split. The reads of several sibling counts are
  one step: while a worker has the box its inputs only grow, so finding them all 0 one
  after the other is possible only when they were all 0 at the first read.
* **Measurement**: the stop flag with the three conditions a run can be configured
  with and that have a definite meaning.
* **BoxExecutionQueue**: the queue, its mutex as far as it is held over more than
  one step (`beqHolder`: between a worker's look and its wait), and who is blocked on the two condition variables. A woken worker
  must take the mutex again.
* **WorkerThread**: one action per stretch of `run` between two accesses to
  shared state. `DoBox` is a union without load shedding: all tuples
  of all inputs, input by input, to all arcs of its port.
* **Scheduler**: `start` and `SCHED_BY_BOX`. The four `findEligibleBox_*` differ in three places, and
  these are operators: `FullWindow`, `Drawn`, `Orders`. Times and slopes are not modelled; the order they produce is any order.
* **StreamThread**: any input arc may be next.
* **ReliableStreams**: what an application may rely on, with no engine in sight.
* **RuntimeProperties**: the threads side by side (`Next` stops at a failed assertion), and the properties; **MCRuntime**: three small networks.
* **RuntimeTheorems, StreamTheorems**: the proofs (section 4). **SumTheorems**: lemmas about
  sums over finite sets, which they share with the proofs of the descriptor pools.

### Superboxes

* **Applications**: the tree of boxes behind each application arc and the orders in which a superbox may run
  them are constants. `ApplicationsAssumption` says what the rest needs of them: a tree has boxes only, its root among them, with one
  feeder or none per input, and every order comes by all boxes of its tree and by no others. Trees may overlap, and an order may repeat a box.
  `TreesAssumption` says how the nodes fit together (a box other than the root leaves by an arc to a box of the tree, which has it on the other side of that arc
  and of no other) and that an order comes by the box above a box after the last time it comes by the box.
* **ApplicationTrees**: what the constructor of the scheduler computes for these constants, `LoadedTrees` and `LoadedTraversals`
  (`MIN_COST`, `MIN_LATENCY`, `MIN_MEMORY`). Its recursions go once over a tree; here trees are
  functions from boxes to nodes. It uses `RECURSIVE` operators, and `MCSuperbox` gives its values to the run,
  so that TLC checks the assumption of them.
* **SuperboxWorker** extends `WorkerThread`. Every arc of an element is a buffer (`queue_info`)
  of the worker, the boxes of the list read and write buffers one after the other, and
  at the end the buffers are put on the application's arcs. Memory that nobody wrote is `Garbage`.
  `enqueuePin`, `dequeueEnqueuePin` and `dequeueEnqueueUnpin` of the storage manager are here. `strayed` records the boxes that
  a worker unlocked while another superbox had them; nothing depends on it.
* **AppScheduler** extends `Scheduler`. The search for an application is split at
  its lock, its tests and its loads; `traverse_LoadQueue` is a machine with a stack, one step
  per node or leaf, because streams and workers run between its reads of counts.
* **SuperboxProperties** composes them with the stream thread and states the
  properties; **MCSuperbox** has one network of three applications. **SuperboxTheorems**: the proofs of the exclusion and of the empty arcs.

### Operators

A tuple is its place in its stream, a group and a value; all other bytes are copied and never looked at.

* **QBox**: load shedding and the result of `doBox`, with the counts that the worker goes
  by kept apart from the tuples that were written.
* **StatelessQBoxes**: Filter, Map, Union, HelloWorld, Drop, Experiment, Restream. **BSortQBox**,
  **AggregateQBox**: one buffer, or one set of windows, per group.
* **BufferList**, **JoinQBox**, **ResampleQBox**: the window buffers of two inputs. The
  buffers keep pointers to values, and the threshold is one of these pointers, so the model has cells: raising the
  threshold moves the value of a buffered tuple (`BufferList.cpp:183-190` of `src/predparser/src`).
* **Predparser**: the grammar of predicates and expressions from tokens on, the objects it builds, and
  what these compute, with types that do not fit (`Garbled`) and division by zero (`Trapped`). Its second half has the aggregate functions, an
  operator per class, with `init`, `incr` and `final`. It uses `RECURSIVE` operators.
* **Operators**: one box under the scheduler. It cuts trains from the inputs in any way, sheds in any
  way, and holds what was computed against definitions on whole streams. It has no `RECURSIVE` operators, so that **OperatorTheorems** can
  prove things about it. `CasesAssumption` says what a box under test is given: the tuples of its inputs are numbered in the order they come,
  no two alike, their order-by values are integers, and a join or resample has two inputs.
* **Phrases** adds boxes that are predicates (`Parse`, `Ask`) and aggregate functions (`Incr`) from `Predparser`, and says
  what a text means. **MCOperators** has the boxes, texts and streams.

### The thread pool

* **ClosableFifoQueue**: a queue, its flag and the threads that wait on its condition; each operation is one critical
  section, and `dequeueBlocking` three of them, by what the loop finds. A wait may end for no reason (`WakeSpuriously`).
* **PtThreadPool**: the pool with two instances of the queue, one action per critical section of `_mtx` or of a
  queue, so that a server thread can be caught between its first test and its
  registration, or between its report and its account. The client is that of `testPtThreadPool.c`, which schedules,
  quiesces, collects to the end and destroys; it may also collect before it quiesces.
* **RunnablePool**: what the comments of the pool promise. **PoolTheorems**: the proofs. The pool is checked as
  one of the subjects of **Primitives**; its own specification (`PoolSpec`) is what the proofs and two runs are about.

### Primitives

* **FairMutexWithCancel**, **FifoCriticalSection**: a list of waiters with a condition each; each method is a critical section of an inner
  mutex and so a step; a wait cuts `lock` in two. Waits may end for no reason.
* **FileDescPool**: `FileDescPool` and `FdMultiPool`. `setFDLimits` is two steps,
  for it tests the leased descriptors before it takes the mutex (`src/util/src/FileDescPool.c:130`).
* **TopNMultimap**: the map and its two halves as one function. It has the
  entry that is overwritten and stays on top although its value is lower now. A map may be made for N = 0
  (`src/util/include/TopNMultimap.H:34`), and `insert` then reads `begin()` of an empty map: `InsertAtZero` is the choice among what
  may follow, up to the insert that lists an entry twice, after which the map is followed no further.
* **PriorityGrid**: how the graphs of utility become cells, and both searches by bucket with the locks they take.
  Two history variables record that a search by applications came to its limit, and that one found boxes of an earlier one in the
  grid. A box without a cell aborts either search, as line 152 does. **GridTheorems**: its proofs.
* **Relations**: the four relation boxes; a step is one call of the data base. The data
  base itself (Berkeley DB) is external; its tables are functions.
* **Primitives**: each behaviour is about one of these or about the thread pool, the `subject`, so that one run can check all
  of them without multiplying their states. **PrimitiveTheorems**: the proofs about the locks, the map,
  the relations and the descriptor pools.

Operators whose comment begins with "As ... would be" (`PopKeeping`, `TrainUnbounded`, ...) are plausible bugs. No
specification uses them; each property of a passing run is known to fail when one
replaces the definition it stands beside (`mutants` in `PROJECT.json`).

## 3. The runs

| Run | Instance | Settings | Shows | Distinct states |
|---|---|---|---|---|
| `split` | in -> 1 -> {mid, out1}; mid -> 2 -> out2 | 2 workers, 3 tuples, slopes, trains of 70 %, `TIME_STOP` | all safety properties, the inductive invariant `IInv` of the proofs, refinement of `ReliableStreams` | 714 000 |
| `drain` | in -> 1 -> mid -> 2 -> out | 2 workers, 2 tuples, round robin, no stop, fair threads | every tuple is delivered; `IInv` under a second policy | 131 000 |
| `lost_work` | {inA, inB} -> 1 -> out | round robin | *violated*: `WorkSetComplete` | |
| `empty_run` | the chain | random | *violated*: `NoEmptyRun` | |
| `lost_wakeup` | the union, one worker | fair threads, `TIME_STOP` | *violated*: `ShutdownCompletes` | |
| `superboxes` | a chain with a merge, and two applications that share another one | 2 workers, four ways to choose an application, three traversals, three profiles of arrivals, stop at 2 tuples written | exclusion up to boxes a list names twice, memory, inner arcs, which assertions can fail, refinement of `ReliableStreams` for the applications that share nothing | 1 032 000 |
| `operators` | one box | trains of up to 2, streams of 2 to 5 tuples, two groups, values 0 to 3 | all operators, texts and aggregate functions | 531 000 |
| `primitives` | one object | 3 runnables and 3 threads to be had by a pool of 1 to 2, 4 callers, 4 enterers, 3 users, 3 files, 4 keys, 9 grids, 6 sets of relation boxes; fair threads | thread pool (counts, end, refinement of `RunnablePool`, both liveness properties), locks, descriptor pools, map, grid, tables | 128 000 |
| `pool_quiet` | | 2 runnables, 2 threads | *violated*: `QuietAfterPost` | |
| `pool_limit` | | 3 runnables, at most 1 thread wanted | *violated*: `ThreadLimit` | |
| `stale_toll` | relation boxes | two tolls of one place, a minute, a report there | *violated*: `TollUpToDate` | |
| `wrong_mark` | relation boxes | a charge, an accident ahead of the car | *violated*: `AccidentNoted` | |

**Why these bounds.** Two workers are the fewest that can collide over a box or
race on an arc that joins two boxes; with two boxes no more than two elements are under way, so a
third worker would only wait. Three tuples with trains of 70 % give trains of 1 and 2,
trains that leave a tuple behind, and arrivals during each phase of a run. The split has an arc that joins two boxes and a port with two arcs. `BeqSizeLimit` is the
code's default of ten, lowered to the number of boxes as `start` does; `NumToFind` is the code's ten. `WinSize` is 1, the
only value `Catalog::loadBoxes` assigns. Workers are interchangeable, so the safety runs use their
permutations as symmetry; the liveness runs do not. No variable has to be cut off: the
stream is finite, and so are all counters.

`split` says `CHECK_DEADLOCK FALSE`, for a stopped engine stops, and so does `lost_wakeup`; in `drain` the
scheduler's timeout goes on for ever and a deadlock would be reported.

For the pool, three runnables and a third thread beyond the maximum are enough for the pool to create more threads than it
wants, for machine threads to run out in `schedule`, and for two threads to report and retire around a third
that has not registered. `primitives` says `CHECK_DEADLOCK FALSE` again: a client may do no more, and the destructor may block.

For `superboxes`, two tuples on `inA` go through a chain, or one on each of `inA` and `sideA` through a tree with two leaves, or one on `inB`
and two on `sideB` through a tree of the same form that two applications share, so that the list of `MIN_LATENCY` or `MIN_MEMORY` names the
merge twice and a box is unlocked while the other application has it; more arrivals than were counted come in between. `BeqSizeLimit` 2 lets one superbox wait
while two run. A behaviour takes one profile and one of four pairs of a way to choose and a traversal, in which each of either occurs.

For `operators`, every slack and every window is 0 or 1, or sizes and advances of 1 to 3 (overlapping, equal and with
gaps), so that streams of five tuples open, close and time out several windows and raise every threshold;
join and resample have streams of three tuples each. Trains of up to 2 cut a stream at each place, also inside a window and between two tuples of the same value. `MaxClock` 1 with a timeout of 0 lets
every window time out or not. The texts have up to three operators, every operator and function at least once, and comparisons and combinations also cut short.

For `primitives`, four callers are the fewest with a holder, a first waiter and waiters behind it; three users can exceed a limit
of two; top 2 of four keys has an entry to promote after every erasure, and top 0 never has room; three buckets with latencies of 0 to 10 reach each
bucket, its borders and beyond; two relation boxes on the same rows can race, and others read them beside or behind it. Of the grids, five of mode "app" have ids
that make the array of bits long enough or too short, a walk that comes to its limit, and boxes without a cell.

**Fairness.** `FairSpec` asks weak fairness of each worker, of the scheduler and of the stream
thread, each as a whole: a thread of a preemptive system that can take a step
takes one eventually. Nothing is assumed of mutexes (a fair lock would be strong fairness), of the clock, or of which
alternative a thread takes. The scheduler's timeout is one of its own steps, so it needs no
assumption of its own. The pool's `FairSpec` asks the same of each server thread, and of the client that it goes on with a construction,
collection or destruction; not that it schedules or quiesces (in `Primitives`, as `PoolFairness`, of a behaviour whose subject is the pool). The specification of `Primitives` asks weak fairness of a caller of
the fair mutex that may resume, too, and that a holder gives it back; of the others it asks nothing.

**What the violations mean.**

* `lost_work`. The worker removes the last tuple of `inA` and finds `inB` at 0, while the stream thread has inserted the box for a tuple on `inB` and
  not counted it yet; the worker then erases the box. `Scheduler::testBoxWorkSet` would abort ("`__box_work_set` is wrong"). The tuple
  waits for the next arrival, for ever if there is none. This needs two inputs: `split`, where each box has one, checks that
  `WorkSetComplete` holds there, and `drain` that everything is then delivered.
* `empty_run`. `findEligibleBox_Random` draws with repetition; the second occurrence of a box is scheduled after a worker has
  emptied it, and the worker meets `assert(false)`. `split` checks `NoEmptyRun` for a policy that looks at each box once.
* `lost_wakeup`. `start` broadcasts outside of the mutex of the execution queue; a worker between its test of the flag and its wait sleeps through it
  and is joined for ever.
* `pool_quiet`. A thread sees the scheduled queue open; the client quiesces; the only other thread registers, finds the queue closed and
  empty, and retires as the last one registered, which posts the semaphore. The destructor takes `_mtx` and joins
  the first thread, which is about to take `_mtx` to register.
* `stale_toll`. The table of statistics is sorted by place and then by time, and the cursor is set to the first row from a minute ago on
  (`LRReadRelationQBox.cpp:91`): with two rows of that minute it is the older one, whereas the comment says "Get the most up to date toll for this position." (62).
* `wrong_mark`. The walk for an accident writes index 6 of a row (`LRUpdateRelationQBox.cpp:240`), the last toll; the flag of an accident is
  index 8 (60), and the comment says "Rewrite the accident part of the data." (238). `TablesRead` holds all the same, for it says that each car
  is come to, and that a toll is of the place and the minute, not which field is marked or which row is taken.
* `pool_limit`. A thread counts itself when it first runs; until then each `schedule` finds the count too low and creates another.

**What the properties had to allow.** Stating the properties of parts 2, 3 and 5 showed what the code
does that one might not expect. Each is in the model as the code does it, and the property that meets it names the exception:

* *Superboxes.* `traverse_LoadQueue` gives a box without input back and leaves it in `locked_boxes_set` (`Scheduler.cpp:1763-1782`),
  so that the worker comes to it and to `assert(false)`. The `MIN_LATENCY` list repeats the box nearest to the root, and aborts any chain
  of two boxes; `MIN_MEMORY` may. Where applications share a box, `isAppRunnable` and the traversal look at different
  arcs and an assertion of the scheduler may fail. A list that names a box twice unlocks it twice (`WorkerThread.cpp:631-637`), and between the
  two another application may have locked it, which then has it no longer. `SuperboxExclusion` excepts the boxes this ever happened to (`strayed`), and says that they
  are boxes of two applications. A box that has two arcs into one tree leaves in the tree by the first; the other one is a leaf, which is pinned
  for reading by the box at its end and for writing by its own box, and the buffer of the second pin, with nothing to read at NULL, replaces that of the first
  (`WorkerThread::loadQueues`). The process then ends, or tuples remain on that arc for the next superbox. `AbortsExplained` says that there are no other
  reasons: what is sound is an order by cost over applications that share nothing and whose boxes have one way to the root. `dequeueEnqueuePin`
  copies one slot whatever it pinned (`SMInterface.cpp:838`); harmless, by `InnerArcsEmpty`, which excepts these second arcs: they are not arcs of the
  tree, and on a triangle of boxes (1 feeds 2 and 3, 2 feeds 3) with a list by latency they do hold tuples.
  `BuffersSuffice` needs one way to the root as well. TLC shows it on a merge (box 4) of three streams, over box 1, box 2 and box 3, with more arcs from 1 to 2 and
  from 2 to 3, the list by memory 3, 2, 1, 4, and three messages per stream: box 2 does not read what it was counted for, its dequeue subtracts the count all the
  same, `numRecords` goes below 0, and the buffers that the next `traverse_LoadQueue` sizes from it are too small. No run has this network; that of `superboxes` has one way to the root.
* *Operators.* Join and Resample change the value of the buffered tuple whose cell is the threshold, so that pairs outside of the window are
  emitted and others missed; `JoinExact` and `ResampleWindows` hold for tuples whose cell has not moved. Resample adds the left
  tuple where it should add the right one (`ResampleQBox.cpp:248`). Map announces shed tuples too, as stale slots (`MapQBox.cpp:78`). Drop and Restream
  never set the counts that `WorkerThread.cpp:489` indexes, and the process ends. The slack of an aggregate
  does not cover the first tuple of a group. Experiment reports a latency summed over its inputs.
* *Predparser.* Operators group to the right and have no precedence; an expression has the type of its leftmost operand;
  `OR` of a pair of tuples is `AND`; strings have only `=` and `!=`; `ABS` only takes what begins with a number; what follows a predicate is ignored.
  `TextMeans` says what is then meant. Acc1AF writes five fields where it announces three: `AggregatesExact` holds all five to the
  tuples of the window, and says that no more than three are emitted. Seg2AF and Seg3AF keep their sum `unsigned`, so that the
  average of a window with a negative sum is another number (`Seg2AF.cpp:41`, `Seg3AF.cpp:38`); `AggregatesExact` excepts these windows. The model divides
  as the code does, so that such rows go on to where the box emits them.
* *Primitives.* `cancel` wakes the first waiter only (`FairMutexWithCancel.c:92`): `GrantedUnlessCancelled`. A thread can
  overtake the first waiter of a `FifoCriticalSection`, and a spurious wake-up then fails the assertion of line 45. A pool can be over a limit that was
  lowered during a lease: `LimitKept` says that no lease takes it there. A box whose downstream cost exceeds its graph has no cell in bucket 0, against the
  comment of `PriorityGrid.cpp:109`, and so has one whose graph begins late; `GridSound` allows the assertion for these, in mode "box" for these alone. The search by applications leaves its last lock
  held (`Scheduler.cpp:2590`), and may have a box removed from the grid that is not in it. Not only a search that comes to its limit does: a search leaves boxes in
  the grid, and the next one may find them there and make one a candidate twice. The attempt to prove `GridSound` without that exception showed it, with
  boxes 1, 2 and 9, which are a grid of the run. Apart from that the array of bits is one bit too short (`BitShit.cpp:7`) where the largest id begins a byte, so that a box stays marked as
  untested into the next search; the grid of boxes 7 and 8 is there for it. Charges are lost when two relation boxes get the same row: `LedgerBalanced` holds up to those, which `raced` records.

## 4. What is proved

All for arbitrary constants, from the named assumptions only (`CatalogAssumption`, `ThreadAssumption`, `StopAssumption`,
`QEAssumption`, `SchedulerAssumption`, `StreamAssumption`; TLC evaluates each of them
in every run of `MCRuntime`): any finite network, any number of workers, any policy, any train fraction up to the whole queue, any stop.
Four theorems have a hypothesis on the constants, and the third column says what happens without it.

| Theorem (`RuntimeTheorems`, the last in `StreamTheorems`) | Statement | Hypothesis |
|---|---|---|
| `Inductive` | `Spec => []IInv` | |
| `TypeCorrect` | `Spec => []TypeOK` | |
| `ExclusionCorrect` | `Spec => []BoxExclusion` | |
| `CountsCorrect` | `Spec => []CountsConsistent` | |
| `PinsCorrect` | `Spec => []PinsAvailable` | |
| `AnnouncedCorrect` | `Spec => []AnnouncedAvailable` | |
| `NoEmptyRunCorrect` | `Spec => []NoEmptyRun` | the policy is not random; otherwise false, `empty_run` |
| `WorkSetCorrect` | `Spec => []WorkSetComplete` | one input per box; otherwise false, `lost_work` |
| `ShutdownCorrect` | `Spec => []ShutdownClean` | no arc leads straight from a stream to an application; what the stream thread stores there nobody announces |
| `StreamsImplemented` | `Spec => ImplementsStreams` | `SinglePath`: a tuple has one way to any arc; where two ways meet again the box there gets it twice, and so does the application |

From `CatalogAssumption`, `ApplicationsAssumption`, `AppSchedulerAssumption` and `NoQEAssumption`, the third theorem from `TreesAssumption` too (TLC evaluates
them in `superboxes`), for any network, any trees however they overlap, any orders, ways to choose, stops and number of workers:

| Theorem (`SuperboxTheorems`) | Statement | Hypothesis |
|---|---|---|
| `SuperboxesExclusive` | `Spec => []SuperboxExclusion`: a superbox per application, one holder per locked box, and only shared boxes are ever unlocked by another superbox | |
| `NothingStrays` | `Spec => [](strayed = {})`, so that the exclusion has no exception | no two applications share a box; otherwise false, also in `superboxes` |
| `InnerArcsStayEmpty` | `Spec => []InnerArcsEmpty`: no tuple and no count is ever on an arc of the tree of an application that shares no box | |

From `PoolAssumption`, for any number of threads, runnables and limits:

| Theorem (`PoolTheorems`) | Statement |
|---|---|
| `PoolInductive` | `Spec => []IInv`, the types with the two properties below |
| `PoolCounts` | `Spec => []CountsAgree` |
| `PoolClosedMeansDone` | `Spec => []ClosedMeansDone` |
| `PoolRefinement` | `Spec => ImplementsPool` |

From `NoCallerAssumption`, `TopNAssumption` and `RelationsAssumption`, for any number of threads, any keys and values, every `N` from 0 on, and
any relation boxes with tuples that have a toll where a toll is read, and cars, times and places that are numbers, no segment negative
(`x / 5280` rounds the way the model does only then):

| Theorem (`PrimitiveTheorems`) | Statement |
|---|---|
| `FairMutexGrants` | the fair mutex has at most one holder, the front of its list |
| `CriticalSectionExcludes` | one thread at most in the critical section, each waiter queued once |
| `TopNKeepsRanking` | every call leaves the top full and ranked above the bottom, but for an overwritten entry; for N = 0 until an insert lists an entry twice |
| `ChargesKept` | `RelSpec => []LedgerBalanced`: a balance is what was charged, or two boxes raced for its row |
| `RowsRead` | `RelSpec => TablesRead`: every car a walk should mark is marked, in one field or another; a toll is of the place and of the last minute |

And from `FDLimitsAssumption` (the limits are those the constructor does not refuse, and its minimum can be opened) and
`MultiPoolAssumption`, for any users, numbers, limits and files:

| Theorem (`PrimitiveTheorems`) | Statement |
|---|---|
| `NoReleaseLost` | `FileDescSpec => []SleepersWoken` |
| `LimitHolds` | `FileDescSpec => LimitKept` |
| `BudgetKept` | `FdMultiSpec => []MultiPoolBudget` |

From `GridAssumption` (the graph of an application has points at ascending latencies, a box has applications, and some box costs less than one of its
graphs lasts, without which no latency has a bucket), for any graphs, costs and boxes, any number of buckets and any latencies:

| Theorem (`GridTheorems`) | Statement |
|---|---|
| `GridCorrect` | `GridSpec => []GridSound`: no box is lost or in the grid twice, what waits in the grid may be run, and aborts and kept locks have the causes named there |
| `CellsCover` | `GridSpec => []CellCovers`: no box is taken for less urgent than its graph makes it |
| `UrgentFirstHolds` | `GridSpec => UrgentFirst`: `findEligibleBox_Bucketing1` takes the most urgent boxes |

From `OperatorAssumption` and `CasesAssumption`, for any streams, cut into trains in any way, any slacks, window and predicate:

| Theorem (`OperatorTheorems`) | Statement |
|---|---|
| `BSortSorts` | `OpSpec => []BSortSorted`: what a buffer sort emits of a group within the slack is sorted, and none of it too late |
| `JoinsExactly` | `OpSpec => []JoinExact`: a join emits only pairs it should, each once, and all of them on streams in order, up to tuples whose cell moved |

**The argument.** None of the four safety invariants is inductive alone. A count can be trusted outside an arc's mutex only
if we know what is outstanding inside it (`ArcSections`); a removal of `n` tuples keeps the count right and non-negative only if `n` tuples are there
(`PinsAvailable`); they are there only if nobody else removes from that arc, which follows from one element per box (`BoxExclusion`) and from
elements that pin inputs of their own box (`PinsOwned`); and exclusion follows from the locks being exactly the boxes of the
elements under way, wherever they are, which needs to know in which phase of its
loop a thread has an element at all (`WorkerPhases`, `SchedulerPhases`). `IInv` is the conjunction, with six
further parts for the other theorems; TLC checks it as an invariant of `split`, where these parts have something to say, and of `drain`. A network with a box that merges, and the
random policy, are not among the passing runs: there TLC finds the violations `lost_work` and `empty_run`, and for `IInv` the theorem `Inductive` speaks of every network and policy.

* *Announcements.* An application's arc belongs to one box, so to one worker at a time (exclusion again): it holds what was announced and,
  while that worker is between storing and announcing, its results (`AppLedger`, by `Stored`). Nobody removes from it.
* *Shutdown.* `start` returns when it has joined all workers (`JoinedEnded`); a worker that ends has nothing in its buffers
  (`BuffersEmpty`), is inside no arc and has stored nothing it did not announce. That the tuples counted as written are
  those announced is a sum over all application arcs: from the count (before any arc is stored to) to the announcement a worker owes its
  results once per application arc of its box (`Owed`), and `WrittenLedger` says that counted is announced plus owed. A worker that ended owes nothing.
* *Input.* From the look at its counts to its turn in `loadSingleBox` a candidate stays free, and the counts of a
  free box only grow (`CountStays`, `FreeFed`), for only the worker that has a box takes from its inputs. So the first pin that is not 0 is there when the scheduler gets to
  it (`LoadedFed`, as `Train` takes at least one tuple of a count above 0). This needs candidates without repetition, which
  `Orders` gives for all policies but the random one.
* *Work set.* A box with one input is taken out only by the worker that holds that arc and found it empty, and whoever stores
  inserts the box before it counts, under the same mutex (`WorkKnown`). With a second input the reader of its count does not hold its mutex.

* *Streams.* `StreamsImplemented` needs an invariant of its own, on top of `IInv`. The tuples of a source are numbered, so what a list has of a
  source is a run of numbers (`Runs`). `StreamLedger` says that there are numbers for which, arc by arc, the queue has the run from
  what has gone from the arc to what has come to it, and worker by worker, the buffers have a run; that the outputs of a box at rest have got what
  has gone from its inputs; and that a worker at work makes up the difference: an input has lost the run once
  it is removed, an output has got it once it is stored. Loading extends a worker's run by the front of a queue, and removal must take just this front: that
  is `PinsAvailable` and exclusion, and that stores only append. The numbers are quantified, not variables of the model, and each step of a
  thread that moves tuples gives witnesses for the next state (`LoadLedger`, `RemoveLedger`, `WriteLedger`, ...). Before it was proved
  the invariant was checked with TLC on the network of `split` and on one with a box that merges, with the numbers as history variables beside the model.
  `SinglePath` is what keeps the runs of the inputs of a box apart: each arc can be given the set of sources it carries so that no two
  inputs of a box share one. Both networks satisfy it, and so does every tree. Then generating is `Send`, storing on an
  application's arc is `Receive`, and all other steps stutter.

* The first part of `RuntimeTheorems`: lemmas about sequences (append, suffix, head and tail), functions with one changed
  value, the arithmetic of `Train` (`0 <= Train(n) <= n`, and above 0 with `n`) and `StopSeen`, the orders of candidates without repetition; then every step keeps the types.
  Its second part is exclusion: an element enters at the lock, moves from scheduler to queue to worker, and leaves
  at the unlock; all other steps leave elements and locks alone (`ElementSteps`), so exclusion has four cases to prove.
  Its last part is the counts: for each of the four arc operations, who is in the arc and what the count
  and the queue become; then counts, non-negativity and pins, what a free box keeps, and the work set.
* The rest of `RuntimeTheorems`: the phases of each thread, the two ledgers, the buffers, the joined workers and the elements' input, and the parts put together.
* `SumTheorems`: `SumFunction` is a fold, which the provers see as a `CHOOSE` of a recursive function. That there is one is
  proved by induction on the size of a set, with the induction stated on a set of numbers instead of an operator (`NatSetInduction`, from
  `NatLessThanWellFounded`); then what one changed value or a sum of two functions does to a sum.

For the superboxes the property is close to inductive once it says who holds what: a box is locked exactly when the superbox of one
application holds it, be it in the scheduler's hands, queued, or with a worker that has unlocked part of its list (`Holds`). What has to be
added (`HoldingInv`) is what is in these places (`Structure`): an element's boxes are in its application's tree; once the
list is made its entries are exactly the boxes that were locked (`KeptOf` keeps what is in the set and the order comes by the whole tree); a worker's place
in the list is within it. And that each caller on the stack of `traverse_LoadQueue` still holds its box, no two callers the same
(`FramesHeld`), or else `GiveBack` could unlock another's. Then `VisitBox` gives a free box a holder, `GiveBack` and the end of the list
take one from its holder, and the unlocking of an entry finds the box with this worker, free, or with another application. The last means that the
box is in both trees, and it is recorded. The actions are first reduced to a dozen kinds of steps (`NextKinds`) to prove each part for. All parts
were checked with TLC first, on the network of the run.

That the arcs inside a tree stay empty (`QuietInv`, on top of `HoldingInv`) goes from the traversal to the buffers. While `traverse_LoadQueue` runs,
each box that was locked was visited from the one above it, by the input the caller has on its tree arc, and callers only move on to
later inputs (`Walk`); so no box is met twice, and where the application shares no box, none is met locked. Hence an arc of the tree is never
pinned for reading only, and never for writing only, as a box pins the arc it leaves by for both (`Pinned`); `dequeueEnqueuePin` finds no tuple on it, nothing is
resident, and no count moves. A box that runs fills the buffer of its arc, but the list comes by the box above later (`Upwards`: `KeptOf` keeps the order of the
traversal, and a box was locked only below a locked one), and that run empties it (`Residue`). So nothing is resident when the list ends,
and `dequeueEnqueueUnpin` puts nothing back. It does not matter how often the list repeats a box. `QuietInv` was checked with TLC on the network of the run, on a
diamond and on a triangle of boxes; the two last showed the second arcs.

For the pool, a thread that finds itself the last one registered may close the results because the count
is the number of threads at locations where they can hold a runnable (`CountsAgree`); and that a thread never reports
to a closed queue (`ClosedMeansDone`) is what lets `Report` be `Finish` of the abstract pool. `CountsMove` does the
cardinalities once for all actions.

The fair mutex needs that the list has nobody twice and, until it is cancelled, exactly those who wait or hold; the critical
section that the list is of those who wait (or failed the assertion), each once. The map is full at the top by counting
(at most `N` there, and `N` if the bottom has an entry); a call keeps the ranking because the entry
it moves is the lowest of the top or the highest of the bottom. For N = 0 the top stays empty, unless an entry gets there by what was read of it.

`FileDescPool` signals once per release or opened descriptor, and a woken user may find the descriptor gone. That this loses nothing rests
on one inequality: while somebody sleeps, the free descriptors are at most as many as the users that are awake on their
way back into the wait loop. A release adds a descriptor and wakes a sleeper; a lease takes one descriptor and
one user off both sides. `FdMultiPool` evicts before it opens; the total is a sum over the files, and each step
moves it by what `SumTheorems` says of one changed file.

The relation boxes get a row, compute, and put it back without a transaction. `RelInv` says of each
box between its get and its put that what it holds is still the balance in the table, or that the
key is among the raced ones (`HandCurrent`); a put to that key by any other box records the race first. With it a put writes
exactly the old balance less the charge.

What the boxes read of rows that others write meanwhile (`TablesRead`) rests on `WalkInv`: every car that has stood on the last segments since the walk for
an accident began is on one the walk is yet to come to, or behind it in the order of cars, or it is marked; and the row in
the hand of the walk is the row in the table, unless its car is no longer one of those. Only the put of an account or of another mark can
change a row, and it takes its car out of what every other walk expects. The walk ends past the highest segment (`SegmentsAre`), so that nobody is left. For
a toll no invariant of the walk is needed, but that keys are ordered: the first key from a minute ago on is of the place, if any of the place is there, because
places are ordered totally (`PlacesOrdered`). TLC checked `WalkInv` on the relation boxes of the run first.

For the grid two things are proved. `CellsCover` is about its tables, which no step changes, so that it is a fact about how they are computed: the
average of the graphs of the applications is a graph of fractions at ascending latencies (`LoadedGraph`); no step of one is steeper or longer than
the extremes (`ExtremesProperties`); so each bucket that a graph reaches has a cell of the grid (`LoadedCell`), and a latency
is in the bucket whose highest slope and slack its own are among (`BetweenInBucket`). Rounding is where this could fail: a
slope is rounded down, to less than one unit below it (`SlopeBucket`, by multiplying out), and the property says no more. The fold over applications is a recursive
function; that it exists is proved once (`TotalExists`), and lists in ascending order and parts of lists are defined by counting, so that
nothing else needs an induction.

The searches rest on `GridInv`. A box is on the list of its cell alone, once (`InPlace`), which `MoveTo` and `RemoveFromGrid` keep, and the
concatenation of all lists, which is what `Choose` goes through, has each placed box once and in the order of the cells (`GridInOrder`); its first boxes are
therefore the most urgent ones and can all be removed. In mode "box" placed boxes and candidates are never locked (`MayRun`), as only
candidates get a lock, and each candidate is there once. In mode "app" that is not so and the argument is about a walk that is still tidy (`TidyWalk`):
the urgency list comes to each cell once (`EnteredOnce`), so the boxes pushed on entering a cell are no candidates yet; the last of them is looked at
again but is not untested any more; and a box that is loaded was nowhere before. Thus the candidates differ and are all in the grid when `EndWalk` removes them. A walk stops
being tidy at its limit or with what it found in the grid, the two exceptions of `GridSound`. TLC checked `GridInv` on the grids of the run first.

The buffer sort rests on `Sorting`: each tuple that came is out or in the buffer of its group, buffers are sorted and never hold more than the
slack, and once a tuple of a group has left its buffer holds exactly the slack. Were a tuple to come before one that has left,
it would come after that one and all of the buffer, which are slack + 1 greater ones (`NoneTooLate` counts them), and the group would not be in order up to the
slack. `DoBSort` goes over a train with a recursive function; `BSortStepsExist` shows that there is one, and `TrainSorts` is the induction over the train.

The join rests on `JoinHolds`, which is the same for both sides (`JoinSwaps`), so that one lemma serves both loops of `doBox`. Its parts: the
cell of a tuple only rises, and never above what came on its side (`Buffered`: the threshold stops at a value of the vector, `ThresholdAdvances`); the emitted pairs are
distinct and right; and when both sides came in order, every tuple is in its buffer or the other side is past its window (`Awaits`), and every
pair that is due was emitted. A tuple is left out of its buffer, or erased from it, when the threshold of the other side is more than
a window above it; a tuple of the other side that is as high came already, and those that come are not lower. So no partner is missed. Out of order, the first half
still holds, and the invariant says so by having `Rising` as a hypothesis of its last part. The cells of the other buffer are read when a tuple comes, and may
have moved: that is the exception of `JoinExact`, and it stays true as cells only rise (`PairsAfter`). Load shedding takes tuples out of trains
(`UnshedEntries`); what is left is what `JoinExact` speaks of.

**Only model-checked.** Of the runtime, the two liveness properties.
Of the rest, three properties of superboxes (why they abort, the memory of buffers, their refinement of `ReliableStreams`), and of operators `PassedOnce`, `ResampleWindows`, `AggregateWindows`, and `TextMeans` and `AggregatesExact` of the predparser.
`Drained`, `ShutdownCompletes`, `EveryRunnableReturns`, `QuiesceCloses`
and `GrantedUnlessCancelled` are liveness under fairness, which is out of the prover's reach, and so is `ENABLED`.
What the recursive definitions of `Predparser` and `Phrases` compute is induction over data: these modules declare `RECURSIVE`
operators, and no module that is proved about, or used by one, reaches them. So does `ApplicationTrees`: that the trees and orders it builds
satisfy `ApplicationsAssumption` and `TreesAssumption` is checked by TLC for the network of `superboxes`. (Sums, `KeptOf`, the concatenation of lists, the average of graphs and the loops over trains are the recursions that are proved about.)

## 5. What is not modelled, and why

* *Scheduling.* The top-K spanning trees (`Scheduler.cpp:1367-1641`): no configuration sets `_top_k_spanner_flag`.
  Trees in which two ways lead to a box beyond the one a NULL front comes from. Thread-per-box mode: another loop around the same storage manager. Statistics. In
  `RuntimeProperties` the policies are the four that look at counts; bucketing is modelled with its locks in `PriorityGrid`, apart from the
  workers' loop, which appears there as arrivals, runs and releases.
* *Stop conditions.* `TUPLES_GENERATED_STOP` (the `-s` option of `main.cpp:182-193` rejects it) and `TUPLES_WRITTEN` (its counter is never initialised).
* *Runtime data.* Windows larger than 1, boxes that keep part of their input on the arc, timestamps, page pool. The throttle and the pace of the stream thread: any arrival order is
  allowed instead; `main` never sets the throttle to `DONE`, and an integer field of a
  generated tuple gets the bits of a float (`StreamThread.cpp:469-565`), which is data. Writing `_fixed_train_size` as a percentage
  rounds down exactly; a `double` may come out one lower at a whole product, never higher than the queue.
* *Reads outside of a lock* of `_execution_queue->size()`, `__box_work_set.size()` and `_candidates_v.size()` are
  reads of one word here. They are data races; a torn or reordered read of a container is not modelled.
* *Operators that are not built.* Tumble, Slide, XSection, WSort and Select are commented out of `Scheduler::loadBox`; WMap is not in it. Of those
  modelled: order-by fields are integers, not floats or strings; hash tables are visited in ascending order;
  `AggregateQBox` times out windows by values only for timeouts below 10000. `BufferList::isEmpty` has no `return` statement; the model
  takes the value that is meant.
* *Predparser.* The scanner (characters to tokens), `parseExpr`, `FidelityAlarm` (shared memory), and classes nothing
  constructs (`AverageAF`, `MinAF`, `MaxAF`, `SumAF`, `Fidelity2AF`, the orders of strings, `TsConstant`).
* *Thread pool.* A pool that is never given a runnable and whose threads all start after `quiesce` never closes its results (each thread
  returns at its first test); `QuiesceCloses` is stated for a pool that was given one. `dequeueNonBlocking`, `size` and the optional
  semaphores of the queue: nothing but the queue's test uses them.
* *Primitives.* `SortedIndex` and `OneToOneMap` are included by nothing and the former does not compile; `RoomSynchronizer` is an unfinished sketch;
  the semaphores are a counter each. `FdMultiPool::operator[]` registers unknown names with flags it does not initialise: left out. `printDebugInfo`.
* *Relations.* Failures and exceptions of the data base, cursors that are not closed, the accident search that is commented out, the rows a train of `ReadRelation` misplaces after its first.
* *Network and display.* `NetThread` is one more producer per arc, with the same `enqueueUnpin` and broadcast as the stream thread, and without
  end. The only include of `InputReceiver.h` is commented out. `QueueMon`, `SysMon` and `QoSMonitor` show and count what the runtime does;
  only the pause button of `QueueMon` reaches back. Logging, properties, XML and strings have no behaviour of their own.

## 6. The plan

Done: all five parts, their runs, and the proofs of section 4. What would come next, in this order:

1. **Superboxes**: `AbortsExplained` as a theorem on top of `QuietInv`; `BuffersSuffice` too, for trees where no box has a second arc and as
   long as `strayed` is empty, from an invariant that adds up, box by box, what the open pins may still write; and
   the induction on trees that `ApplicationsAssumption` and `TreesAssumption` stand for.
2. **Several producers**: `NetThread` beside the stream thread, and the pause button of `QueueMon`.
3. **Thread-per-box mode** over the same `SMInterface`, with the signals `TPBSignal` and `TPBWaitForSignal` of the catalog.
