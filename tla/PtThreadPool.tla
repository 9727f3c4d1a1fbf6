---------------------------- MODULE PtThreadPool ----------------------------
(***************************************************************************)
(* A pool of server threads and the client that owns it.  The client       *)
(* schedules runnables, closes the pool, takes the executed runnables back *)
(* until their queue is closed, and destroys the pool, as                  *)
(* testPtThreadPool.c does.  Server threads are created by the constructor *)
(* and by schedule; each registers, serves the queue of scheduled          *)
(* runnables until that is closed and empty, and the last one registered   *)
(* closes the queue of executed runnables.                                 *)
(*                                                                         *)
(* Steps are the critical sections of _mtx and of the two queues.  All     *)
(* holders of _mtx but the destructor let it go within one step: nobody    *)
(* else can close the queue that schedule found open, and a closed queue   *)
(* that Retire found empty stays empty.  Threads, the threads the machine  *)
(* can run, bounds pthread_create; a runnable is scheduled once.           *)
(***************************************************************************)
EXTENDS Integers, Sequences, FiniteSets

CONSTANTS
  Threads, Client,
  Runnables, NoRunnable,
  MinThreads, MaxThreads

ASSUME PoolAssumption ==
  /\ IsFiniteSet(Threads)
  /\ Client \notin Threads
  /\ NoRunnable \notin Runnables
  /\ MinThreads \in Nat
  /\ MaxThreads \in Nat
  /\ MinThreads <= MaxThreads
  /\ MinThreads <= Cardinality(Threads)

VARIABLES
  scheduled, scheduledClosed, scheduledWaiters,   \* _scheduledRunnables
  executed, executedClosed, executedWaiters,      \* _executedRunnables
  numCurrentThreads,
  numPendingRunnables,
  quiescing,      \* _allThreadsQuiescing
  tpc,            \* where each server thread is
  running,        \* the runnable each server thread executes
  clientPc,       \* where the client is
  submitted,      \* the runnables the client has scheduled
  returned        \* and those it has taken back

Scheduled == INSTANCE ClosableFifoQueue WITH
  dataqueue <- scheduled, closed <- scheduledClosed, waiters <- scheduledWaiters

Executed == INSTANCE ClosableFifoQueue WITH
  dataqueue <- executed, closed <- executedClosed, waiters <- executedWaiters

countVars == <<numCurrentThreads, numPendingRunnables>>
clientVars == <<clientPc, submitted, returned>>
poolVars == <<scheduled, scheduledClosed, scheduledWaiters,
              executed, executedClosed, executedWaiters,
              countVars, quiescing, tpc, running, clientVars>>

ThreadLocations ==
  {"none", "created", "sawClosed", "register", "dequeue", "running",
   "account", "retire", "exited", "aborted"}

ClientLocations == {"constructing", "open", "destroying", "joining", "gone"}

PoolInit ==
  /\ Scheduled!QueueInit
  /\ Executed!QueueInit
  /\ numCurrentThreads = 0
  /\ numPendingRunnables = 0
  /\ quiescing = FALSE
  /\ tpc = [t \in Threads |-> "none"]
  /\ running = [t \in Threads |-> NoRunnable]
  /\ clientPc = "constructing"
  /\ submitted = {}
  /\ returned = {}

\* The destructor keeps _mtx while it joins the threads.
MtxFree == clientPc # "joining"

Created == {t \in Threads : tpc[t] # "none"}

-----------------------------------------------------------------------------
(* The client                                                              *)

\* createServerThread: pthread_create fails if the machine has no thread left.
CreateServerThread ==
  IF \E t \in Threads : tpc[t] = "none"
  THEN \E t \in Threads : tpc[t] = "none" /\ tpc' = [tpc EXCEPT ![t] = "created"]
  ELSE UNCHANGED tpc

\* One round of the constructor's loop, or its end.
Construct ==
  /\ clientPc = "constructing"
  /\ IF Cardinality(Created) < MinThreads
     THEN CreateServerThread /\ UNCHANGED clientPc
     ELSE clientPc' = "open" /\ UNCHANGED tpc
  /\ UNCHANGED <<scheduled, scheduledClosed, scheduledWaiters, executed, executedClosed,
                 executedWaiters, countVars, quiescing, running, submitted, returned>>

\* As schedule would be if it booked a runnable only along with a new thread.
ScheduleUnbooked(r) ==
  /\ clientPc = "open"
  /\ r \notin submitted
  /\ Scheduled!Enqueue(r)
  /\ \/ /\ numCurrentThreads <= numPendingRunnables
        /\ numCurrentThreads < MaxThreads
        /\ numPendingRunnables' = numPendingRunnables + 1
        /\ CreateServerThread
     \/ /\ ~(numCurrentThreads <= numPendingRunnables /\ numCurrentThreads < MaxThreads)
        /\ UNCHANGED <<numPendingRunnables, tpc>>
  /\ submitted' = submitted \union {r}
  /\ UNCHANGED <<executed, executedClosed, executedWaiters, numCurrentThreads, quiescing,
                 running, clientPc, returned>>

Schedule(r) ==
  /\ clientPc = "open"
  /\ r \notin submitted
  /\ Scheduled!Enqueue(r)
  /\ numPendingRunnables' = numPendingRunnables + 1
  /\ IF numCurrentThreads < numPendingRunnables' /\ numCurrentThreads < MaxThreads
     THEN CreateServerThread
     ELSE UNCHANGED tpc
  /\ submitted' = submitted \union {r}
  /\ UNCHANGED <<executed, executedClosed, executedWaiters, numCurrentThreads, quiescing,
                 running, clientPc, returned>>

Quiesce ==
  /\ clientPc = "open"
  /\ ~scheduledClosed
  /\ Scheduled!Close
  /\ UNCHANGED <<executed, executedClosed, executedWaiters, countVars, quiescing,
                 tpc, running, clientVars>>

(***************************************************************************)
(* The client's dequeueBlocking on the executed runnables: it asks when it *)
(* expects something, a runnable or the end.  After the end it destroys    *)
(* the pool.                                                               *)
(***************************************************************************)
Collect ==
  /\ clientPc = "open"
  /\ scheduledClosed \/ returned # submitted
  /\ \/ /\ Executed!Dequeue(Client)
        /\ returned' = returned \union {Head(executed)}
        /\ UNCHANGED clientPc
     \/ /\ Executed!FindClosed(Client)
        /\ clientPc' = "destroying"
        /\ UNCHANGED returned
     \/ /\ Executed!Await(Client)
        /\ UNCHANGED <<clientPc, returned>>
  /\ UNCHANGED <<scheduled, scheduledClosed, scheduledWaiters, countVars, quiescing,
                 tpc, running, submitted>>

\* ~PtThreadPool up to the lock: awaitPostThenClear, then _mtx.
AwaitQuiescing ==
  /\ clientPc = "destroying"
  /\ quiescing
  /\ quiescing' = FALSE
  /\ clientPc' = "joining"
  /\ UNCHANGED <<scheduled, scheduledClosed, scheduledWaiters, executed, executedClosed,
                 executedWaiters, countVars, tpc, running, submitted, returned>>

\* The rest of it: pthread_join on every thread ever created.
JoinThreads ==
  /\ clientPc = "joining"
  /\ \A t \in Created : tpc[t] = "exited"
  /\ clientPc' = "gone"
  /\ UNCHANGED <<scheduled, scheduledClosed, scheduledWaiters, executed, executedClosed,
                 executedWaiters, countVars, quiescing, tpc, running, submitted, returned>>

-----------------------------------------------------------------------------
(* A server thread: serverThreadMethod                                     *)

GoTo(t, loc) == tpc' = [tpc EXCEPT ![t] = loc]

\* The first test, made without _mtx, is two calls: isClosed, then isEmpty.
TestClosed(t) ==
  /\ tpc[t] = "created"
  /\ GoTo(t, IF scheduledClosed THEN "sawClosed" ELSE "register")
  /\ UNCHANGED <<scheduled, scheduledClosed, scheduledWaiters, executed, executedClosed,
                 executedWaiters, countVars, quiescing, running, clientVars>>

TestEmpty(t) ==
  /\ tpc[t] = "sawClosed"
  /\ GoTo(t, IF scheduled = <<>> THEN "exited" ELSE "register")
  /\ UNCHANGED <<scheduled, scheduledClosed, scheduledWaiters, executed, executedClosed,
                 executedWaiters, countVars, quiescing, running, clientVars>>

Register(t) ==
  /\ tpc[t] = "register"
  /\ MtxFree
  /\ numCurrentThreads' = numCurrentThreads + 1
  /\ GoTo(t, "dequeue")
  /\ UNCHANGED <<scheduled, scheduledClosed, scheduledWaiters, executed, executedClosed,
                 executedWaiters, numPendingRunnables, quiescing, running, clientVars>>

DequeueScheduled(t) ==
  /\ tpc[t] = "dequeue"
  /\ \/ /\ Scheduled!Dequeue(t)
        /\ running' = [running EXCEPT ![t] = Head(scheduled)]
        /\ GoTo(t, "running")
     \/ /\ Scheduled!FindClosed(t)
        /\ GoTo(t, "retire")
        /\ UNCHANGED running
     \/ /\ Scheduled!Await(t)
        /\ UNCHANGED <<tpc, running>>
  /\ UNCHANGED <<executed, executedClosed, executedWaiters, countVars, quiescing,
                 clientVars>>

(***************************************************************************)
(* run() has returned; the runnable goes to the executed ones.  Were their *)
(* queue closed, the exception would reach the outer handler, and abort(). *)
(***************************************************************************)
Report(t) ==
  /\ tpc[t] = "running"
  /\ running' = [running EXCEPT ![t] = NoRunnable]
  /\ IF executedClosed
     THEN GoTo(t, "aborted") /\ UNCHANGED <<executed, executedClosed, executedWaiters>>
     ELSE GoTo(t, "account") /\ Executed!Enqueue(running[t])
  /\ UNCHANGED <<scheduled, scheduledClosed, scheduledWaiters, countVars, quiescing,
                 clientVars>>

Account(t) ==
  /\ tpc[t] = "account"
  /\ MtxFree
  /\ numPendingRunnables' = numPendingRunnables - 1
  /\ GoTo(t, "dequeue")
  /\ UNCHANGED <<scheduled, scheduledClosed, scheduledWaiters, executed, executedClosed,
                 executedWaiters, numCurrentThreads, quiescing, running, clientVars>>

\* As it would be if a retiring thread did not look whether others are left.
RetireAsLast(t) ==
  /\ tpc[t] = "retire"
  /\ MtxFree
  /\ numCurrentThreads' = numCurrentThreads - 1
  /\ Executed!Close
  /\ quiescing' = TRUE
  /\ GoTo(t, "exited")
  /\ UNCHANGED <<scheduled, scheduledClosed, scheduledWaiters, numPendingRunnables,
                 running, clientVars>>

Retire(t) ==
  /\ tpc[t] = "retire"
  /\ MtxFree
  /\ numCurrentThreads' = numCurrentThreads - 1
  /\ IF numCurrentThreads' = 0 /\ Scheduled!ClosedAndEmpty
     THEN Executed!Close /\ quiescing' = TRUE
     ELSE UNCHANGED <<executed, executedClosed, executedWaiters, quiescing>>
  /\ GoTo(t, "exited")
  /\ UNCHANGED <<scheduled, scheduledClosed, scheduledWaiters, numPendingRunnables,
                 running, clientVars>>

ServerStep(t) ==
  \/ TestClosed(t) \/ TestEmpty(t) \/ Register(t)
  \/ DequeueScheduled(t) \/ Report(t) \/ Account(t) \/ Retire(t)

\* A wait ends for no reason, of a server thread or of the client.
WakeWithoutReason ==
  \/ /\ \E t \in Threads : Scheduled!WakeSpuriously(t)
     /\ UNCHANGED <<executed, executedClosed, executedWaiters, countVars, quiescing,
                    tpc, running, clientVars>>
  \/ /\ Executed!WakeSpuriously(Client)
     /\ UNCHANGED <<scheduled, scheduledClosed, scheduledWaiters, countVars, quiescing,
                    tpc, running, clientVars>>

ClientStep ==
  \/ Construct
  \/ \E r \in Runnables : Schedule(r)
  \/ Quiesce \/ Collect \/ AwaitQuiescing \/ JoinThreads

PoolNext ==
  \/ ClientStep
  \/ \E t \in Threads : ServerStep(t)
  \/ WakeWithoutReason

PoolSpec == PoolInit /\ [][PoolNext]_poolVars

-----------------------------------------------------------------------------
(* Properties                                                              *)

Registered == {t \in Threads : tpc[t] \in {"dequeue", "running", "account", "retire"}}
Unaccounted == {t \in Threads : tpc[t] \in {"running", "account"}}

(***************************************************************************)
(* The types, among them that the two counts are never negative, and that  *)
(* a thread has a runnable exactly while it runs it.                       *)
(***************************************************************************)
PoolTyping ==
  /\ scheduled \in Seq(Runnables)
  /\ scheduledClosed \in BOOLEAN
  /\ scheduledWaiters \subseteq Threads
  /\ executed \in Seq(Runnables)
  /\ executedClosed \in BOOLEAN
  /\ executedWaiters \subseteq {Client}
  /\ numCurrentThreads \in Nat
  /\ numPendingRunnables \in Nat
  /\ quiescing \in BOOLEAN
  /\ tpc \in [Threads -> ThreadLocations]
  /\ running \in [Threads -> Runnables \union {NoRunnable}]
  /\ \A t \in Threads : running[t] # NoRunnable <=> tpc[t] = "running"
  /\ clientPc \in ClientLocations
  /\ submitted \subseteq Runnables
  /\ returned \subseteq Runnables

(***************************************************************************)
(* The counts schedule and the retiring threads decide on: threads between *)
(* their two sections of _mtx, and runnables from schedule to the section  *)
(* that takes them off, wherever they are, queue or thread.                *)
(***************************************************************************)
CountsAgree ==
  /\ numCurrentThreads = Cardinality(Registered)
  /\ numPendingRunnables = Len(scheduled) + Cardinality(Unaccounted)

(***************************************************************************)
(* The comment on the constructor: when the executed runnables are closed, *)
(* the pool has fully quiesced: nothing is scheduled and nothing runs.  So *)
(* no thread ever reports to the closed queue, which would abort().        *)
(***************************************************************************)
ClosedMeansDone ==
  /\ executedClosed =>
       /\ scheduledClosed
       /\ scheduled = <<>>
       /\ \A t \in Threads : tpc[t] \notin {"running", "account"}
  /\ \A t \in Threads : tpc[t] # "aborted"

PoolInv == PoolTyping /\ CountsAgree /\ ClosedMeansDone

(***************************************************************************)
(* The pool is a RunnablePool: first come, first served, each runnable to  *)
(* one thread and back, and closed when all is done.                       *)
(***************************************************************************)
Pool == INSTANCE RunnablePool WITH
  waiting <- scheduled, working <- running, done <- executed,
  accepting <- ~scheduledClosed, settled <- executedClosed

ImplementsPool == Pool!Spec

(***************************************************************************)
(* A runnable scheduled comes back executed, whenever the pool is quiesced *)
(* and however few threads the machine gives it.  (A pool of no threads,   *)
(* MaxThreads = 0, is accepted by the constructor; it executes nothing.)   *)
(***************************************************************************)
EveryRunnableReturns == \A r \in Runnables : r \in submitted ~> r \in returned

(***************************************************************************)
(* The comment on _allThreadsQuiescing (PtThreadPool.H:68-69): posted once *)
(* no thread is going to make any more attempts to acquire _mtx.           *)
(***************************************************************************)
QuietAfterPost ==
  quiescing => \A t \in Threads : tpc[t] \notin {"register", "dequeue", "account", "retire"}

(***************************************************************************)
(* The comment on quiesce (PtThreadPool.H:37-40): the next time that the   *)
(* number of runnables scheduled goes down to zero, the pool closes the    *)
(* queue of executed runnables.  That takes a runnable: a pool that was    *)
(* never given one stays open if its threads all start after quiesce, for  *)
(* then each of them exits at its first test.                              *)
(***************************************************************************)
QuiesceCloses == (scheduledClosed /\ submitted # {}) ~> executedClosed

(***************************************************************************)
(* The comment on the constructor (PtThreadPool.H:16-17): the pool will    *)
(* launch up to a total of maxThreads threads.                             *)
(***************************************************************************)
ThreadLimit == Cardinality(Created) <= MaxThreads
=============================================================================
