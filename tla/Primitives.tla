----------------------------- MODULE Primitives -----------------------------
(***************************************************************************)
(* The other objects that threads share: those of util, thread pool among  *)
(* them, the grid of the scheduler and the tables of the relation boxes.   *)
(* They do not use one another, so a behaviour is about one of them, the   *)
(* subject, and the others stay as they were made.                         *)
(***************************************************************************)
EXTENDS PtThreadPool, FairMutexWithCancel, FifoCriticalSection, FileDescPool,
        TopNMultimap, PriorityGrid, Relations

VARIABLE subject

poolRest == <<fairVars, fifoVars, poolFdVars, multiVars, topNVars, gridVars, relVars, subject>>
fairRest == <<poolVars, fifoVars, poolFdVars, multiVars, topNVars, gridVars, relVars, subject>>
fifoRest == <<poolVars, fairVars, poolFdVars, multiVars, topNVars, gridVars, relVars, subject>>
fdRest == <<poolVars, fairVars, fifoVars, multiVars, topNVars, gridVars, relVars, subject>>
multiRest == <<poolVars, fairVars, fifoVars, poolFdVars, topNVars, gridVars, relVars, subject>>
topNRest == <<poolVars, fairVars, fifoVars, poolFdVars, multiVars, gridVars, relVars, subject>>
gridRest == <<poolVars, fairVars, fifoVars, poolFdVars, multiVars, topNVars, relVars, subject>>
relRest == <<poolVars, fairVars, fifoVars, poolFdVars, multiVars, topNVars, gridVars, subject>>

vars == <<poolVars, poolRest>>

Init ==
  /\ subject \in {"thread pool", "fair mutex", "critical section", "file pool", "multi pool", "top N",
                  "grid", "relations"}
  /\ PoolInit /\ FairInit /\ FifoInit /\ FileDescInit /\ FdMultiInit /\ TopNInit /\ GridInit /\ RelInit
  /\ subject # "file pool" => <<minFDs, maxFDs>> = CHOOSE limits \in FDLimits : TRUE
  /\ subject # "top N" => topN = CHOOSE n \in TopSizes : TRUE
  /\ subject # "grid" => gcase = CHOOSE c \in GridCases : TRUE
  /\ subject # "relations" => relBoxes = CHOOSE c \in RelCases : TRUE

Next ==
  \/ subject = "thread pool" /\ PoolNext /\ UNCHANGED poolRest
  \/ subject = "fair mutex" /\ FairMutexNext /\ UNCHANGED fairRest
  \/ subject = "critical section" /\ FifoNext /\ UNCHANGED fifoRest
  \/ subject = "file pool" /\ FileDescNext /\ UNCHANGED fdRest
  \/ subject = "multi pool" /\ FdMultiNext /\ UNCHANGED multiRest
  \/ subject = "top N" /\ TopNNext /\ UNCHANGED topNRest
  \/ subject = "grid" /\ GridNext /\ UNCHANGED gridRest
  \/ subject = "relations" /\ RelNext /\ UNCHANGED relRest

(***************************************************************************)
(* The machine runs every server thread that can run, and the client goes  *)
(* on with a construction, a collection or a destruction it has begun.  It *)
(* may stop scheduling, and need not quiesce the pool.                     *)
(***************************************************************************)
OfPool(step) == subject = "thread pool" /\ step

PoolFairness ==
  /\ \A t \in Threads : WF_poolVars(OfPool(ServerStep(t)))
  /\ WF_poolVars(OfPool(Construct))
  /\ WF_poolVars(OfPool(Collect))
  /\ WF_poolVars(OfPool(AwaitQuiescing))
  /\ WF_poolVars(OfPool(JoinThreads))

\* A caller that can go on does; a holder gives the fair mutex back.
Spec == Init /\ [][Next]_vars /\ FairFairness /\ PoolFairness
=============================================================================
