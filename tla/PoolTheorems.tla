---------------------------- MODULE PoolTheorems ----------------------------
(***************************************************************************)
(* The safety of PtThreadPool for every number of threads, runnables and   *)
(* limits: the counts agree with the threads, a closed queue of executed   *)
(* runnables means that all is done, and the pool is a RunnablePool.       *)
(***************************************************************************)
EXTENDS PtThreadPool, FiniteSetTheorems, TLAPS

At(locs) == {t \in Threads : tpc[t] \in locs}

\* A thread that moves changes the number of threads in a set of locations
\* by one if it enters or leaves the set, and not otherwise.
LEMMA MoveCounts ==
  ASSUME tpc \in [Threads -> ThreadLocations],
         NEW t \in Threads, NEW loc \in ThreadLocations, NEW locs,
         tpc' = [tpc EXCEPT ![t] = loc]
  PROVE  /\ Cardinality(At(locs)) \in Nat
         /\ Cardinality(At(locs)') =
              IF tpc[t] \in locs
              THEN IF loc \in locs THEN Cardinality(At(locs))
                                   ELSE Cardinality(At(locs)) - 1
              ELSE IF loc \in locs THEN Cardinality(At(locs)) + 1
                                   ELSE Cardinality(At(locs))
<1>1. IsFiniteSet(At(locs))
  BY FS_Subset, PoolAssumption DEF At
<1>2. Cardinality(At(locs)) \in Nat
  BY <1>1, FS_CardinalityType
<1>3. \A s \in Threads : tpc'[s] = IF s = t THEN loc ELSE tpc[s]
  OBVIOUS
<1>4. CASE loc \in locs
  <2>1. At(locs)' = At(locs) \union {t}
    BY <1>3, <1>4 DEF At
  <2>q. QED
    BY <1>1, <1>2, <1>4, <2>1, FS_AddElement DEF At
<1>5. CASE loc \notin locs
  <2>1. At(locs)' = At(locs) \ {t}
    BY <1>3, <1>5 DEF At
  <2>q. QED
    BY <1>1, <1>2, <1>5, <2>1, FS_RemoveElement DEF At
<1>q. QED
  BY <1>4, <1>5

RegisteredAt == {"dequeue", "running", "account", "retire"}
UnaccountedAt == {"running", "account"}

\* The two sets the counts stand for are sets of locations.
LEMMA CountedSets ==
  /\ Registered = At(RegisteredAt)
  /\ Unaccounted = At(UnaccountedAt)
  /\ Registered' = At(RegisteredAt)'
  /\ Unaccounted' = At(UnaccountedAt)'
BY DEF Registered, Unaccounted, At, RegisteredAt, UnaccountedAt

\* Creating a thread moves one from "none" to "created", or moves nobody.
LEMMA CreationMoves ==
  ASSUME CreateServerThread
  PROVE  \/ UNCHANGED tpc
         \/ \E t \in Threads : /\ tpc[t] = "none"
                               /\ tpc' = [tpc EXCEPT ![t] = "created"]
BY DEF CreateServerThread

-----------------------------------------------------------------------------
(* Types                                                                   *)

\* A thread that is created had no runnable and gets none.
LEMMA CreationTyped ==
  ASSUME PoolTyping, CreateServerThread, UNCHANGED running
  PROVE  /\ tpc' \in [Threads -> ThreadLocations]
         /\ \A t \in Threads : running'[t] # NoRunnable <=> tpc'[t] = "running"
<1>1. CASE UNCHANGED tpc
  BY <1>1 DEF PoolTyping
<1>2. ASSUME NEW t \in Threads, tpc[t] = "none", tpc' = [tpc EXCEPT ![t] = "created"]
      PROVE  /\ tpc' \in [Threads -> ThreadLocations]
             /\ \A s \in Threads : running'[s] # NoRunnable <=> tpc'[s] = "running"
  BY <1>2 DEF PoolTyping, ThreadLocations
<1>q. QED
  BY <1>1, <1>2, CreationMoves

\* What the client does keeps the types.
LEMMA ClientTyped ==
  ASSUME PoolInv, ClientStep
  PROVE  PoolTyping'
<1> USE DEF PoolInv, PoolTyping, clientVars, countVars
<1>1. CASE Construct
  BY <1>1, CreationTyped DEF Construct, ClientLocations
<1>2. ASSUME NEW r \in Runnables, Schedule(r)
      PROVE  PoolTyping'
  <2>1. scheduled' \in Seq(Runnables) /\ scheduledWaiters' \subseteq Threads
    BY <1>2 DEF Schedule, Scheduled!Enqueue
  <2>2. /\ tpc' \in [Threads -> ThreadLocations]
        /\ \A t \in Threads : running'[t] # NoRunnable <=> tpc'[t] = "running"
    BY <1>2, CreationTyped DEF Schedule
  <2>q. QED
    BY <1>2, <2>1, <2>2 DEF Schedule, Scheduled!Enqueue
<1>3. CASE Quiesce
  BY <1>3 DEF Quiesce, Scheduled!Close
<1>4. CASE Collect
  <2>1. CASE Executed!Dequeue(Client) /\ returned' = returned \union {Head(executed)}
                                      /\ UNCHANGED clientPc
    <3>1. executed' \in Seq(Runnables) /\ Head(executed) \in Runnables
      BY <2>1 DEF Executed!Dequeue
    <3>q. QED
      BY <1>4, <2>1, <3>1 DEF Collect, Executed!Dequeue
  <2>2. CASE Executed!FindClosed(Client) /\ clientPc' = "destroying" /\ UNCHANGED returned
    BY <1>4, <2>2 DEF Collect, Executed!FindClosed, Executed!queueVars, ClientLocations
  <2>3. CASE Executed!Await(Client) /\ UNCHANGED <<clientPc, returned>>
    BY <1>4, <2>3 DEF Collect, Executed!Await
  <2>q. QED
    BY <1>4, <2>1, <2>2, <2>3 DEF Collect
<1>5. CASE AwaitQuiescing
  BY <1>5 DEF AwaitQuiescing, ClientLocations
<1>6. CASE JoinThreads
  BY <1>6 DEF JoinThreads, ClientLocations
<1>q. QED
  BY <1>1, <1>2, <1>3, <1>4, <1>5, <1>6 DEF ClientStep

\* A thread in one of the counted locations is one of those counted.
LEMMA CountedPositive ==
  ASSUME PoolTyping, CountsAgree, NEW t \in Threads
  PROVE  /\ tpc[t] \in RegisteredAt => numCurrentThreads > 0
         /\ tpc[t] \in UnaccountedAt => numPendingRunnables > 0
<1>1. IsFiniteSet(Registered) /\ IsFiniteSet(Unaccounted)
  BY FS_Subset, PoolAssumption DEF Registered, Unaccounted
<1>2. Cardinality(Registered) \in Nat /\ Cardinality(Unaccounted) \in Nat
  BY <1>1, FS_CardinalityType
<1>3. tpc[t] \in RegisteredAt => Cardinality(Registered) # 0
  BY <1>1, FS_EmptySet DEF Registered, RegisteredAt
<1>4. tpc[t] \in UnaccountedAt => Cardinality(Unaccounted) # 0
  BY <1>1, FS_EmptySet DEF Unaccounted, UnaccountedAt
<1>5. Len(scheduled) \in Nat
  BY DEF PoolTyping
<1>q. QED
  BY <1>2, <1>3, <1>4, <1>5 DEF CountsAgree

\* What a server thread does keeps the types; a count is never taken below
\* zero, for the thread that takes it down is itself counted.
LEMMA ServerTyped ==
  ASSUME PoolInv, NEW t \in Threads, ServerStep(t)
  PROVE  PoolTyping'
<1> USE DEF PoolInv, PoolTyping, clientVars, countVars, GoTo, ThreadLocations
<1>1. CASE TestClosed(t)
  BY <1>1 DEF TestClosed
<1>2. CASE TestEmpty(t)
  BY <1>2 DEF TestEmpty
<1>3. CASE Register(t)
  BY <1>3 DEF Register
<1>4. CASE DequeueScheduled(t)
  <2>1. CASE /\ Scheduled!Dequeue(t)
             /\ running' = [running EXCEPT ![t] = Head(scheduled)]
             /\ GoTo(t, "running")
    <3>1. scheduled' \in Seq(Runnables) /\ Head(scheduled) \in Runnables
      BY <2>1 DEF Scheduled!Dequeue
    <3>2. Head(scheduled) # NoRunnable
      BY <3>1, PoolAssumption
    <3>q. QED
      BY <1>4, <2>1, <3>1, <3>2 DEF DequeueScheduled, Scheduled!Dequeue
  <2>2. CASE Scheduled!FindClosed(t) /\ GoTo(t, "retire") /\ UNCHANGED running
    BY <1>4, <2>2 DEF DequeueScheduled, Scheduled!FindClosed, Scheduled!queueVars
  <2>3. CASE Scheduled!Await(t) /\ UNCHANGED <<tpc, running>>
    BY <1>4, <2>3 DEF DequeueScheduled, Scheduled!Await
  <2>q. QED
    BY <1>4, <2>1, <2>2, <2>3 DEF DequeueScheduled
<1>5. CASE Report(t)
  <2>1. running[t] \in Runnables
    BY <1>5 DEF Report
  <2>2. CASE executedClosed
    BY <1>5, <2>2 DEF Report
  <2>3. CASE ~executedClosed
    <3>1. Executed!Enqueue(running[t])
      BY <1>5, <2>3 DEF Report
    <3>2. executed' \in Seq(Runnables) /\ executedWaiters' = {} /\ UNCHANGED executedClosed
      BY <2>1, <3>1 DEF Executed!Enqueue
    <3>q. QED
      BY <1>5, <2>3, <3>2 DEF Report
  <2>q. QED
    BY <2>2, <2>3
<1>6. CASE Account(t)
  <2>1. numPendingRunnables > 0
    BY <1>6, CountedPositive DEF Account, UnaccountedAt
  <2>q. QED
    BY <1>6, <2>1 DEF Account
<1>7. CASE Retire(t)
  <2>1. numCurrentThreads > 0
    BY <1>7, CountedPositive DEF Retire, RegisteredAt
  <2>2. executedClosed' \in BOOLEAN /\ executed' = executed /\ executedWaiters' \subseteq {Client}
    BY <1>7 DEF Retire, Executed!Close
  <2>3. quiescing' \in BOOLEAN
    BY <1>7 DEF Retire
  <2>q. QED
    BY <1>7, <2>1, <2>2, <2>3 DEF Retire
<1>q. QED
  BY <1>1, <1>2, <1>3, <1>4, <1>5, <1>6, <1>7 DEF ServerStep

\* Every step keeps the types.
LEMMA TypeStep ==
  ASSUME PoolInv, [PoolNext]_poolVars
  PROVE  PoolTyping'
<1>1. CASE WakeWithoutReason
  BY <1>1 DEF WakeWithoutReason, Scheduled!WakeSpuriously, Executed!WakeSpuriously,
              PoolInv, PoolTyping, clientVars, countVars
<1>2. CASE UNCHANGED poolVars
  BY <1>2 DEF poolVars, PoolInv, PoolTyping, clientVars, countVars
<1>q. QED
  BY <1>1, <1>2, ClientTyped, ServerTyped DEF PoolNext

-----------------------------------------------------------------------------
(* Counts                                                                  *)

\* Threads that stay where they are leave both sets as they were.
LEMMA NobodyMoves ==
  ASSUME UNCHANGED tpc
  PROVE  UNCHANGED <<Registered, Unaccounted>>
BY DEF Registered, Unaccounted

\* What a move does to the two counts.
LEMMA CountsMove ==
  ASSUME tpc \in [Threads -> ThreadLocations],
         NEW t \in Threads, NEW loc \in ThreadLocations, GoTo(t, loc)
  PROVE  /\ Cardinality(Registered)' =
              IF tpc[t] \in RegisteredAt
              THEN IF loc \in RegisteredAt THEN Cardinality(Registered)
                                           ELSE Cardinality(Registered) - 1
              ELSE IF loc \in RegisteredAt THEN Cardinality(Registered) + 1
                                           ELSE Cardinality(Registered)
         /\ Cardinality(Unaccounted)' =
              IF tpc[t] \in UnaccountedAt
              THEN IF loc \in UnaccountedAt THEN Cardinality(Unaccounted)
                                            ELSE Cardinality(Unaccounted) - 1
              ELSE IF loc \in UnaccountedAt THEN Cardinality(Unaccounted) + 1
                                            ELSE Cardinality(Unaccounted)
BY MoveCounts, CountedSets DEF GoTo

\* A new thread is in neither set.
LEMMA CreationUncounted ==
  ASSUME PoolTyping, CreateServerThread
  PROVE  /\ Cardinality(Registered)' = Cardinality(Registered)
         /\ Cardinality(Unaccounted)' = Cardinality(Unaccounted)
<1>1. CASE UNCHANGED tpc
  BY <1>1, NobodyMoves
<1>2. ASSUME NEW t \in Threads, tpc[t] = "none", tpc' = [tpc EXCEPT ![t] = "created"]
      PROVE  /\ Cardinality(Registered)' = Cardinality(Registered)
             /\ Cardinality(Unaccounted)' = Cardinality(Unaccounted)
  <2>1. tpc \in [Threads -> ThreadLocations] /\ "created" \in ThreadLocations
    BY DEF PoolTyping, ThreadLocations
  <2>2. /\ "none" \notin RegisteredAt /\ "created" \notin RegisteredAt
        /\ "none" \notin UnaccountedAt /\ "created" \notin UnaccountedAt
    BY DEF RegisteredAt, UnaccountedAt
  <2>q. QED
    BY <1>2, <2>1, <2>2, CountsMove DEF GoTo
<1>q. QED
  BY <1>1, <1>2, CreationMoves

\* schedule puts one runnable more on the books and one more in the queue;
\* nothing else the client does touches either.
LEMMA ClientCounted ==
  ASSUME PoolInv, ClientStep
  PROVE  CountsAgree'
<1> USE DEF PoolInv, clientVars, countVars
<1>0. /\ Cardinality(Registered) \in Nat
      /\ Cardinality(Unaccounted) \in Nat
      /\ Len(scheduled) \in Nat
  BY FS_Subset, FS_CardinalityType, PoolAssumption
     DEF Registered, Unaccounted, PoolTyping
<1>1. CASE Construct
  <2>1. UNCHANGED <<numCurrentThreads, numPendingRunnables, scheduled>>
    BY <1>1 DEF Construct
  <2>2. CreateServerThread \/ UNCHANGED tpc
    BY <1>1 DEF Construct
  <2>q. QED
    BY <2>1, <2>2, CreationUncounted, NobodyMoves DEF CountsAgree
<1>2. ASSUME NEW r \in Runnables, Schedule(r)
      PROVE  CountsAgree'
  <2>1. /\ numPendingRunnables' = numPendingRunnables + 1
        /\ UNCHANGED numCurrentThreads
        /\ scheduled' = Append(scheduled, r)
    BY <1>2 DEF Schedule, Scheduled!Enqueue
  <2>2. Len(scheduled') = Len(scheduled) + 1
    BY <2>1 DEF PoolTyping
  <2>3. CreateServerThread \/ UNCHANGED tpc
    BY <1>2 DEF Schedule
  <2>4. /\ Cardinality(Registered)' = Cardinality(Registered)
        /\ Cardinality(Unaccounted)' = Cardinality(Unaccounted)
    BY <2>3, CreationUncounted, NobodyMoves
  <2>q. QED
    BY <1>0, <2>1, <2>2, <2>4 DEF CountsAgree
<1>3. CASE Quiesce
  BY <1>3, NobodyMoves DEF Quiesce, Scheduled!Close, CountsAgree
<1>4. CASE Collect
  BY <1>4, NobodyMoves DEF Collect, CountsAgree
<1>5. CASE AwaitQuiescing
  BY <1>5, NobodyMoves DEF AwaitQuiescing, CountsAgree
<1>6. CASE JoinThreads
  BY <1>6, NobodyMoves DEF JoinThreads, CountsAgree
<1>q. QED
  BY <1>1, <1>2, <1>3, <1>4, <1>5, <1>6 DEF ClientStep

\* A server thread counts itself when it enters the counted locations and
\* before it leaves them, and takes with it the runnable it dequeues.
LEMMA ServerCounted ==
  ASSUME PoolInv, NEW t \in Threads, ServerStep(t)
  PROVE  CountsAgree'
<1> USE DEF PoolInv, clientVars, countVars
<1>0. /\ tpc \in [Threads -> ThreadLocations]
      /\ Len(scheduled) \in Nat
  BY DEF PoolTyping
<1>n. Cardinality(Registered) \in Nat /\ Cardinality(Unaccounted) \in Nat
  BY FS_Subset, FS_CardinalityType, PoolAssumption DEF Registered, Unaccounted
<1>l. {"sawClosed", "register", "exited", "dequeue", "running", "retire",
       "account", "aborted"} \subseteq ThreadLocations
  BY DEF ThreadLocations
<1>1. CASE TestClosed(t)
  <2>1. \E loc \in {"sawClosed", "register"} : GoTo(t, loc)
    BY <1>1 DEF TestClosed
  <2>2. UNCHANGED <<Cardinality(Registered), Cardinality(Unaccounted)>>
    BY <1>1, <2>1, CountsMove, <1>0, <1>l DEF TestClosed, RegisteredAt, UnaccountedAt
  <2>q. QED
    BY <1>1, <2>2 DEF TestClosed, CountsAgree
<1>2. CASE TestEmpty(t)
  <2>1. \E loc \in {"exited", "register"} : GoTo(t, loc)
    BY <1>2 DEF TestEmpty
  <2>2. UNCHANGED <<Cardinality(Registered), Cardinality(Unaccounted)>>
    BY <1>2, <2>1, CountsMove, <1>0, <1>l DEF TestEmpty, RegisteredAt, UnaccountedAt
  <2>q. QED
    BY <1>2, <2>2 DEF TestEmpty, CountsAgree
<1>3. CASE Register(t)
  <2>1. /\ Cardinality(Registered)' = Cardinality(Registered) + 1
        /\ Cardinality(Unaccounted)' = Cardinality(Unaccounted)
    BY <1>3, CountsMove, <1>0, <1>l DEF Register, RegisteredAt, UnaccountedAt
  <2>q. QED
    BY <1>3, <1>n, <2>1 DEF Register, CountsAgree
<1>4. CASE DequeueScheduled(t)
  <2>1. CASE Scheduled!Dequeue(t) /\ GoTo(t, "running")
    <3>1. Len(scheduled') = Len(scheduled) - 1
      BY <2>1 DEF Scheduled!Dequeue, PoolTyping
    <3>2. /\ Cardinality(Registered)' = Cardinality(Registered)
          /\ Cardinality(Unaccounted)' = Cardinality(Unaccounted) + 1
      BY <1>4, <2>1, CountsMove, <1>0, <1>l DEF DequeueScheduled, RegisteredAt, UnaccountedAt
    <3>q. QED
      BY <1>4, <1>0, <1>n, <3>1, <3>2 DEF DequeueScheduled, CountsAgree
  <2>2. CASE Scheduled!FindClosed(t) /\ GoTo(t, "retire")
    <3>1. /\ Cardinality(Registered)' = Cardinality(Registered)
          /\ Cardinality(Unaccounted)' = Cardinality(Unaccounted)
      BY <1>4, <2>2, CountsMove, <1>0, <1>l DEF DequeueScheduled, RegisteredAt, UnaccountedAt
    <3>q. QED
      BY <1>4, <2>2, <3>1
         DEF DequeueScheduled, Scheduled!FindClosed, Scheduled!queueVars, CountsAgree
  <2>3. CASE Scheduled!Await(t) /\ UNCHANGED tpc
    BY <1>4, <2>3, NobodyMoves DEF DequeueScheduled, Scheduled!Await, CountsAgree
  <2>q. QED
    BY <1>4, <2>1, <2>2, <2>3 DEF DequeueScheduled
<1>5. CASE Report(t)
  <2>1. ~executedClosed
    BY <1>5 DEF Report, ClosedMeansDone
  <2>2. GoTo(t, "account")
    BY <1>5, <2>1 DEF Report
  <2>3. /\ Cardinality(Registered)' = Cardinality(Registered)
        /\ Cardinality(Unaccounted)' = Cardinality(Unaccounted)
    BY <1>5, <2>2, CountsMove, <1>0, <1>l DEF Report, RegisteredAt, UnaccountedAt
  <2>q. QED
    BY <1>5, <2>3 DEF Report, CountsAgree
<1>6. CASE Account(t)
  <2>1. /\ Cardinality(Registered)' = Cardinality(Registered)
        /\ Cardinality(Unaccounted)' = Cardinality(Unaccounted) - 1
    BY <1>6, CountsMove, <1>0, <1>l DEF Account, RegisteredAt, UnaccountedAt
  <2>q. QED
    BY <1>6, <1>0, <1>n, <2>1 DEF Account, CountsAgree
<1>7. CASE Retire(t)
  <2>1. /\ Cardinality(Registered)' = Cardinality(Registered) - 1
        /\ Cardinality(Unaccounted)' = Cardinality(Unaccounted)
    BY <1>7, CountsMove, <1>0, <1>l DEF Retire, RegisteredAt, UnaccountedAt
  <2>q. QED
    BY <1>7, <1>n, <2>1 DEF Retire, CountsAgree
<1>q. QED
  BY <1>1, <1>2, <1>3, <1>4, <1>5, <1>6, <1>7 DEF ServerStep

\* Every step keeps the counts in agreement with the threads and the queue.
LEMMA CountsStep ==
  ASSUME PoolInv, [PoolNext]_poolVars
  PROVE  CountsAgree'
<1>1. CASE WakeWithoutReason
  BY <1>1, NobodyMoves DEF WakeWithoutReason, Scheduled!WakeSpuriously, PoolInv,
                           CountsAgree, countVars
<1>2. CASE UNCHANGED poolVars
  BY <1>2, NobodyMoves DEF poolVars, countVars, PoolInv, CountsAgree
<1>q. QED
  BY <1>1, <1>2, ClientCounted, ServerCounted DEF PoolNext

-----------------------------------------------------------------------------
(* Closing                                                                 *)

\* The retiring thread that closes the queue of executed runnables was the
\* last one registered, so that no thread has a runnable.
LEMMA LastRetires ==
  ASSUME PoolInv, NEW t \in Threads, Retire(t), numCurrentThreads' = 0
  PROVE  \A s \in Threads : tpc'[s] \notin RegisteredAt
<1>1. CountsAgree' /\ IsFiniteSet(Registered')
  <2>1. ServerStep(t)
    BY DEF ServerStep
  <2>2. Registered' \subseteq Threads
    BY DEF Registered
  <2>q. QED
    BY <2>1, <2>2, ServerCounted, FS_Subset, PoolAssumption
<1>2. Registered' = {}
  BY <1>1, FS_EmptySet DEF CountsAgree
<1>q. QED
  BY <1>2 DEF Registered, RegisteredAt

\* Every step keeps ClosedMeansDone: nothing is scheduled on a closed queue,
\* and nothing taken from an empty one.
LEMMA ClosedStep ==
  ASSUME PoolInv, [PoolNext]_poolVars
  PROVE  ClosedMeansDone'
<1> USE DEF PoolInv, ClosedMeansDone, clientVars, countVars
<1>1. CASE ClientStep
  <2>1. CASE Construct
    BY <2>1, CreationMoves DEF Construct, PoolTyping
  <2>2. ASSUME NEW r \in Runnables, Schedule(r)
        PROVE  ClosedMeansDone'
    <3>1. ~executedClosed /\ UNCHANGED executedClosed
      BY <2>2 DEF Schedule, Scheduled!Enqueue
    <3>2. CreateServerThread \/ UNCHANGED tpc
      BY <2>2 DEF Schedule
    <3>q. QED
      BY <3>1, <3>2, CreationMoves DEF PoolTyping
  <2>3. CASE Quiesce
    BY <2>3 DEF Quiesce, Scheduled!Close
  <2>4. CASE Collect
    BY <2>4 DEF Collect, Executed!Dequeue, Executed!FindClosed, Executed!queueVars,
                Executed!Await
  <2>5. CASE AwaitQuiescing
    BY <2>5 DEF AwaitQuiescing
  <2>6. CASE JoinThreads
    BY <2>6 DEF JoinThreads
  <2>q. QED
    BY <1>1, <2>1, <2>2, <2>3, <2>4, <2>5, <2>6 DEF ClientStep
<1>2. ASSUME NEW t \in Threads, ServerStep(t)
      PROVE  ClosedMeansDone'
  <2> USE DEF PoolTyping, GoTo
  <2>1. CASE TestClosed(t)
    BY <2>1 DEF TestClosed
  <2>2. CASE TestEmpty(t)
    BY <2>2 DEF TestEmpty
  <2>3. CASE Register(t)
    BY <2>3 DEF Register
  <2>4. CASE DequeueScheduled(t)
    BY <2>4 DEF DequeueScheduled, Scheduled!Dequeue, Scheduled!FindClosed,
                Scheduled!queueVars, Scheduled!Await
  <2>5. CASE Report(t)
    BY <2>5 DEF Report, Executed!Enqueue
  <2>6. CASE Account(t)
    BY <2>6 DEF Account
  <2>7. CASE Retire(t)
    <3>1. CASE numCurrentThreads' = 0 /\ Scheduled!ClosedAndEmpty
      <4>1. \A s \in Threads : tpc'[s] \notin RegisteredAt
        BY <2>7, <3>1, LastRetires
      <4>2. scheduledClosed' /\ scheduled' = <<>>
        BY <2>7, <3>1 DEF Retire, Scheduled!ClosedAndEmpty
      <4>3. \A s \in Threads : tpc'[s] # "aborted"
        BY <2>7 DEF Retire, ThreadLocations
      <4>q. QED
        BY <4>1, <4>2, <4>3 DEF RegisteredAt
    <3>2. CASE ~(numCurrentThreads' = 0 /\ Scheduled!ClosedAndEmpty)
      BY <2>7, <3>2 DEF Retire
    <3>q. QED
      BY <3>1, <3>2
  <2>q. QED
    BY <1>2, <2>1, <2>2, <2>3, <2>4, <2>5, <2>6, <2>7 DEF ServerStep
<1>3. CASE WakeWithoutReason
  BY <1>3 DEF WakeWithoutReason, Scheduled!WakeSpuriously, Executed!WakeSpuriously
<1>4. CASE UNCHANGED poolVars
  BY <1>4 DEF poolVars
<1>q. QED
  BY <1>1, <1>2, <1>3, <1>4 DEF PoolNext

-----------------------------------------------------------------------------
(* The theorems                                                            *)

\* Before the constructor runs there is no thread, no runnable, no count.
LEMMA InitIInv ==
  ASSUME PoolInit
  PROVE  PoolInv
<1> USE DEF PoolInit, Scheduled!QueueInit, Executed!QueueInit
<1>1. PoolTyping
  <2>1. scheduled \in Seq(Runnables) /\ executed \in Seq(Runnables)
    OBVIOUS
  <2>2. tpc \in [Threads -> ThreadLocations] /\ \A t \in Threads : tpc[t] # "running"
    BY DEF ThreadLocations
  <2>3. /\ running \in [Threads -> Runnables \union {NoRunnable}]
        /\ \A t \in Threads : running[t] = NoRunnable
    OBVIOUS
  <2>q. QED
    BY <2>1, <2>2, <2>3 DEF PoolTyping, ClientLocations
<1>2. Registered = {} /\ Unaccounted = {}
  BY DEF Registered, Unaccounted
<1>3. CountsAgree
  BY <1>2, FS_EmptySet DEF CountsAgree
<1>4. ClosedMeansDone
  BY DEF ClosedMeansDone
<1>q. QED
  BY <1>1, <1>3, <1>4 DEF PoolInv

(***************************************************************************)
(* Types, counts and the meaning of the closed queue hold in every state,  *)
(* for every number of threads and runnables.  They are inductive only     *)
(* together: a thread that finds itself the last one registered may close  *)
(* the queue because the count is the number of threads that can have a    *)
(* runnable, and the count stays natural because the thread that lowers it *)
(* is counted.                                                             *)
(***************************************************************************)
THEOREM PoolInductive == PoolSpec => []PoolInv
<1>1. PoolInit => PoolInv
  BY InitIInv
<1>2. PoolInv /\ [PoolNext]_poolVars => PoolInv'
  BY TypeStep, CountsStep, ClosedStep DEF PoolInv
<1>q. QED
  BY <1>1, <1>2, PTL DEF PoolSpec

(***************************************************************************)
(* What schedule and the retiring threads read are the numbers they are    *)
(* meant to be, in every state.                                            *)
(***************************************************************************)
THEOREM PoolCounts == PoolSpec => []CountsAgree
BY PoolInductive, PTL DEF PoolInv

(***************************************************************************)
(* When the client finds the executed runnables closed and empty, the pool *)
(* has executed all it was given, and no thread aborts the process.        *)
(***************************************************************************)
THEOREM PoolClosedMeansDone == PoolSpec => []ClosedMeansDone
BY PoolInductive, PTL DEF PoolInv

\* The client's steps are those of a RunnablePool's client, or change
\* nothing a RunnablePool has.
LEMMA ClientRefines ==
  ASSUME PoolInv, ClientStep
  PROVE  [Pool!Next]_Pool!poolVars
<1> USE DEF clientVars, countVars, Pool!poolVars
<1>1. CASE Construct
  BY <1>1 DEF Construct
<1>2. ASSUME NEW r \in Runnables, Schedule(r)
      PROVE  Pool!Submit(r)
  BY <1>2 DEF Schedule, Scheduled!Enqueue, Pool!Submit
<1>3. CASE Quiesce
  <2>1. Pool!Quiesce
    BY <1>3 DEF Quiesce, Scheduled!Close, Pool!Quiesce
  <2>q. QED
    BY <2>1 DEF Pool!Next
<1>4. CASE Collect
  <2>1. CASE Executed!Dequeue(Client)
    <3>1. Pool!TakeBack
      BY <1>4, <2>1 DEF Collect, Executed!Dequeue, Pool!TakeBack
    <3>q. QED
      BY <3>1 DEF Pool!Next
  <2>2. CASE Executed!FindClosed(Client) \/ Executed!Await(Client)
    BY <1>4, <2>2 DEF Collect, Executed!FindClosed, Executed!queueVars, Executed!Await
  <2>q. QED
    BY <1>4, <2>1, <2>2 DEF Collect
<1>5. CASE AwaitQuiescing
  BY <1>5 DEF AwaitQuiescing
<1>6. CASE JoinThreads
  BY <1>6 DEF JoinThreads
<1>q. QED
  BY <1>1, <1>2, <1>3, <1>4, <1>5, <1>6 DEF ClientStep, Pool!Next

\* A server thread's steps start or finish a runnable, settle the pool when
\* all is done, or change nothing a RunnablePool has.
LEMMA ServerRefines ==
  ASSUME PoolInv, NEW t \in Threads, ServerStep(t)
  PROVE  [Pool!Next]_Pool!poolVars
<1> USE DEF clientVars, countVars, Pool!poolVars
<1>1. CASE TestClosed(t)
  BY <1>1 DEF TestClosed
<1>2. CASE TestEmpty(t)
  BY <1>2 DEF TestEmpty
<1>3. CASE Register(t)
  BY <1>3 DEF Register
<1>4. CASE DequeueScheduled(t)
  <2>1. CASE Scheduled!Dequeue(t) /\ running' = [running EXCEPT ![t] = Head(scheduled)]
    <3>1. running[t] = NoRunnable
      BY <1>4 DEF DequeueScheduled, PoolInv, PoolTyping
    <3>2. Pool!Start(t)
      BY <1>4, <2>1, <3>1 DEF DequeueScheduled, Scheduled!Dequeue, Pool!Start
    <3>q. QED
      BY <3>2 DEF Pool!Next
  <2>2. CASE (Scheduled!FindClosed(t) \/ Scheduled!Await(t)) /\ UNCHANGED running
    BY <1>4, <2>2 DEF DequeueScheduled, Scheduled!FindClosed, Scheduled!queueVars,
                      Scheduled!Await
  <2>q. QED
    BY <1>4, <2>1, <2>2 DEF DequeueScheduled
<1>5. CASE Report(t)
  <2>1. ~executedClosed /\ running[t] # NoRunnable
    BY <1>5 DEF Report, PoolInv, PoolTyping, ClosedMeansDone
  <2>2. Pool!Finish(t)
    BY <1>5, <2>1 DEF Report, Executed!Enqueue, Pool!Finish
  <2>q. QED
    BY <2>2 DEF Pool!Next
<1>6. CASE Account(t)
  BY <1>6 DEF Account
<1>7. CASE Retire(t)
  <2>1. CASE numCurrentThreads' = 0 /\ Scheduled!ClosedAndEmpty
    <3>1. \A s \in Threads : tpc'[s] # "running"
      BY <1>7, <2>1, LastRetires DEF RegisteredAt
    <3>2. \A s \in Threads : running'[s] = NoRunnable
      <4>1. PoolTyping'
        BY ServerTyped
      <4>q. QED
        BY <3>1, <4>1 DEF PoolTyping
    <3>3. Pool!Settle
      BY <1>7, <2>1, <3>2 DEF Retire, Executed!Close, Scheduled!ClosedAndEmpty,
                              Pool!Settle
    <3>q. QED
      BY <3>3 DEF Pool!Next
  <2>2. CASE ~(numCurrentThreads' = 0 /\ Scheduled!ClosedAndEmpty)
    BY <1>7, <2>2 DEF Retire
  <2>q. QED
    BY <2>1, <2>2
<1>q. QED
  BY <1>1, <1>2, <1>3, <1>4, <1>5, <1>6, <1>7 DEF ServerStep

(***************************************************************************)
(* The detailed pool implements the abstract one: runnables are executed   *)
(* first come, first served, each once, and the pool closes the queue of   *)
(* executed ones only after all of them.                                   *)
(***************************************************************************)
THEOREM PoolRefinement == PoolSpec => ImplementsPool
<1>1. PoolInit => Pool!Init
  BY DEF PoolInit, Scheduled!QueueInit, Executed!QueueInit, Pool!Init
<1>2. PoolInv /\ [PoolNext]_poolVars => [Pool!Next]_Pool!poolVars
  <2> SUFFICES ASSUME PoolInv, [PoolNext]_poolVars
               PROVE  [Pool!Next]_Pool!poolVars
    OBVIOUS
  <2>1. CASE WakeWithoutReason
    BY <2>1 DEF WakeWithoutReason, Scheduled!WakeSpuriously, Executed!WakeSpuriously,
                Pool!poolVars
  <2>2. CASE UNCHANGED poolVars
    BY <2>2 DEF poolVars, Pool!poolVars
  <2>q. QED
    BY <2>1, <2>2, ClientRefines, ServerRefines DEF PoolNext
<1>q. QED
  BY <1>1, <1>2, PoolInductive, PTL DEF PoolSpec, ImplementsPool, Pool!Spec
=============================================================================
