---------------------------- MODULE RunnablePool ----------------------------
(***************************************************************************)
(* What a thread pool promises, as the comments of PtThreadPool.H put it:  *)
(* the runnables submitted are given to idle threads first come, first     *)
(* served, each one to one thread; each comes back when it was executed;   *)
(* and once the pool takes no more and nothing waits or is being executed, *)
(* it settles, and not before.                                             *)
(***************************************************************************)
EXTENDS Sequences

CONSTANTS Threads, Runnables, NoRunnable

VARIABLES
  waiting,        \* the runnables submitted and not yet given to a thread
  working,        \* the runnable each thread executes
  done,           \* the runnables executed and not yet taken back
  accepting,
  settled

poolVars == <<waiting, working, done, accepting, settled>>

Init ==
  /\ waiting = <<>>
  /\ working = [t \in Threads |-> NoRunnable]
  /\ done = <<>>
  /\ accepting = TRUE
  /\ settled = FALSE

Submit(r) ==
  /\ accepting
  /\ waiting' = Append(waiting, r)
  /\ UNCHANGED <<working, done, accepting, settled>>

Start(t) ==
  /\ waiting # <<>>
  /\ working[t] = NoRunnable
  /\ working' = [working EXCEPT ![t] = Head(waiting)]
  /\ waiting' = Tail(waiting)
  /\ UNCHANGED <<done, accepting, settled>>

Finish(t) ==
  /\ working[t] # NoRunnable
  /\ ~settled
  /\ done' = Append(done, working[t])
  /\ working' = [working EXCEPT ![t] = NoRunnable]
  /\ UNCHANGED <<waiting, accepting, settled>>

TakeBack ==
  /\ done # <<>>
  /\ done' = Tail(done)
  /\ UNCHANGED <<waiting, working, accepting, settled>>

Quiesce ==
  /\ accepting
  /\ accepting' = FALSE
  /\ UNCHANGED <<waiting, working, done, settled>>

Settle ==
  /\ ~accepting
  /\ waiting = <<>>
  /\ \A t \in Threads : working[t] = NoRunnable
  /\ settled' = TRUE
  /\ UNCHANGED <<waiting, working, done, accepting>>

Next ==
  \/ \E r \in Runnables : Submit(r)
  \/ \E t \in Threads : Start(t) \/ Finish(t)
  \/ TakeBack
  \/ Quiesce
  \/ Settle

Spec == Init /\ [][Next]_poolVars
=============================================================================
