------------------------ MODULE FifoCriticalSection ------------------------
(***************************************************************************)
(* A critical section with a list of waiters, each with a condition of its *)
(* own.  lock() takes a free section at once, whoever waits; unlock()      *)
(* frees the section and signals the first waiter, which has to look again *)
(* whether the section is free.                                            *)
(*                                                                         *)
(* As in FairMutexWithCancel, an inner mutex makes each method a step and  *)
(* a wait cuts lock() in two.                                              *)
(***************************************************************************)
EXTENDS Integers, Sequences

CONSTANT
  Enterers        \* the threads that use the section

VARIABLES
  held,           \* _held
  waiters,        \* _waiters
  cpc             \* where each thread is

fifoVars == <<held, waiters, cpc>>

EntererLocations == {"out", "waiting", "awake", "in", "aborted"}

FifoInit ==
  /\ held = FALSE
  /\ waiters = <<>>
  /\ cpc = [e \in Enterers |-> "out"]

FifoLock(e) ==
  /\ cpc[e] = "out"
  /\ IF held
     THEN /\ waiters' = Append(waiters, e)
          /\ cpc' = [cpc EXCEPT ![e] = "waiting"]
          /\ UNCHANGED held
     ELSE /\ held' = TRUE
          /\ cpc' = [cpc EXCEPT ![e] = "in"]
          /\ UNCHANGED waiters

FifoSpuriousWakeup(e) ==
  /\ cpc[e] = "waiting"
  /\ cpc' = [cpc EXCEPT ![e] = "awake"]
  /\ UNCHANGED <<held, waiters>>

\* As FifoResume below would be if a signal were taken for the section.
FifoResumeAnyway(e) ==
  /\ cpc[e] = "awake"
  /\ held' = TRUE
  /\ waiters' = Tail(waiters)
  /\ cpc' = [cpc EXCEPT ![e] = "in"]

\* lock() after a wait.  It asserts that no other thread is before it.
FifoResume(e) ==
  /\ cpc[e] = "awake"
  /\ IF held
     THEN cpc' = [cpc EXCEPT ![e] = "waiting"] /\ UNCHANGED <<held, waiters>>
     ELSE IF Head(waiters) # e
     THEN cpc' = [cpc EXCEPT ![e] = "aborted"] /\ UNCHANGED <<held, waiters>>
     ELSE /\ held' = TRUE
          /\ waiters' = Tail(waiters)
          /\ cpc' = [cpc EXCEPT ![e] = "in"]

FifoUnlock(e) ==
  /\ cpc[e] = "in"
  /\ held' = FALSE
  /\ cpc' = [f \in Enterers |->
       IF f = e THEN "out"
       ELSE IF waiters # <<>> /\ f = Head(waiters) /\ cpc[f] = "waiting"
       THEN "awake" ELSE cpc[f]]
  /\ UNCHANGED waiters

FifoAborted == \E e \in Enterers : cpc[e] = "aborted"

FifoNext ==
  /\ ~FifoAborted
  /\ \E e \in Enterers :
       FifoLock(e) \/ FifoSpuriousWakeup(e) \/ FifoResume(e) \/ FifoUnlock(e)

FifoSpec == FifoInit /\ [][FifoNext]_fifoVars

-----------------------------------------------------------------------------
FifoTyping ==
  /\ held \in BOOLEAN
  /\ waiters \in Seq(Enterers)
  /\ cpc \in [Enterers -> EntererLocations]

(***************************************************************************)
(* One thread is in the section, and exactly when it is held; a free       *)
(* section with waiters always has its first waiter on the way, even after *)
(* a newcomer has taken it in between.                                     *)
(***************************************************************************)
FifoExclusion ==
  /\ \A e, f \in Enterers : cpc[e] = "in" /\ cpc[f] = "in" => e = f
  /\ held <=> \E e \in Enterers : cpc[e] = "in"
  /\ ~held /\ waiters # <<>> => cpc[Head(waiters)] \in {"awake", "aborted"}
=============================================================================
