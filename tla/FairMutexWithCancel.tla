------------------------ MODULE FairMutexWithCancel ------------------------
(***************************************************************************)
(* A mutex that is granted first come, first served, and that can be       *)
(* cancelled for good.  Every caller of lock() puts a condition of its own *)
(* on a list and waits until it is the front, or the mutex is cancelled;   *)
(* the front of the list is the holder.                                    *)
(*                                                                         *)
(* Each method runs under an inner mutex, which only a wait gives up, so a *)
(* method is a step, and a wait cuts lock() in two.                        *)
(***************************************************************************)
EXTENDS Integers, Sequences

CONSTANTS
  Callers,        \* the threads that use the mutex
  NoCaller        \* nobody

ASSUME NoCallerAssumption == NoCaller \notin Callers

VARIABLES
  cancelled,      \* _cancelled
  alarmClocks,    \* _alarmClocks: whose condition is on the list
  deleted,        \* whose condition on the list has been deleted
  currentHolder,  \* _currentHolder
  fpc             \* where each caller is

fairVars == <<cancelled, alarmClocks, deleted, currentHolder, fpc>>

CallerLocations == {"out", "waiting", "awake", "in", "refused"}

FairInit ==
  /\ cancelled = FALSE
  /\ alarmClocks = <<>>
  /\ deleted = {}
  /\ currentHolder = NoCaller
  /\ fpc = [c \in Callers |-> "out"]

\* The condition of c is signalled: c has to get the inner mutex again.
Signalled(c) == IF fpc[c] = "waiting" THEN "awake" ELSE fpc[c]

\* lock(), up to the wait if there is one.
FairLock(c) ==
  /\ fpc[c] \in {"out", "refused"}
  /\ IF cancelled
     THEN /\ fpc' = [fpc EXCEPT ![c] = "refused"]
          /\ UNCHANGED <<alarmClocks, currentHolder>>
     ELSE /\ alarmClocks' = Append(alarmClocks, c)
          /\ IF alarmClocks = <<>>
             THEN fpc' = [fpc EXCEPT ![c] = "in"] /\ currentHolder' = c
             ELSE fpc' = [fpc EXCEPT ![c] = "waiting"] /\ UNCHANGED currentHolder
  /\ UNCHANGED <<cancelled, deleted>>

\* A wait may end by itself (the comment at the loop of lock()).
SpuriousWakeup(c) ==
  /\ fpc[c] = "waiting"
  /\ fpc' = [fpc EXCEPT ![c] = "awake"]
  /\ UNCHANGED <<cancelled, alarmClocks, deleted, currentHolder>>

\* As FairResume below would be with an if in place of the loop.
FairResumeAnyway(c) ==
  /\ fpc[c] = "awake"
  /\ IF cancelled
     THEN /\ fpc' = [fpc EXCEPT ![c] = "refused"]
          /\ deleted' = deleted \cup {c}
          /\ UNCHANGED currentHolder
     ELSE /\ fpc' = [fpc EXCEPT ![c] = "in"]
          /\ currentHolder' = c
          /\ UNCHANGED deleted
  /\ UNCHANGED <<cancelled, alarmClocks>>

(***************************************************************************)
(* lock() after a wait.  A caller that finds the mutex cancelled deletes   *)
(* its condition and leaves it on the list.                                *)
(***************************************************************************)
FairResume(c) ==
  /\ fpc[c] = "awake"
  /\ IF cancelled
     THEN /\ fpc' = [fpc EXCEPT ![c] = "refused"]
          /\ deleted' = deleted \cup {c}
          /\ UNCHANGED currentHolder
     ELSE IF Head(alarmClocks) = c
     THEN /\ fpc' = [fpc EXCEPT ![c] = "in"]
          /\ currentHolder' = c
          /\ UNCHANGED deleted
     ELSE /\ fpc' = [fpc EXCEPT ![c] = "waiting"]
          /\ UNCHANGED <<currentHolder, deleted>>
  /\ UNCHANGED <<cancelled, alarmClocks>>

\* As FairUnlock below would be if it did not signal.
FairUnlockSilently(c) ==
  /\ fpc[c] = "in"
  /\ alarmClocks' = Tail(alarmClocks)
  /\ fpc' = [fpc EXCEPT ![c] = "out"]
  /\ UNCHANGED <<cancelled, deleted, currentHolder>>

(***************************************************************************)
(* unlock().  What signalling a deleted condition does is undefined; it    *)
(* wakes nobody, for the caller whose condition it was has returned.       *)
(***************************************************************************)
FairUnlock(c) ==
  /\ fpc[c] = "in"
  /\ alarmClocks' = Tail(alarmClocks)
  /\ fpc' = [d \in Callers |->
       IF d = c THEN "out"
       ELSE IF Tail(alarmClocks) # <<>> /\ d = Head(Tail(alarmClocks))
       THEN Signalled(d) ELSE fpc[d]]
  /\ UNCHANGED <<cancelled, deleted, currentHolder>>

\* cancel(): for each condition on the list, the first one is signalled.
FairCancel ==
  /\ ~cancelled
  /\ cancelled' = TRUE
  /\ fpc' = [d \in Callers |->
       IF alarmClocks # <<>> /\ d = Head(alarmClocks) THEN Signalled(d) ELSE fpc[d]]
  /\ UNCHANGED <<alarmClocks, deleted, currentHolder>>

FairMutexNext ==
  \/ \E c \in Callers : FairLock(c) \/ SpuriousWakeup(c) \/ FairResume(c) \/ FairUnlock(c)
  \/ FairCancel

FairMutexSpec == FairInit /\ [][FairMutexNext]_fairVars

-----------------------------------------------------------------------------
FairTyping ==
  /\ cancelled \in BOOLEAN
  /\ alarmClocks \in Seq(Callers)
  /\ deleted \subseteq Callers
  /\ currentHolder \in Callers \cup {NoCaller}
  /\ fpc \in [Callers -> CallerLocations]

(***************************************************************************)
(* The mutex is granted to one caller, the one that has been on the list   *)
(* for longest, and unlock() finds the holder it asserts; and as long as   *)
(* the mutex is not cancelled no wake-up is lost: when nobody holds it,    *)
(* the first of those that wait has been woken.                            *)
(***************************************************************************)
FairGrants ==
  /\ \A c \in Callers : fpc[c] = "in" =>
       alarmClocks # <<>> /\ Head(alarmClocks) = c /\ currentHolder = c
  /\ ~cancelled /\ alarmClocks # <<>> => fpc[Head(alarmClocks)] \in {"in", "awake"}

(***************************************************************************)
(* Whoever calls lock() is granted the mutex in the end, unless it is      *)
(* cancelled, if every holder gives it back.                               *)
(***************************************************************************)
FairFairness ==
  \A c \in Callers : WF_fairVars(FairResume(c)) /\ WF_fairVars(FairUnlock(c))

GrantedUnlessCancelled ==
  \A c \in Callers : fpc[c] = "waiting" ~> fpc[c] = "in" \/ cancelled
=============================================================================
