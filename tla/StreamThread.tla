---------------------------- MODULE StreamThread ----------------------------
(***************************************************************************)
(* The stream thread generates the tuples of every input arc.  The time    *)
(* between arrivals decides which arc is next; here any arc may be.  No    *)
(* program sets a total to generate, so the thread ends when each arc has  *)
(* had its own number of messages.                                         *)
(***************************************************************************)
EXTENDS BoxExecutionQueue

CONSTANT
  NumMessages     \* the tuples each input arc gets: num_messages, in trains

VARIABLES
  generated,      \* how many tuples were made, per input arc
  ppc,            \* where the stream thread is
  parc            \* the arc of the tuple at hand

streamVars == <<generated, ppc, parc>>

StreamLocations == {"idle", "enq", "count", "wake", "done"}

ASSUME StreamAssumption ==
  /\ NumMessages \in [InputArcs -> Nat]
  /\ Nobody \notin Arcs

StreamInit ==
  /\ generated = [a \in InputArcs |-> 0]
  /\ ppc = "idle"
  /\ parc = Nobody

\* A tuple is made, and counted as generated, before it is stored.
GenerateTuple(a) ==
  /\ ppc = "idle"
  /\ generated[a] < NumMessages[a]
  /\ generated' = [generated EXCEPT ![a] = @ + 1]
  /\ parc' = a
  /\ ppc' = "enq"
  /\ UNCHANGED <<beqVars, stopVars, smVars, boxLocked>>

StoreTuple ==
  /\ ppc = "enq"
  /\ EnqueueWrite(Stream, parc, <<<<parc, generated[parc]>>>>)
  /\ ppc' = "count"
  /\ UNCHANGED <<generated, parc, beqVars, stopVars, boxLocked>>

CountTuple ==
  /\ ppc = "count"
  /\ EnqueueCount(Stream, parc, 1)
  /\ ppc' = "wake"
  /\ UNCHANGED <<generated, parc, beqVars, stopVars, boxLocked>>

\* The scheduler is woken for every tuple: _sched_wake_interval is 1.
WakeScheduler ==
  /\ ppc = "wake"
  /\ BroadcastScheduler
  /\ parc' = Nobody
  /\ ppc' = "idle"
  /\ UNCHANGED <<generated, beq, beqHolder, beqWaiters, stopVars, smVars,
                 boxLocked>>

\* No arc is left in allInputs.
StreamEnds ==
  /\ ppc = "idle"
  /\ \A a \in InputArcs : generated[a] = NumMessages[a]
  /\ ppc' = "done"
  /\ UNCHANGED <<generated, parc, beqVars, stopVars, smVars, boxLocked>>

StreamStep ==
  \/ (\E a \in InputArcs : GenerateTuple(a))
  \/ StoreTuple \/ CountTuple \/ WakeScheduler \/ StreamEnds
=============================================================================
