---------------------------- MODULE Measurement ----------------------------
(***************************************************************************)
(* The stop condition of a run (Measurement::testStopCond) and the flag it *)
(* raises (GlobalStop).  Any thread that asks for the flag first evaluates *)
(* the condition: GlobalStop::getStop calls testStopCond.  Both conditions *)
(* stay true once they are, so testing one and raising the flag is a step. *)
(***************************************************************************)
EXTENDS SMInterface

CONSTANTS
  StopType,       \* _stop_type: which condition ends the run
  NumToWrite      \* _sc._num_tuples_written_to_memory

VARIABLES
  stop,           \* GlobalStop::_stop
  expired,        \* the experiment time of TIME_STOP has passed
  written         \* _to_memory_tuples_written

stopVars == <<stop, expired, written>>

ASSUME StopAssumption ==
  /\ StopType \in {"TIME_STOP", "TUPLES_WRITTEN_TO_MEMORY", "STOP_IGNORE"}
  /\ NumToWrite \in Nat

StopInit ==
  /\ stop = FALSE
  /\ expired = FALSE
  /\ written = 0

StopCond ==
  \/ StopType = "TIME_STOP" /\ expired
  \/ StopType = "TUPLES_WRITTEN_TO_MEMORY" /\ written >= NumToWrite

\* What getStop() answers; asking leaves the flag at this value.
StopSeen == stop \/ StopCond
TestStop == stop' = StopSeen /\ UNCHANGED <<expired, written>>

\* incrementToMemoryTuplesWritten, when a box has results for applications.
CountWritten(n) == written' = written + n /\ UNCHANGED <<stop, expired>>

\* The clock passes _start_time + _experiment_time.
Expire == /\ StopType = "TIME_STOP"
          /\ ~expired
          /\ expired' = TRUE
          /\ UNCHANGED <<stop, written>>
=============================================================================
