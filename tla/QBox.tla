-------------------------------- MODULE QBox --------------------------------
(***************************************************************************)
(* What the operators share: the tuples they see, load shedding, and the   *)
(* result that doBox returns to the worker.                                *)
(*                                                                         *)
(* A tuple is [id, g, v]: its place in its stream, the values of the       *)
(* group-by fields and the value of the order-by field.  The other bytes   *)
(* of a tuple are copied and never looked at.                              *)
(***************************************************************************)
EXTENDS Integers, Sequences, FiniteSets, SequencesExt

\* What a tuple slot of an output buffer holds when doBox did not write it.
Stale == [id |-> 0, g |-> 0, v |-> 0]

\* return_val: the new state, the tuples written per output port and the
\* counts of output_tuples_array, which is all the worker goes by.
BoxOut(state, out, counts) ==
  [state |-> state, out |-> out, output_tuples_array |-> counts]

CountsOf(out) == [p \in DOMAIN out |-> Len(out[p])]

(***************************************************************************)
(* applyLoadShedding.  The drop information of an arc is "none" (no entry  *)
(* in _ls_info), a predicate (a tuple stays when it holds), a rate above 0 *)
(* (rand_r decides on every tuple) or neither, which drops everything.     *)
(* The result is the set of flag vectors _ls_flag[i] may come out as.      *)
(***************************************************************************)
LsFlags(info, train) ==
  CASE info.kind = "none"      -> {[j \in DOMAIN train |-> TRUE]}
    [] info.kind = "predicate" -> {[j \in DOMAIN train |-> train[j].v \in info.keep]}
    [] info.kind = "rate"      -> [DOMAIN train -> BOOLEAN]
    [] info.kind = "all"       -> {[j \in DOMAIN train |-> FALSE]}

\* The elements of s at the positions in D, in their order.
Sift(s, D) ==
  LET upto[n \in 0..Len(s)] ==
        IF n = 0 THEN <<>> ELSE IF n \in D THEN Append(upto[n - 1], s[n]) ELSE upto[n - 1]
  IN upto[Len(s)]

\* The tuples of a train that the loops over it do not skip.
Unshed(train, flags) == Sift(train, {j \in DOMAIN train : flags[j]})
=============================================================================
