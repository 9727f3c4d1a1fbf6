--------------------------- MODULE StatelessQBoxes ---------------------------
(***************************************************************************)
(* Filter, Union, Map and the boxes for demonstrations: one pass over the  *)
(* train and no state from one train to the next (but for Restream).  ls   *)
(* is the flag vector that load shedding gave the train (for a union, one  *)
(* per input arc).  The last four look at no flags; Drop and Experiment    *)
(* draw a number for every tuple.                                          *)
(***************************************************************************)
EXTENDS QBox

CONSTANTS
  Predicates,     \* the predicates of a filter, in order: sets of values
  UseFalsePort    \* _useFalsePort: the modifier ends in PASS

NumPredicates == Len(Predicates)
FilterPorts   == 1..(NumPredicates + IF UseFalsePort THEN 1 ELSE 0)

\* The port a filter writes a tuple to; 0 when it drops the tuple.
PortOf(t) ==
  LET hits == {j \in 1..NumPredicates : t.v \in Predicates[j]}
  IN IF hits # {} THEN CHOOSE j \in hits : \A k \in hits : j <= k
     ELSE IF UseFalsePort THEN NumPredicates + 1 ELSE 0

DoFilter(train, ls) ==
  LET out == [p \in FilterPorts |->
                SelectSeq(Unshed(train, ls), LAMBDA t : PortOf(t) = p)]
  IN BoxOut(<<>>, out, CountsOf(out))

\* As DoUnion below would be if it indexed the flags as its log lines do.
DoUnionCrossed(trains, ls) ==
  LET swapped == [i \in DOMAIN trains |->
                    [j \in DOMAIN trains[i] |->
                       IF j \in DOMAIN trains /\ i \in DOMAIN ls[j] THEN ls[j][i] ELSE TRUE]]
      out == <<FlattenSeq([i \in DOMAIN trains |-> Unshed(trains[i], swapped[i])])>>
  IN BoxOut(<<>>, out, CountsOf(out))

\* A union copies the arcs one after the other.
DoUnion(trains, ls) ==
  LET out == <<FlattenSeq([i \in DOMAIN trains |-> Unshed(trains[i], ls[i])])>>
  IN BoxOut(<<>>, out, CountsOf(out))

\* A map announces the whole train (lines 78 and 84) however much was shed:
\* what follows the tuples it wrote is what the buffer held before.
DoMap(train, ls) ==
  LET written == Unshed(train, ls)
      slots == [j \in DOMAIN train |-> IF j <= Len(written) THEN written[j] ELSE Stale]
  IN BoxOut(<<>>, <<slots>>, <<Len(train)>>)

DoHelloWorld(train) == BoxOut(<<>>, <<train>>, <<Len(train)>>)

\* Drop and Restream count in output_tuples only: the array stays NULL.
NoArray == <<>>

DoDrop(train, spared) == BoxOut(<<>>, <<Unshed(train, spared)>>, NoArray)

\* A group gets the number of groups before it for its stream id.
DoRestream(groups, train) ==
  LET seen   == FoldLeft(LAMBDA s, t : IF t.g \in ToSet(s) THEN s ELSE Append(s, t.g), groups, train)
      Sid(g) == (CHOOSE i \in DOMAIN seen : seen[i] = g) - 1
  IN BoxOut(seen, <<[j \in DOMAIN train |-> [tuple |-> train[j], sid |-> Sid(train[j].g)]]>>, NoArray)

\* An experiment passes on a part of every input.  What it tells Measurement,
\* input by input, is a latency and a number of tuples: the number is that of
\* the input, but the latency is summed over the inputs so far, and counts the
\* first tuple of a train (whose time stamp is v) for every tuple that passes.
DoExperiment(told, trains, passed, now) ==
  LET Num(i) == Len(Unshed(trains[i], passed[i]))
      Sum(j) == FoldLeft(LAMBDA a, b : a + b, 0,
                         [i \in 1..j |-> IF Num(i) = 0 THEN 0 ELSE Num(i) * (now - trains[i][1].v)])
      used   == SelectSeq([i \in DOMAIN trains |-> i], LAMBDA i : trains[i] # <<>>)
      out    == <<FlattenSeq([i \in DOMAIN trains |-> Unshed(trains[i], passed[i])])>>
  IN BoxOut(told \o [k \in DOMAIN used |-> <<Sum(used[k]), Num(used[k])>>], out, CountsOf(out))
=============================================================================
