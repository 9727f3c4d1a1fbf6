------------------------------ MODULE JoinQBox ------------------------------
(***************************************************************************)
(* The window join: every pair of a left and a right tuple that satisfies  *)
(* the predicate and whose order-by values differ by at most the window.   *)
(* doBox runs the whole left train, then the whole right train.            *)
(***************************************************************************)
EXTENDS BufferList

CONSTANTS
  JoinWindow,       \* _buffer_size_before = _buffer_size_after
  JoinSlack,        \* <<_left_slack, _right_slack>>
  JoinPredicate     \* _join_predicate: pairs of groups

Left  == 1
Right == 2
Other(s) == 3 - s

InitJoin == <<EmptyBufferList, EmptyBufferList>>

Distance(x, y) == IF x > y THEN x - y ELSE y - x

\* emitTuple writes the left fields first, whichever side came last.
Pair(s, t, u) == IF s = Left THEN <<t, u>> ELSE <<u, t>>

\* Whether a pair satisfies the join predicate.
Joins(p) == <<p[1].g, p[2].g>> \in JoinPredicate

\* As Partners below would be without the absolute value.
PartnersOneSided(s, t, theirs) ==
  Sift(theirs.buffer, {i \in DOMAIN theirs.buffer :
                         /\ Att(theirs, theirs.buffer[i]) - t.v <= JoinWindow
                         /\ Joins(Pair(s, t, theirs.buffer[i]))})

\* The tuples of the other buffer that the arriving tuple of side s pairs with.
Partners(s, t, theirs) ==
  Sift(theirs.buffer, {i \in DOMAIN theirs.buffer :
                         /\ Distance(Att(theirs, theirs.buffer[i]), t.v) <= JoinWindow
                         /\ Joins(Pair(s, t, theirs.buffer[i]))})

JoinTuple(s, acc, t) ==
  LET mine1  == AddToVector(acc.state[s], t)
      mine   == IF IsEmpty(mine1) THEN SetThreshold(mine1, t) ELSE mine1
      theirs == acc.state[Other(s)]
      kept   == IF Threshold(theirs) - t.v <= JoinWindow THEN PushBack(mine, t) ELSE mine
      raised == AdvanceThreshold(IncreaseSlack(kept), JoinSlack[s])
      found  == Partners(s, t, theirs)
      pairs  == acc.out \o [i \in DOMAIN found |-> Pair(s, t, found[i])]
      After(m, h) == IF s = Left THEN <<m, h>> ELSE <<h, m>>
  IN CASE IsEmpty(theirs) ->
            [state |-> After(PushBack(mine, t), theirs), out |-> acc.out]
       [] ~IsEmpty(theirs) /\ t.v < Threshold(mine) ->
            [state |-> After(mine, theirs), out |-> acc.out]
       [] ~IsEmpty(theirs) /\ t.v = Threshold(mine) ->
            [state |-> After(kept, theirs), out |-> pairs]
       [] ~IsEmpty(theirs) /\ t.v > Threshold(mine) ->
            [state |-> After(raised, Erase(theirs, Threshold(raised), JoinWindow)), out |-> pairs]

\* The train of one side, tuple by tuple.
JoinTrain(s, acc, train) ==
  LET done[n \in 0..Len(train)] ==
        IF n = 0 THEN acc ELSE JoinTuple(s, done[n - 1], train[n])
  IN done[Len(train)]

DoJoin(state, left, right) ==
  LET l == JoinTrain(Left, [state |-> state, out |-> <<>>], left)
      r == JoinTrain(Right, l, right)
  IN BoxOut(r.state, <<r.out>>, <<Len(r.out)>>)
=============================================================================
