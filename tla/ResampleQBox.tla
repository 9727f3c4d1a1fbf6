---------------------------- MODULE ResampleQBox ----------------------------
(***************************************************************************)
(* Resample: for every value of the left stream, an aggregate over the     *)
(* right tuples within the window around it.  A state is opened when a     *)
(* left tuple arrives and is emitted when the right threshold has passed   *)
(* its window.                                                             *)
(*                                                                         *)
(* The states are kept in a hash table whose key is the printed order-by   *)
(* value of the left tuple that opened them: here, the value.  A state     *)
(* records what was added to its aggregate, as pairs of the tuple that was *)
(* added and the right tuple that was the reason.                          *)
(***************************************************************************)
EXTENDS BufferList

CONSTANTS
  ResampleWindow,     \* _window_size
  ResampleSlack       \* <<_left_slack, _right_slack>>

InitResample ==
  [left |-> EmptyBufferList, right |-> EmptyBufferList, states |-> [k \in {} |-> <<>>]]

\* addState: hash_map::insert leaves a state that is there alone.
AddState(states, k) ==
  [j \in DOMAIN states \cup {k} |-> IF j \in DOMAIN states THEN states[j] ELSE <<>>]

\* The threshold of a side after tuple t, which is not late, has been seen.
Raise(bl, t, maxSlack) ==
  IF t.v > Threshold(bl) THEN AdvanceThreshold(IncreaseSlack(bl), maxSlack) ELSE bl

Arrive(bl, t) ==
  LET b == AddToVector(bl, t) IN IF IsEmpty(b) THEN SetThreshold(b, t) ELSE b

Near(bl, u, t) == t.v - ResampleWindow <= Att(bl, u) /\ Att(bl, u) <= t.v + ResampleWindow

(***************************************************************************)
(* A left tuple: a state of its own, then one pass over the right buffer   *)
(* that drops what the left threshold has passed and adds to the state for *)
(* every right tuple in the window.  What is added is the left tuple       *)
(* (line 248), not the right one.                                          *)
(***************************************************************************)
LeftTuple(acc, t) ==
  LET arrived == Arrive(acc.left, t)
      left    == Raise(arrived, t, ResampleSlack[1])
      passed(u) == Att(acc.right, u) < Threshold(left) - ResampleWindow
      in      == SelectSeq(acc.right.buffer, LAMBDA u : ~passed(u) /\ Near(acc.right, u, t))
  IN IF t.v < Threshold(arrived) THEN [acc EXCEPT !.left = arrived]
     ELSE [acc EXCEPT
             !.left = PushBack(left, t),
             !.right.buffer = SelectSeq(@, LAMBDA u : ~passed(u)),
             !.states = [AddState(@, t.v) EXCEPT
                           ![t.v] = @ \o [i \in DOMAIN in |-> <<t, in[i]>>]]]

\* As RightNode below would be with <= where the code has <.
RightNodeSoon(acc, u, t, threshold) ==
  LET k == Att(acc.left, u)
  IN CASE k <= threshold - ResampleWindow ->
            [acc EXCEPT
               !.out = IF k \in DOMAIN acc.states THEN Append(@, <<k, acc.states[k]>>) ELSE @,
               !.states = [j \in DOMAIN @ \ {k} |-> @[j]]]
       [] k > threshold - ResampleWindow /\ Near(acc.left, u, t) /\ k \in DOMAIN acc.states ->
            [acc EXCEPT !.left.buffer = Append(@, u), !.states[k] = Append(@, <<t, t>>)]
       [] OTHER -> [acc EXCEPT !.left.buffer = Append(@, u)]

(***************************************************************************)
(* One left node in the pass that a right tuple t makes over the left      *)
(* buffer: when the right threshold has passed its window, its state is    *)
(* emitted and removed and the node erased; when t is in its window, t is  *)
(* added to its state.  The state is looked up by the printed value of the *)
(* cell, and nothing happens when there is none.                           *)
(***************************************************************************)
RightNode(acc, u, t, threshold) ==
  LET k == Att(acc.left, u)
  IN CASE k < threshold - ResampleWindow ->
            [acc EXCEPT
               !.out = IF k \in DOMAIN acc.states THEN Append(@, <<k, acc.states[k]>>) ELSE @,
               !.states = [j \in DOMAIN @ \ {k} |-> @[j]]]
       [] k >= threshold - ResampleWindow /\ Near(acc.left, u, t) /\ k \in DOMAIN acc.states ->
            [acc EXCEPT !.left.buffer = Append(@, u), !.states[k] = Append(@, <<t, t>>)]
       [] OTHER -> [acc EXCEPT !.left.buffer = Append(@, u)]

RightTuple(acc, t) ==
  LET arrived == Arrive(acc.right, t)
      right   == Raise(arrived, t, ResampleSlack[2])
      swept   == FoldLeft(LAMBDA a, u : RightNode(a, u, t, Threshold(right)),
                          [acc EXCEPT !.left.buffer = <<>>], acc.left.buffer)
  IN IF t.v < Threshold(arrived) THEN [acc EXCEPT !.right = arrived]
     ELSE [swept EXCEPT !.right = PushBack(right, t)]

DoResample(state, left, right) ==
  LET start == [left |-> state.left, right |-> state.right, states |-> state.states, out |-> <<>>]
      done  == FoldLeft(RightTuple, FoldLeft(LeftTuple, start, left), right)
  IN BoxOut([left |-> done.left, right |-> done.right, states |-> done.states],
            <<done.out>>, <<Len(done.out)>>)
=============================================================================
