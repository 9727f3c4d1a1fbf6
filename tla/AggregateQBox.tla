---------------------------- MODULE AggregateQBox ----------------------------
(***************************************************************************)
(* The sliding-window aggregate, with windows counted in tuples or in      *)
(* values of the order-by field, per group.  Every window has a state; the *)
(* model keeps the tuples that were added to it instead of their aggregate,*)
(* and the second in which the state was made (ts).                        *)
(* `now' is what gettimeofday says while a train is processed; win is the  *)
(* window of the box, [size, advance]: _window_size and _int_advance.      *)
(*                                                                         *)
(* Groups, and the timed-out states of a group, are visited in the order   *)
(* of a hash table; the model visits them in ascending order.              *)
(***************************************************************************)
EXTENDS QBox, FiniteSetsExt

CONSTANTS
  AggSlack,        \* _slack
  Timeout          \* _timeout, below 10000: states time out in both modes

NoGroups == [g \in {} |-> <<>>]

With(f, x, y) == [z \in DOMAIN f \cup {x} |-> IF z = x THEN y ELSE f[z]]
Ascending(S)  == SetToSortSeq(S, <)
Window(g, start, w) == [g |-> g, start |-> start, tuples |-> w.tuples]
TooOld(w, now) == now - w.ts > Timeout

-----------------------------------------------------------------------------
(* Windows by tuples: a group has a store of open windows, oldest first.   *)

\* clearTupleStore: never more than the store holds.
ClearTupleStore(store, num) ==
  SubSeq(store, (IF num > Len(store) THEN Len(store) ELSE num) + 1, Len(store))

(***************************************************************************)
(* timeoutStatesForWinByTuples on one group: while the oldest window is    *)
(* too old, emit it and clear the store by the advance.  Windows are made  *)
(* in order, so the old ones come first, and every advance-th is emitted.  *)
(***************************************************************************)
TimedOutCount(win, store, now) ==
  (Cardinality({i \in DOMAIN store : TooOld(store[i], now)}) + win.advance - 1) \div win.advance

TimeOutStores(win, acc, now) ==
  LET groups == Ascending(DOMAIN acc.groups)
      Of(g) == LET store == acc.groups[g]
               IN [k \in 1..TimedOutCount(win, store, now) |->
                     Window(g, store[1 + (k - 1) * win.advance].start, store[1 + (k - 1) * win.advance])]
  IN [groups |-> [g \in DOMAIN acc.groups |->
                    ClearTupleStore(acc.groups[g], win.advance * TimedOutCount(win, acc.groups[g], now))],
      out |-> acc.out \o FlattenSeq([i \in DOMAIN groups |-> Of(groups[i])])]

\* A new window for the tuple, which is added to every window of its group.
AddToTupleStore(store, t, now) ==
  Append([i \in DOMAIN store |-> [store[i] EXCEPT !.tuples = Append(@, t)]],
         [start |-> t.v, ts |-> now, tuples |-> <<t>>])

\* One round of the loop of doBox: the oldest window is emitted when it is full.
ByTuples(win, acc, t, now) ==
  LET timed == TimeOutStores(win, acc, now)
      old   == IF t.g \in DOMAIN timed.groups THEN timed.groups[t.g] ELSE <<>>
      store == AddToTupleStore(old, t, now)
  IN IF Len(store) = win.size
     THEN [groups |-> With(timed.groups, t.g, ClearTupleStore(store, win.advance)),
           out |-> Append(timed.out, Window(t.g, store[1].start, store[1]))]
     ELSE [groups |-> With(timed.groups, t.g, store), out |-> timed.out]

-----------------------------------------------------------------------------
(* Windows by values: a group has a state per window, which is named by    *)
(* its first value, the last value a state covers, and a threshold below   *)
(* which tuples are late, with the values above it in a vector.            *)

OpenAt(starts, now) == [s \in starts |-> [ts |-> now, tuples |-> <<>>]]

\* The first tuple of a group: its own window and the earlier ones that cover it.
NewGroup(win, t, now) ==
  [states |-> OpenAt({t.v - j * win.advance : j \in 0..((win.size - 1) \div win.advance)}, now),
   last |-> t.v + win.size - 1, thr |-> t.v, vec |-> <<t.v>>, slack |-> 0]

\* A later tuple: its value joins the vector, and windows are opened up to it.
OldGroup(win, group, t, now) ==
  LET first == group.last - win.size + 1
      more  == {s \in (first + win.advance)..t.v : (s - first) % win.advance = 0}
  IN [group EXCEPT
        !.vec = Append(@, t.v),
        !.states = [s \in DOMAIN @ \cup more |-> IF s \in DOMAIN @ THEN @[s] ELSE OpenAt(more, now)[s]],
        !.last = IF more = {} THEN @ ELSE Max(more) + win.size - 1]

\* As IncrStates below would be with a window one value longer.
IncrStatesWide(win, group, t) ==
  IF t.v < group.thr THEN group
  ELSE [group EXCEPT !.states = [s \in DOMAIN @ |->
          IF t.v - win.size <= s /\ s <= t.v
          THEN [@[s] EXCEPT !.tuples = Append(@, t)] ELSE @[s]]]

\* incrStates: a tuple that is not late is added to every window that covers it.
IncrStates(win, group, t) ==
  IF t.v < group.thr THEN group
  ELSE [group EXCEPT !.states = [s \in DOMAIN @ |->
          IF t.v - win.size + 1 <= s /\ s <= t.v
          THEN [@[s] EXCEPT !.tuples = Append(@, t)] ELSE @[s]]]

\* emitTuple and closeState for a set of states of a group.
Emit(out, g, group, starts) ==
  out \o [i \in 1..Cardinality(starts) |->
            Window(g, Ascending(starts)[i], group.states[Ascending(starts)[i]])]
CloseStates(group, starts) ==
  [group EXCEPT !.states = [s \in DOMAIN @ \ starts |-> @[s]]]

\* timeoutStates: every state of every group that is too old.
TimeOutStates(acc, now) ==
  LET Old(g) == {s \in DOMAIN acc.groups[g].states : TooOld(acc.groups[g].states[s], now)}
      groups == Ascending(DOMAIN acc.groups)
  IN [groups |-> [g \in DOMAIN acc.groups |-> CloseStates(acc.groups[g], Old(g))],
      out |-> FoldLeft(LAMBDA o, g : Emit(o, g, acc.groups[g], Old(g)), acc.out, groups)]

\* The loop of updateThresholdAndSlack: as long as the slack is used up, one
\* more on the threshold, and the values up to it leave the vector.
RaiseThreshold(group, t) ==
  IF t.v <= group.thr THEN group
  ELSE IF group.slack + 1 <= AggSlack THEN [group EXCEPT !.slack = @ + 1]
  ELSE LET Above(u) == SelectSeq(group.vec, LAMBDA w : w > u)
           thr == Min({u \in (group.thr + 1)..Max(ToSet(group.vec)) : Len(Above(u)) <= AggSlack})
       IN [group EXCEPT !.thr = thr, !.vec = Above(thr), !.slack = Len(Above(thr))]

\* updateThresholdAndSlack: the windows that the threshold has passed are final.
UpdateThresholdAndSlack(win, acc, t) ==
  LET group == RaiseThreshold(acc.groups[t.g], t)
      done  == {s \in DOMAIN group.states : s + win.size - 1 < group.thr}
  IN [groups |-> [acc.groups EXCEPT ![t.g] = CloseStates(group, done)],
      out |-> Emit(acc.out, t.g, group, done)]

ByValues(win, acc, t, now) ==
  LET group == IF t.g \in DOMAIN acc.groups THEN OldGroup(win, acc.groups[t.g], t, now)
               ELSE NewGroup(win, t, now)
      added == [acc EXCEPT !.groups = With(@, t.g, IncrStates(win, group, t))]
  IN UpdateThresholdAndSlack(win, TimeOutStates(added, now), t)

-----------------------------------------------------------------------------
DoAggregate(win, byTuples, groups, train, now) ==
  LET Step(acc, t) == IF byTuples THEN ByTuples(win, acc, t, now) ELSE ByValues(win, acc, t, now)
      done == FoldLeft(Step, [groups |-> groups, out |-> <<>>], train)
  IN BoxOut(done.groups, <<done.out>>, <<Len(done.out)>>)
=============================================================================
