------------------------------ MODULE BSortQBox ------------------------------
(***************************************************************************)
(* Buffer sort: one ordered buffer per group, of at most slack tuples      *)
(* between two arrivals; the arrival that makes it slack + 1 pushes the    *)
(* lowest tuple out.  The state, _buffer_hash, is a function from the      *)
(* groups seen so far to their buffers.                                    *)
(***************************************************************************)
EXTENDS QBox

CONSTANT BSortSlack          \* _slack

NoBuffers == [g \in {} |-> <<>>]

\* As InsertPosition below would be with > where the code has >=.
InsertPositionLoose(buffer, t) ==
  1 + Cardinality({i \in DOMAIN buffer : buffer[i].v < t.v})

(***************************************************************************)
(* addIntToBuffer, addFloatToBuffer, addStringToBuffer: in front when less *)
(* than the front, at the back when not less than the back, and otherwise  *)
(* before the first greater node.  In a sorted buffer that is: after every *)
(* node that is not greater.                                               *)
(***************************************************************************)
InsertPosition(buffer, t) ==
  IF buffer # <<>> /\ t.v >= Last(buffer).v THEN Len(buffer) + 1
  ELSE IF \E i \in DOMAIN buffer : t.v < buffer[i].v
       THEN CHOOSE i \in DOMAIN buffer :
              t.v < buffer[i].v /\ \A j \in 1..(i - 1) : ~(t.v < buffer[j].v)
       ELSE 1

\* addToBuffer: a group that was never seen gets a buffer of its own.
AddToBuffer(buffers, t) ==
  LET old == IF t.g \in DOMAIN buffers THEN buffers[t.g] ELSE <<>>
      new == InsertAt(old, InsertPosition(old, t), t)
  IN [h \in DOMAIN buffers \cup {t.g} |-> IF h = t.g THEN new ELSE buffers[h]]

\* One round of the loop of doBox: add, and emitLowest when the buffer is full.
BSortTuple(acc, t) ==
  LET buffers == AddToBuffer(acc.buffers, t)
  IN IF Len(buffers[t.g]) = BSortSlack + 1
     THEN [buffers |-> [buffers EXCEPT ![t.g] = Tail(@)],
           out |-> Append(acc.out, Head(buffers[t.g]))]
     ELSE [buffers |-> buffers, out |-> acc.out]

DoBSort(buffers, train) ==
  LET done[n \in 0..Len(train)] ==
        IF n = 0 THEN [buffers |-> buffers, out |-> <<>>]
        ELSE BSortTuple(done[n - 1], train[n])
      all == done[Len(train)]
  IN BoxOut(all.buffers, <<all.out>>, <<Len(all.out)>>)
=============================================================================
