----------------------------- MODULE BufferList -----------------------------
(***************************************************************************)
(* The window buffer of one input of a Join or Resample: the buffered      *)
(* tuples, and a threshold below which the input is late.  Slack is how    *)
(* many values above the threshold the buffer tolerates before it raises   *)
(* the threshold.                                                          *)
(*                                                                         *)
(* The order-by value of a tuple is copied once to a cell of the heap, and *)
(* the node in the buffer, the vector and the threshold are pointers to    *)
(* cells.  setThreshold stores the pointer, and increaseThreshold adds one *)
(* to what it points at: the tuple that set the threshold changes its      *)
(* value with it.  So the model keeps the cells: att maps the id of a      *)
(* tuple to the present value of its cell, and thr is the id of the cell   *)
(* that is the threshold (0: the buffer's own, not read before it is set). *)
(***************************************************************************)
EXTENDS QBox, FiniteSetsExt

EmptyBufferList ==
  [att |-> [c \in {} |-> 0], buffer |-> <<>>, thr |-> 0, vec |-> {}, slack |-> 0]

Threshold(bl)  == bl.att[bl.thr]
Att(bl, t)     == bl.att[t.id]
IsEmpty(bl)    == bl.buffer = <<>>

PushBack(bl, t)      == [bl EXCEPT !.buffer = Append(@, t)]
SetThreshold(bl, t)  == [bl EXCEPT !.thr = t.id]
IncreaseSlack(bl)    == [bl EXCEPT !.slack = @ + 1]

\* The new cell of a tuple, and addToVector, which is called for every tuple.
AddToVector(bl, t) ==
  [bl EXCEPT !.att = [c \in DOMAIN @ \cup {t.id} |-> IF c = t.id THEN t.v ELSE @[c]],
             !.vec = @ \cup {t.id}]

(***************************************************************************)
(* The loop of increaseThreshold, countAndClearVector and setSlack: while  *)
(* the slack is used up, add one to the threshold, forget the values up to *)
(* it and count the rest.  It ends at the first value above the threshold  *)
(* that leaves at most maxSlack values above itself.                       *)
(***************************************************************************)
AdvanceThreshold(bl, maxSlack) ==
  IF bl.slack <= maxSlack THEN bl
  ELSE LET Above(u) == {c \in bl.vec \ {bl.thr} : bl.att[c] > u}
           tops == {bl.att[c] : c \in bl.vec} \cup {Threshold(bl) + 1}
           t == Min({u \in (Threshold(bl) + 1)..Max(tops) : Cardinality(Above(u)) <= maxSlack})
       IN [bl EXCEPT !.att[bl.thr] = t, !.vec = Above(t), !.slack = Cardinality(Above(t))]

\* erase: what lies more than a window below the threshold of the other input.
Erase(bl, threshold, size) ==
  [bl EXCEPT !.buffer = Sift(@, {i \in DOMAIN @ : threshold - Att(bl, @[i]) <= size})]

\* The cell of a tuple no longer holds the value the tuple came with.
Moved(bl, t) == t.id \in DOMAIN bl.att /\ bl.att[t.id] # t.v
=============================================================================
