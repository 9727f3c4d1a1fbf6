-------------------------- MODULE ReliableStreams --------------------------
(***************************************************************************)
(* What a query network promises to an application, with no box, queue or  *)
(* thread in sight: sources number the tuples they send, and every sink    *)
(* receives the tuples of a source in the order sent, each one once, and   *)
(* none before the one ahead of it.  Nothing is said of how the sources    *)
(* interleave.                                                             *)
(***************************************************************************)
EXTENDS Naturals, Sequences

CONSTANTS Sources, Sinks

VARIABLES
  sent,           \* how many tuples each source has sent
  recv            \* what each sink has received

Init ==
  /\ sent = [s \in Sources |-> 0]
  /\ recv = [k \in Sinks |-> <<>>]

Send(s) ==
  /\ sent' = [sent EXCEPT ![s] = @ + 1]
  /\ UNCHANGED recv

\* The tuples of source s in q are the first so many that s sent, in order.
InOrder(s, q) ==
  LET ofSource == {i \in DOMAIN q : q[i][1] = s} IN
  /\ \A i, j \in ofSource : i < j => q[i][2] < q[j][2]
  /\ \E n \in 0..sent[s] : {q[i][2] : i \in ofSource} = 1..n

Receive(k) ==
  /\ Len(recv'[k]) > Len(recv[k])
  /\ SubSeq(recv'[k], 1, Len(recv[k])) = recv[k]
  /\ \A s \in Sources : InOrder(s, recv'[k])
  /\ \A j \in Sinks \ {k} : recv'[j] = recv[j]
  /\ UNCHANGED sent

Next ==
  \/ \E s \in Sources : Send(s)
  \/ \E k \in Sinks : Receive(k)

Spec == Init /\ [][Next]_<<sent, recv>>
=============================================================================
