------------------------------ MODULE Catalog ------------------------------
(***************************************************************************)
(* The query network as the runtime sees it: boxes, the arcs between them, *)
(* the ordered arc lists that the scheduler keeps per box (_bqm), and the  *)
(* mutex of every box.  The network is loaded once and never changes while *)
(* the scheduler runs, so it is a constant; the box mutexes are state.     *)
(***************************************************************************)
EXTENDS Integers, Sequences, FiniteSets

CONSTANTS
  Boxes,            \* box ids: small integers, they index arrays in the code
  Arcs,             \* arc ids
  NoBox,            \* the source of an input arc, the destination of an app arc
  SrcId,            \* Arcs::getSrcId: the box that writes an arc
  DestId,           \* Arcs::getDestId: the box that reads an arc
  InputQueueIds,    \* _bqm[b]._input_queue_id: the input arcs of b, in order
  OutputQueueIds    \* _bqm[b]._output_queue_id: the output arcs of b, in order

VARIABLE
  boxLocked         \* the boxes whose pthread mutex is held

InputArcs == {a \in Arcs : SrcId[a] = NoBox}
AppArcs   == {a \in Arcs : DestId[a] = NoBox}

InArcs(b)  == {InputQueueIds[b][i] : i \in 1..Len(InputQueueIds[b])}
OutArcs(b) == {OutputQueueIds[b][i] : i \in 1..Len(OutputQueueIds[b])}

(***************************************************************************)
(* What the loaded network satisfies: the arc lists and the end points of  *)
(* the arcs agree, an arc occurs once in a list, and every box has an      *)
(* input (findEligibleBox_* asserts it) and an output (WorkerThread::run   *)
(* dereferences the first arc of every output port).                       *)
(***************************************************************************)
NoRepeat(s) == \A i, j \in 1..Len(s) : s[i] = s[j] => i = j

ASSUME CatalogAssumption ==
  /\ Boxes \subseteq Nat
  /\ IsFiniteSet(Boxes)
  /\ IsFiniteSet(Arcs)
  /\ NoBox \notin Boxes
  /\ SrcId \in [Arcs -> Boxes \cup {NoBox}]
  /\ DestId \in [Arcs -> Boxes \cup {NoBox}]
  /\ InputQueueIds \in [Boxes -> Seq(Arcs)]
  /\ OutputQueueIds \in [Boxes -> Seq(Arcs)]
  /\ \A b \in Boxes :
       /\ InArcs(b) = {a \in Arcs : DestId[a] = b}
       /\ OutArcs(b) = {a \in Arcs : SrcId[a] = b}
       /\ InArcs(b) # {}
       /\ OutArcs(b) # {}
       /\ NoRepeat(InputQueueIds[b])
       /\ NoRepeat(OutputQueueIds[b])

\* As LockBoxTry below would be if its callers did not look at the result.
LockBoxUnchecked(b) == boxLocked' = boxLocked \cup {b}

(***************************************************************************)
(* Boxes::lockBoxTry and Boxes::unlockBox: pthread_mutex_trylock by the    *)
(* scheduler thread, pthread_mutex_unlock by the worker that ran the box.  *)
(***************************************************************************)
LockBoxTry(b) == b \notin boxLocked /\ boxLocked' = boxLocked \cup {b}
UnlockBox(b)  == boxLocked' = boxLocked \ {b}

CatalogInit == boxLocked = {}
=============================================================================
