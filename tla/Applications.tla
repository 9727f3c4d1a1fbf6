---------------------------- MODULE Applications ----------------------------
(***************************************************************************)
(* The applications of SCHED_BY_APP: one per application arc, with a mutex *)
(* each, the tree of boxes behind that arc, and the orders in which a      *)
(* superbox of that tree may run its boxes.  How the constructor of the    *)
(* scheduler builds trees and orders is ApplicationTrees; what follows     *)
(* needs only what is assumed here of them.                                *)
(*                                                                         *)
(* A tree is a function from its boxes to nodes: the arc by which a box    *)
(* leaves towards the root, and for each of its input arcs the box on the  *)
(* other side, or NoBox for a stream or for a box that is in the tree      *)
(* already by another way.                                                 *)
(***************************************************************************)
EXTENDS Catalog

CONSTANTS
  AppV,           \* _app_v: the application arcs, in the order of their ids
  Trees,          \* _app_tree_v: the tree of every application
  Traversals      \* by _traversal_type and application: the orders that may result

VARIABLE
  appLocked       \* the applications whose mutex (_app_mutexes) is held

Apps           == DOMAIN AppV
TraversalTypes == {"MIN_COST", "MIN_LATENCY", "MIN_MEMORY"}

RootBox(k) == SrcId[AppV[k]]
TreeBoxes  == [k \in Apps |-> DOMAIN Trees[k]]
InTree(k)  == TreeBoxes[k]

FeedersOf(k, b) ==
  {Trees[k][b].inputs[i] : i \in DOMAIN Trees[k][b].inputs} \ {NoBox}

\* The arcs of a tree: every box but the root leaves by one of them.
TreeArcs(k) == {Trees[k][b].out : b \in InTree(k) \ {RootBox(k)}}

\* The applications that share no box with another one.
Unshared == {k \in Apps : \A j \in Apps \ {k} : InTree(k) \cap InTree(j) = {}}

\* The boxes that are in the trees of two applications.
SharedBoxes == {b \in Boxes : \E j, k \in Apps : j # k /\ b \in InTree(j) \cap InTree(k)}

(***************************************************************************)
(* A tree has boxes only, its root among them, and follows their inputs;   *)
(* every traversal comes by all the boxes of the tree, and by no others.   *)
(***************************************************************************)
ASSUME ApplicationsAssumption ==
  /\ {AppV[k] : k \in Apps} = AppArcs
  /\ NoRepeat(AppV)
  /\ \A k \in Apps :
       /\ InTree(k) \subseteq Boxes
       /\ RootBox(k) \in InTree(k)
       /\ \A b \in InTree(k) :
            /\ Trees[k][b].inputs \in Seq(InTree(k) \cup {NoBox})
            /\ Len(Trees[k][b].inputs) = Len(InputQueueIds[b])
  /\ \A type \in TraversalTypes, k \in Apps :
       \A s \in Traversals[type][k] :
         s \in Seq(Boxes) /\ {s[i] : i \in DOMAIN s} = InTree(k)

(***************************************************************************)
(* The nodes fit together: the root leaves by the application arc, and     *)
(* the other boxes by an arc to a box of the tree, which has them on the   *)
(* other side of that arc, and NoBox on the other side of its other arcs.  *)
(* No traversal leaves a box behind its last way to the root: wherever it  *)
(* comes by a box, it comes by the one above it later.                     *)
(***************************************************************************)
ASSUME TreesAssumption ==
  \A k \in Apps :
    /\ Trees[k][RootBox(k)].out = AppV[k]
    /\ \A b \in InTree(k) :
         /\ Trees[k][b].out \in OutArcs(b)
         /\ b # RootBox(k) => DestId[Trees[k][b].out] \in InTree(k)
         /\ \A i \in 1..Len(InputQueueIds[b]) :
              Trees[k][b].inputs[i] = IF InputQueueIds[b][i] \in TreeArcs(k)
                                      THEN SrcId[InputQueueIds[b][i]] ELSE NoBox
    /\ \A type \in TraversalTypes : \A s \in Traversals[type][k] :
         \A m \in DOMAIN s : s[m] # RootBox(k) =>
           \E n \in DOMAIN s : m < n /\ s[n] = DestId[Trees[k][s[m]].out]

\* The part of a sequence that is in a set, as a loop that goes through it.
KeptOf(s, S) ==
  LET kept[n \in 0..Len(s)] ==
        IF n = 0 THEN <<>>
        ELSE IF s[n] \in S THEN Append(kept[n - 1], s[n]) ELSE kept[n - 1]
  IN kept[Len(s)]
=============================================================================
