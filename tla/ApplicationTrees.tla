-------------------------- MODULE ApplicationTrees --------------------------
(***************************************************************************)
(* What the constructor of the scheduler computes for SCHED_BY_APP: the    *)
(* tree of boxes behind every application arc, and the order in which a    *)
(* superbox of that tree is to run its boxes.  These are the values of     *)
(* Trees and Traversals.                                                   *)
(***************************************************************************)
EXTENDS Applications

LOCAL INSTANCE SequencesExt
LOCAL INSTANCE TLC

CONSTANT
  BoxCost         \* Boxes::getCost; the boxes of the model have selectivity 1

ASSUME CostAssumption == BoxCost \in [Boxes -> Nat \ {0}]

\* traverseApplicationTree: the nodes below an arc, after those found so far.
RECURSIVE TraverseApplicationTree(_, _, _)
TraverseApplicationTree(b, from, found) ==
  LET Input(acc, a) ==
        LET src == SrcId[a] IN
        IF src = NoBox \/ src \in DOMAIN acc.nodes
        THEN [acc EXCEPT !.inputs = Append(@, NoBox)]
        ELSE [nodes  |-> TraverseApplicationTree(src, a, acc.nodes),
              inputs |-> Append(acc.inputs, src)]
      all == FoldLeft(Input, [nodes |-> found, inputs |-> <<>>], InputQueueIds[b])
  IN all.nodes @@ (b :> [out |-> from, inputs |-> all.inputs])

\* loadApplicationTree, for every application.
LoadedTrees == [k \in Apps |-> TraverseApplicationTree(RootBox(k), AppV[k], <<>>)]

Feeders(k, b)  == SelectSeq(Trees[k][b].inputs, LAMBDA c : c # NoBox)
ParentOf(k, b) == IF b = RootBox(k) THEN NoBox
                  ELSE CHOOSE p \in InTree(k) : b \in FeedersOf(k, p)

-----------------------------------------------------------------------------
\* traversePostOrder, which MIN_COST runs the boxes in.
RECURSIVE PostOrder(_, _)
PostOrder(k, b) ==
  FlattenSeq([i \in DOMAIN Feeders(k, b) |-> PostOrder(k, Feeders(k, b)[i])]) \o <<b>>

\* toRootTraversal: the boxes from b to the root, and what they cost together.
RECURSIVE ToRoot(_, _)
ToRoot(k, b) == IF b = NoBox THEN <<>> ELSE <<b>> \o ToRoot(k, ParentOf(k, b))

PathCost(k, b) ==
  FoldLeft(LAMBDA sum, c : sum + BoxCost[c], 0, ToRoot(k, b))

\* generateMinLatencyTraversals: the ways to the root of all the boxes, the
\* cheapest first (std::sort leaves the order of equal costs open).
MinLatencyTraversals(k) ==
  {FlattenSeq([i \in DOMAIN s |-> ToRoot(k, s[i])]) :
     s \in {p \in SetToSeqs(InTree(k)) :
              \A i, j \in DOMAIN p : i < j => PathCost(k, p[i]) <= PathCost(k, p[j])}}

(***************************************************************************)
(* generateMinMemoryTraversals: the boxes by the memory they release; the  *)
(* first that is available is taken, and makes its parent available again. *)
(* With selectivity 1 no box releases memory: random_shuffle decides.      *)
(***************************************************************************)
RECURSIVE MinMemory(_, _, _)
MinMemory(k, byMemory, avail) ==
  IF avail = {} THEN <<>>
  ELSE LET first  == SelectSeq(byMemory, LAMBDA c : c \in avail)[1]
           parent == ParentOf(k, first)
       IN <<first>> \o MinMemory(k, byMemory, (avail \ {first}) \cup ({parent} \ {NoBox}))

MinMemoryTraversals(k) == {MinMemory(k, s, InTree(k)) : s \in SetToSeqs(InTree(k))}

\* createSingleTraversal, for every type and application.
LoadedTraversals ==
  [type \in TraversalTypes |-> [k \in Apps |->
     CASE type = "MIN_COST"    -> {PostOrder(k, RootBox(k))}
       [] type = "MIN_LATENCY" -> MinLatencyTraversals(k)
       [] type = "MIN_MEMORY"  -> MinMemoryTraversals(k)]]
=============================================================================
