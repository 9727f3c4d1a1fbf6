---------------------------- MODULE PriorityGrid ----------------------------
(***************************************************************************)
(* Scheduling by buckets.  Every box has a graph of the utility its output *)
(* loses with latency, averaged over its applications.  The latencies are  *)
(* cut into buckets, and for each bucket a box has a cell of a grid: how   *)
(* steep its graph falls there (slope) and how long it does (slack).  The  *)
(* scheduler puts every box with a full window into the cell of its        *)
(* latency and takes boxes from the steepest cells first, and from those   *)
(* with the least slack first among these.                                 *)
(*                                                                         *)
(* In the mode "box" a search (findEligibleBox_Bucketing1) fills the grid  *)
(* and then empties it from the top; in the mode "app" it (findEligible-   *)
(* Box_Bucketing) walks a list of all boxes and their cells by urgency and *)
(* does both at once.  Streams and workers run between the steps.          *)
(***************************************************************************)
EXTENDS Integers, SequencesExt

CONSTANTS
  GridCases,      \* records of the mode, the graphs and the boxes
  NumBuckets,     \* _num_buckets
  GridLatencies   \* bound: the average latencies the boxes are found with

VARIABLES
  gcase,          \* the case at hand
  gridPointers,   \* _grid_pointers: for each box the cell of each bucket (at)
  urgencyList,    \* _urgency_list_v: boxes and cells, the most urgent first
  location,       \* _current_grid_location of each box
  boxList,        \* _box_list of each cell
  gphase,         \* "idle", "look", "load" or "abort"
  untestedBoxes,  \* the boxes of the copied work set that are not looked at
  gridCandidates, \* _candidates_v
  walk,           \* "app": the next entry of the list, and _current_assigned_count
  lockedBoxes,    \* the boxes whose mutex is taken
  withWorker,     \* those of them that a worker was given
  windowed,       \* the boxes with a full window on some input
  stoppedShort,   \* history: a search in mode "app" came to its limit
  foundRemains    \* history: one began with boxes of an earlier one in the grid

gridHistory == <<stoppedShort, foundRemains>>
gridSearch == <<gphase, untestedBoxes, gridCandidates, walk, gridHistory>>
gridPlaces == <<location, boxList>>
gridFixed  == <<gcase, gridPointers, urgencyList>>
gridVars == <<gridFixed, gridPlaces, gridSearch, lockedBoxes, withWorker, windowed>>

GridBoxes == DOMAIN gcase.apps
NoCell == <<-1, -1>>
Placed == {b \in GridBoxes : location[b] # NoCell}
Cells == (0..(NumBuckets - 1)) \X (0..(NumBuckets - 1))  \* slack and slope

QosPoints == [x : Nat, y : Int]
LastX(g) == g[Len(g)].x

(***************************************************************************)
(* The graphs of applications are of utilities at ascending latencies.     *)
(* Every box has an application, and some box costs less than the graph of *)
(* one of its applications lasts: without any, no latency has a bucket.    *)
(***************************************************************************)
ASSUME GridAssumption ==
  /\ NumBuckets \in Nat \ {0}
  /\ GridLatencies \subseteq Nat
  /\ \A c \in GridCases :
       /\ c.mode \in {"box", "app"}
       /\ DOMAIN c.qos \subseteq Nat /\ IsFiniteSet(DOMAIN c.qos)
       /\ \A a \in DOMAIN c.qos :
            /\ c.qos[a] \in Seq(QosPoints)
            /\ c.qos[a] # <<>>
            /\ \A i, j \in DOMAIN c.qos[a] : i < j => c.qos[a][i].x < c.qos[a][j].x
       /\ DOMAIN c.apps \subseteq Nat /\ IsFiniteSet(DOMAIN c.apps)
       /\ \A b \in DOMAIN c.apps :
            c.apps[b] # {} /\ c.apps[b] \subseteq DOMAIN c.qos /\ c.cost[b] \in Nat
       /\ \E b \in DOMAIN c.apps : \E a \in c.apps[b] : LastX(c.qos[a]) > c.cost[b]

\* The elements of a finite set of numbers, in ascending order.
Ascending(S) ==
  [n \in 1..Cardinality(S) |-> CHOOSE x \in S : Cardinality({y \in S : y < x}) = n - 1]

\* The part of a list that is in a set.
Keep(s, S) ==
  LET at == Ascending({i \in DOMAIN s : s[i] \in S}) IN [n \in DOMAIN at |-> s[at[n]]]

-----------------------------------------------------------------------------
(* Fractions <<n, d>> with d > 0.                                          *)

Plus(a, b)    == <<a[1] * b[2] + b[1] * a[2], a[2] * b[2]>>
Over(a, n)    == <<a[1], a[2] * n>>
Exceeds(a, b) == a[1] * b[2] > b[1] * a[2]
Positive(a)   == <<IF a[1] < 0 THEN -a[1] ELSE a[1], a[2]>>
Largest(S)    == CHOOSE a \in S : \A b \in S : ~Exceeds(b, a)
Highest(S)    == CHOOSE n \in S : \A m \in S : m <= n

\* The fall of a graph per unit of latency, from its point i - 1 to its point i.
Slope(g, i) ==
  Over(<<g[i - 1].y[1] * g[i].y[2] - g[i].y[1] * g[i - 1].y[2], g[i].y[2] * g[i - 1].y[2]>>,
       g[i].x - g[i - 1].x)

\* The utility at x of a graph of an application: 0 from its last point on.
FindYGivenXAndQos(x, g) ==
  LET under == {i \in 1..(Len(g) - 1) : g[i].x <= x /\ x < g[i + 1].x}
  IN IF under = {} THEN <<0, 1>>
     ELSE LET i == CHOOSE j \in under : TRUE
          IN <<g[i].y * (g[i + 1].x - g[i].x) + (g[i + 1].y - g[i].y) * (x - g[i].x),
               g[i + 1].x - g[i].x>>

\* The sum of what the applications of a box have at x, one after the other.
TotalY(c, b, x) ==
  LET apps == Ascending(c.apps[b])
      total[n \in 0..Len(apps)] ==
        IF n = 0 THEN <<0, 1>> ELSE Plus(FindYGivenXAndQos(x, c.qos[apps[n]]), total[n - 1])
  IN total[Len(apps)]

\* The graph of a box: at every x of its applications the average utility,
\* moved left by the cost from the box to the root.  Of the points that come
\* to lie at or before zero, only the very first is kept.
LoadBoxQosGraph(c, b) ==
  LET xs   == UNION {{c.qos[a][i].x : i \in DOMAIN c.qos[a]} : a \in c.apps[b]}
      kept == Ascending({Ascending(xs)[1]} \cup {x \in xs : x > c.cost[b]})
  IN [i \in DOMAIN kept |->
        [x |-> Highest({0, kept[i] - c.cost[b]}),
         y |-> Over(TotalY(c, b, kept[i]), Cardinality(c.apps[b]))]]

\* The points of g in bucket i: those after its start, up to the first that is
\* not before its end.
InBucket(g, i, max) ==
  {j \in DOMAIN g : /\ g[j].x * NumBuckets > i * max.latency
                    /\ \A k \in 1..(j - 1) : g[k].x * NumBuckets < (i + 1) * max.latency}

Beyond(g, i, max) == LastX(g) * NumBuckets <= i * max.latency
Capped(bucket) == IF bucket = NumBuckets THEN NumBuckets - 1 ELSE bucket

CalcSlackBucket(g, i, max) ==
  LET slacks == {g[j].x * NumBuckets - Highest({g[j - 1].x * NumBuckets, i * max.latency}) : j \in InBucket(g, i, max)}
  IN IF Beyond(g, i, max) THEN -1 ELSE Capped(Highest({0} \cup slacks) \div max.slack)

\* As CalcSlopeBucket below would be if the loop stopped at the first point.
CalcFirstSlopeBucket(g, i, max) ==
  LET j == CHOOSE k \in InBucket(g, i, max) : \A l \in InBucket(g, i, max) : k <= l
      steepest == Largest({<<0, 1>>, Slope(g, j)})
  IN IF Beyond(g, i, max) \/ max.slope[1] = 0 THEN -1
     ELSE Capped((steepest[1] * max.slope[2] * (NumBuckets - 1)) \div (steepest[2] * max.slope[1]))

\* 0/0 is not a number, and the build makes a negative integer of it.
CalcSlopeBucket(g, i, max) ==
  LET steepest == Largest({<<0, 1>>} \cup {Slope(g, j) : j \in InBucket(g, i, max)})
  IN IF Beyond(g, i, max) \/ max.slope[1] = 0 THEN -1
     ELSE Capped((steepest[1] * max.slope[2] * (NumBuckets - 1)) \div (steepest[2] * max.slope[1]))

\* The cell of bucket i.
LoadGridPointers(g, i, max) ==
  LET slack == CalcSlackBucket(g, i, max)
      slope == CalcSlopeBucket(g, i, max)
  IN IF slack >= 0 /\ slope >= 0 THEN <<slack, slope>> ELSE NoCell

\* The graphs and the points of them that another one comes before.
Steps(graphs) == UNION {{<<graphs[b], i>> : i \in 2..Len(graphs[b])} : b \in DOMAIN graphs}

Extremes(graphs) ==
  [slack   |-> Highest({0} \cup {s[1][s[2]].x - s[1][s[2] - 1].x : s \in Steps(graphs)}),
   slope   |-> Largest({<<0, 1>>} \cup {Positive(Slope(s[1], s[2])) : s \in Steps(graphs)}),
   latency |-> Highest({LastX(graphs[b]) : b \in DOMAIN graphs})]

\* calcSlackBucket asserts that no graph begins after the latency 0.
Rooted(graphs) == \A b \in DOMAIN graphs : graphs[b][1].x = 0

InitGridPointers(c) ==
  LET graphs == [b \in DOMAIN c.apps |-> LoadBoxQosGraph(c, b)]
      max    == Extremes(graphs)
  IN [graphs |-> graphs, max |-> max,
      at |-> [b \in DOMAIN graphs |-> [i \in 0..(NumBuckets - 1) |->
                IF Rooted(graphs) THEN LoadGridPointers(graphs[b], i, max) ELSE NoCell]]]

\* As CellAt below would be if the least slack went before the steepest slope.
CellBySlack(k) == <<(k - 1) \div NumBuckets, NumBuckets - 1 - ((k - 1) % NumBuckets)>>

\* The cells in the order in which they are served, and the boxes of each.
CellAt(k) == <<(k - 1) % NumBuckets, NumBuckets - 1 - ((k - 1) \div NumBuckets)>>
InOrderOfCells(Boxes(_)) == FlattenSeq([k \in 1..(NumBuckets * NumBuckets) |-> Boxes(CellAt(k))])

CreateUrgencyList(at) ==
  LET boxes   == Ascending(DOMAIN at)
      entries == [n \in 1..(Len(boxes) * NumBuckets) |->
                    LET b == boxes[((n - 1) \div NumBuckets) + 1]
                    IN [box |-> b, ge |-> at[b][(n - 1) % NumBuckets]]]
  IN InOrderOfCells(LAMBDA cell : Keep(entries, {e \in ToSet(entries) : e.ge = cell}))

-----------------------------------------------------------------------------
\* The bucket of a latency.  One beyond all graphs is put into the first.  The
\* largest is put into the last that has a cell; without any, that slot is not
\* initialised, and is taken here for one without a cell.
LatencyBucket(b, latency) ==
  LET max    == gridPointers.max.latency
      bucket == (latency * NumBuckets) \div max
      slots  == {i \in 0..(NumBuckets - 1) : gridPointers.at[b][i] # NoCell}
  IN IF latency > max THEN 0
     ELSE IF bucket = NumBuckets THEN Highest({0} \cup slots)
     ELSE bucket

PointedTo(b, latency) == gridPointers.at[b][LatencyBucket(b, latency)]

\* Where a box found with a latency goes; NoCell fails the assertion.
AssignedCell(b, latency) ==
  IF PointedTo(b, latency) = NoCell THEN gridPointers.at[b][0] ELSE PointedTo(b, latency)

\* As MoveTo below would be if the box were not erased from its old cell.
AddTo(cell, b) ==
  /\ location' = [location EXCEPT ![b] = cell]
  /\ boxList' = [boxList EXCEPT ![cell] = Append(@, b)]

MoveTo(cell, b) ==
  /\ location' = [location EXCEPT ![b] = cell]
  /\ boxList' = [c \in Cells |->
       LET others == IF c = location[b] THEN Keep(boxList[c], GridBoxes \ {b}) ELSE boxList[c]
       IN IF c = cell THEN Append(others, b) ELSE others]

LoadPriorityAssignment(b, latency) ==
  IF location[b] # NoCell /\ location[b] = PointedTo(b, latency)
  THEN UNCHANGED gridPlaces
  ELSE /\ AssignedCell(b, latency) # NoCell
       /\ MoveTo(AssignedCell(b, latency), b)

\* removeFromGrid for every box of s: each must be in the grid when it is its turn.
Removable(s) == /\ IsInjective(s)
                /\ \A i \in DOMAIN s : location[s[i]] # NoCell
RemoveFromGrid(s) ==
  /\ location' = [b \in GridBoxes |-> IF b \in ToSet(s) THEN NoCell ELSE location[b]]
  /\ boxList' = [c \in Cells |-> Keep(boxList[c], GridBoxes \ ToSet(s))]

-----------------------------------------------------------------------------
(* What a search meets: streams fill windows, workers end their runs.      *)

WindowFills(b) ==
  /\ gphase # "abort"
  /\ b \notin windowed
  /\ windowed' = windowed \cup {b}
  /\ UNCHANGED <<gridFixed, gridPlaces, gridSearch, lockedBoxes, withWorker>>

RunEnds(b) ==
  /\ gphase # "abort"
  /\ b \in withWorker
  /\ lockedBoxes' = lockedBoxes \ {b}
  /\ withWorker' = withWorker \ {b}
  /\ windowed' \in {windowed, windowed \ {b}}
  /\ UNCHANGED <<gridFixed, gridPlaces, gridSearch>>

GiveToWorker(s) ==
  /\ lockedBoxes' = lockedBoxes \cup s
  /\ withWorker' = withWorker \cup s

(***************************************************************************)
(* A search begins with a copy of the work set (which may lack boxes with  *)
(* input, or hold some without a full window).  In mode "app" the copy is  *)
(* an array of bits (BitShit): setBit adds a box to a set, unsetBit takes  *)
(* it away, testBit asks for it.  The array is one bit too short, as it is *)
(* given the largest id for a number: when the largest id begins a byte,   *)
(* clear leaves its bit as it is.                                          *)
(***************************************************************************)
MaxBoxId == Highest(GridBoxes)
NeverCleared == {b \in GridBoxes : b >= 8 * ((MaxBoxId + 7) \div 8)}
RunnableBits(copied) == copied \cup (untestedBoxes \cap NeverCleared)

BeginSearch ==
  /\ gphase = "idle"
  /\ gphase' = "look"
  /\ gridCandidates' = <<>>
  /\ walk' = [at |-> 1, assigned |-> [c \in Cells |-> 0]]
  /\ foundRemains' = (foundRemains \/ Placed # {})
  /\ \E copied \in SUBSET GridBoxes :
       untestedBoxes' = IF gcase.mode = "box" THEN copied ELSE RunnableBits(copied)
  /\ UNCHANGED <<gridFixed, gridPlaces, stoppedShort, lockedBoxes, withWorker, windowed>>

\* findEligibleBox_Bucketing1 looks at one box after the other, under its lock.
LookAt(b) ==
  /\ gphase = "look" /\ gcase.mode = "box"
  /\ b \in untestedBoxes /\ \A c \in untestedBoxes : b <= c
  /\ untestedBoxes' = untestedBoxes \ {b}
  /\ IF b \in windowed \ lockedBoxes
     THEN \E latency \in GridLatencies :
            IF AssignedCell(b, latency) = NoCell
            THEN gphase' = "abort" /\ UNCHANGED gridPlaces
            ELSE LoadPriorityAssignment(b, latency) /\ UNCHANGED gphase
     ELSE UNCHANGED <<gphase, gridPlaces>>
  /\ UNCHANGED <<gridFixed, gridCandidates, walk, gridHistory, lockedBoxes, withWorker, windowed>>

FirstOf(s, n) == SubSeq(s, 1, IF n < Len(s) THEN n ELSE Len(s))

\* Then the first boxes of the grid are taken off it.
Choose ==
  /\ gphase = "look" /\ gcase.mode = "box"
  /\ untestedBoxes = {}
  /\ \E num \in 1..Cardinality(GridBoxes) :
       LET chosen == FirstOf(InOrderOfCells(LAMBDA cell : boxList[cell]), num)
       IN IF Removable(chosen)
          THEN /\ RemoveFromGrid(chosen)
               /\ gridCandidates' = chosen
               /\ gphase' = "load"
          ELSE gphase' = "abort" /\ UNCHANGED <<gridPlaces, gridCandidates>>
  /\ UNCHANGED <<gridFixed, untestedBoxes, walk, gridHistory, lockedBoxes, withWorker, windowed>>

\* And loadSingleBox locks them one by one, or passes over those it cannot lock.
LoadCandidate ==
  /\ gphase = "load" /\ gcase.mode = "box"
  /\ gphase' = IF Len(gridCandidates) > 1 THEN "load" ELSE "idle"
  /\ gridCandidates' = IF gridCandidates = <<>> THEN <<>> ELSE Tail(gridCandidates)
  /\ GiveToWorker(ToSet(FirstOf(gridCandidates, 1)) \ lockedBoxes)
  /\ UNCHANGED <<gridFixed, gridPlaces, untestedBoxes, walk, gridHistory, windowed>>

-----------------------------------------------------------------------------
(***************************************************************************)
(* findEligibleBox_Bucketing: one entry of the urgency list.  On coming to *)
(* a cell that boxes were loaded into, all boxes of that cell are made     *)
(* candidates; the box looked at is then the last of them and not that of  *)
(* the entry.  A box that is loaded into the cell of the entry makes the   *)
(* box of the entry a candidate.  Either may reach the limit and end the   *)
(* walk, the second before the lock of the box is given back.              *)
(***************************************************************************)
NumWanted == MaxBoxId
Entry == urgencyList[walk.at]
Entering == /\ walk.at > 1
            /\ urgencyList[walk.at - 1].ge # Entry.ge
            /\ walk.assigned[Entry.ge] > 0
Listed == IF Entering THEN FirstOf(boxList[Entry.ge], Highest({1, NumWanted - Len(gridCandidates)})) ELSE <<>>
Pushed == gridCandidates \o Listed
Looked == IF Listed = <<>> THEN Entry.box ELSE Last(Listed)

GoOn == walk' = [walk EXCEPT !.at = @ + 1] /\ UNCHANGED stoppedShort
StopShort == walk' = [walk EXCEPT !.at = Len(urgencyList) + 1] /\ stoppedShort' = TRUE

WalkFull ==
  /\ Entering /\ Len(Pushed) >= NumWanted
  /\ StopShort
  /\ UNCHANGED <<gphase, gridPlaces, untestedBoxes, lockedBoxes>>
  /\ gridCandidates' = Pushed

PassOver ==
  /\ Looked \notin untestedBoxes \/ Looked \in lockedBoxes \/ Looked \notin windowed
  /\ GoOn
  /\ gridCandidates' = Pushed
  /\ untestedBoxes' = untestedBoxes \ {Looked}
  /\ UNCHANGED <<gphase, gridPlaces, lockedBoxes>>

LoadLooked(latency) ==
  LET loaded == IF location[Looked] # NoCell /\ location[Looked] = PointedTo(Looked, latency)
                THEN location[Looked] ELSE AssignedCell(Looked, latency)
      found  == IF loaded = Entry.ge THEN Append(Pushed, Entry.box) ELSE Pushed
      full   == loaded = Entry.ge /\ Len(found) >= NumWanted
  IN /\ Looked \in (untestedBoxes \cap windowed) \ lockedBoxes
     /\ untestedBoxes' = untestedBoxes \ {Looked}
     /\ gridCandidates' = found
     /\ IF loaded = NoCell
        THEN gphase' = "abort" /\ UNCHANGED <<gridPlaces, walk, stoppedShort, lockedBoxes>>
        ELSE /\ LoadPriorityAssignment(Looked, latency)
             /\ walk' = [at |-> IF full THEN Len(urgencyList) + 1 ELSE walk.at + 1,
                         assigned |-> [walk.assigned EXCEPT ![loaded] = @ + 1]]
             /\ stoppedShort' = (stoppedShort \/ full)
             /\ lockedBoxes' = IF full THEN lockedBoxes \cup {Looked} ELSE lockedBoxes
             /\ UNCHANGED gphase

WalkOn ==
  /\ gphase = "look" /\ gcase.mode = "app"
  /\ walk.at <= Len(urgencyList)
  /\ \/ WalkFull
     \/ ~(Entering /\ Len(Pushed) >= NumWanted)
        /\ (PassOver \/ \E latency \in GridLatencies : LoadLooked(latency))
  /\ UNCHANGED <<gridFixed, foundRemains, withWorker, windowed>>

EndWalk ==
  /\ gphase = "look" /\ gcase.mode = "app"
  /\ walk.at > Len(urgencyList)
  /\ IF Removable(gridCandidates)
     THEN /\ RemoveFromGrid(gridCandidates)
          /\ gphase' = IF gridCandidates = <<>> THEN "idle" ELSE "load"
     ELSE gphase' = "abort" /\ UNCHANGED gridPlaces
  /\ walk' = [at |-> 1, assigned |-> [c \in Cells |-> 0]]
  /\ UNCHANGED <<gridFixed, untestedBoxes, gridCandidates, gridHistory, lockedBoxes, withWorker, windowed>>

(***************************************************************************)
(* findEligibleApplication_Bucketing: the application of the first box is  *)
(* run, if its mutex is free and it has something to run: some of its      *)
(* boxes whose locks are free go to a worker.  A box of two applications   *)
(* fails an assertion.                                                     *)
(***************************************************************************)
TakeApplication ==
  LET apps == gcase.apps[gridCandidates[1]]
      free == {b \in GridBoxes : gcase.apps[b] \cap apps # {}} \ lockedBoxes
  IN /\ gphase = "load" /\ gcase.mode = "app"
     /\ IF Cardinality(apps) > 1
        THEN gphase' = "abort" /\ UNCHANGED <<lockedBoxes, withWorker>>
        ELSE gphase' = "idle" /\ \E s \in SUBSET free : GiveToWorker(s)
     /\ gridCandidates' = <<>>
     /\ UNCHANGED <<gridFixed, gridPlaces, untestedBoxes, walk, gridHistory, windowed>>

GridInit ==
  /\ gcase \in GridCases
  /\ gridPointers = InitGridPointers(gcase)
  /\ urgencyList = CreateUrgencyList(gridPointers.at)
  /\ gphase = IF Rooted(gridPointers.graphs) THEN "idle" ELSE "abort"
  /\ location = [b \in GridBoxes |-> NoCell]
  /\ boxList = [c \in Cells |-> <<>>]
  /\ untestedBoxes = {} /\ gridCandidates = <<>>
  /\ walk = [at |-> 1, assigned |-> [c \in Cells |-> 0]]
  /\ lockedBoxes = {} /\ withWorker = {} /\ windowed = {}
  /\ stoppedShort = FALSE /\ foundRemains = FALSE

GridNext ==
  \/ \E b \in GridBoxes : WindowFills(b) \/ RunEnds(b) \/ LookAt(b)
  \/ BeginSearch \/ Choose \/ LoadCandidate \/ WalkOn \/ EndWalk \/ TakeApplication

GridSpec == GridInit /\ [][GridNext]_gridVars

-----------------------------------------------------------------------------
Homeless == {b \in GridBoxes : gridPointers.at[b][0] = NoCell}
Shared == {b \in GridBoxes : Cardinality(gcase.apps[b]) > 1}

(***************************************************************************)
(* A box is on the list of the cell its pointer names, once, and on no     *)
(* other.  When boxes are scheduled by buckets, every box in the grid and  *)
(* every candidate, however old the search that placed it, is unlocked and *)
(* has a full window, so that none is passed over or run on nothing; and   *)
(* no lock stays taken without a worker.  Searches end in an abort only    *)
(* for a graph that begins late or a box without cells; in mode "app" also *)
(* for a shared box, and a walk may there have a box removed twice, but    *)
(* only once one came to its limit or found boxes of an earlier one.  One  *)
(* that comes to its limit may leave a lock taken.                         *)
(***************************************************************************)
GridSound ==
  IF gphase = "abort"
  THEN \/ Homeless # {}
       \/ gcase.mode = "app" /\ (stoppedShort \/ foundRemains \/ Shared # {})
  ELSE /\ \A b \in Placed : \E i \in DOMAIN boxList[location[b]] :
            \A j \in DOMAIN boxList[location[b]] : boxList[location[b]][j] = b <=> j = i
       /\ \A c \in Cells : \A b \in ToSet(boxList[c]) : location[b] = c
       /\ gcase.mode = "box" => Placed \cup ToSet(gridCandidates) \subseteq windowed \ lockedBoxes
       /\ lockedBoxes = withWorker \/ (gcase.mode = "app" /\ stoppedShort)

Prior(c, d) == c[2] > d[2] \/ (c[2] = d[2] /\ c[1] < d[1])

(***************************************************************************)
(* Choose takes the boxes of the most urgent cells, in that order, leaves  *)
(* no box that is more urgent than one it took, and takes one if any is    *)
(* there.                                                                  *)
(***************************************************************************)
ChosenFirst ==
  LET chosen == gridCandidates'
      cell(i) == location[chosen[i]]
  IN /\ chosen = <<>> => Placed = {}
     /\ \A i, j \in DOMAIN chosen : i < j => ~Prior(cell(j), cell(i))
     /\ \A b \in Placed \ ToSet(chosen), i \in DOMAIN chosen : ~Prior(location[b], cell(i))

UrgentFirst ==
  [][(gcase.mode = "box" /\ gphase = "look" /\ gphase' = "load") => ChosenFirst]_gridVars

\* findSlopeAt: the slope and the slack of a graph at a latency between two points.
FindSlopeAt(g, latency) ==
  LET between == {i \in 2..Len(g) : g[i - 1].x < latency /\ latency < g[i].x}
  IN IF between = {} THEN [slope |-> <<0, 1>>, slack |-> 0]
     ELSE LET i == CHOOSE j \in between : TRUE
          IN [slope |-> Slope(g, i), slack |-> g[i].x - latency]

(***************************************************************************)
(* The grid never takes a box for less urgent than the exact slopes (those *)
(* by which SLOPE_SLACK sorts) make it: the cell of a latency is at least  *)
(* as steep as the graph is at it, in units of the grid.  Nor is its slack *)
(* less than what is left there.                                           *)
(***************************************************************************)
CellCovers ==
  \A b \in GridBoxes, latency \in GridLatencies :
    LET max   == gridPointers.max
        exact == FindSlopeAt(gridPointers.graphs[b], latency)
        cell  == PointedTo(b, latency)
    IN (latency <= max.latency /\ cell # NoCell) =>
         /\ cell[2] * max.slope[1] * exact.slope[2] + max.slope[1] * exact.slope[2]
              > exact.slope[1] * max.slope[2] * (NumBuckets - 1)
         /\ cell[1] + 1 >= (exact.slack * NumBuckets) \div max.slack
=============================================================================
