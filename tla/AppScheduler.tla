---------------------------- MODULE AppScheduler ----------------------------
(***************************************************************************)
(* The scheduler thread in SCHED_BY_APP mode.  It picks an application     *)
(* whose mutex is free and which has input, locks the boxes of its tree,   *)
(* and pushes them as one element, a superbox: the boxes to run, in order, *)
(* and the arcs to pin.  How it waits, stops and joins is Scheduler's.     *)
(*                                                                         *)
(* traverse_LoadQueue is recursive and reads a count per arc; here it is a *)
(* machine with a stack, one step per node or leaf.                        *)
(***************************************************************************)
EXTENDS Scheduler, Applications

LOCAL INSTANCE SequencesExt

CONSTANT
  AppPlans          \* the pairs of an _app_schedule_type and a _traversal_type

VARIABLES
  appPolicy,        \* _app_schedule_type
  traversalType,    \* _traversal_type
  traversal,        \* per application, the order of its boxes of that type
  lastApp,          \* the static `app' of findEligibleApplication_RR
  untried,          \* the applications this search has not tried
  visit,            \* the node and the arc traverse_LoadQueue is called with
  stack             \* its callers: node, arc, position in the inputs, total

planVars == <<appPolicy, traversalType, traversal>>
appVars  == <<planVars, appLocked, lastApp, untried, visit, stack>>

ASSUME AppSchedulerAssumption ==
  AppPlans \subseteq {"APP_RR_TYPE", "APP_RANDOM_TYPE", "APP_SLOPE_SLACK_TYPE",
                      "APP_LQF_TYPE"}
                     \X TraversalTypes

NoVisit == [box |-> NoBox, arc |-> Nobody]

\* NULL is the element of no application.
ASSUME NoQEAssumption == NoQE.app \notin Apps

AppSchedulerInit ==
  /\ SchedulerInit
  /\ \E plan \in AppPlans : appPolicy = plan[1] /\ traversalType = plan[2]
  /\ traversal \in {f \in [Apps -> UNION {Traversals[traversalType][k] : k \in Apps}] :
                      \A k \in Apps : f[k] \in Traversals[traversalType][k]}
  /\ appLocked = {}
  /\ lastApp = 0
  /\ untried = {}
  /\ visit = NoVisit
  /\ stack = <<>>

\* start(): _beq_size is at most the number of applications.
AppBeqSize == IF Cardinality(Apps) < BeqSizeLimit THEN Cardinality(Apps) ELSE BeqSizeLimit

\* What no step of this module below touches.
idleVars == <<planVars, findVars, nextArc, joinVars, stopVars, smVars>>

AppReadSize ==
  LET free == AppBeqSize - Len(beq) IN
  /\ spc = "size"
  /\ beqHolder = Nobody
  /\ IF free > AppBeqSize \div 2
     THEN spc' = "refill" /\ numToSchedule' = free
     ELSE spc' = "event" /\ UNCHANGED numToSchedule
  /\ UNCHANGED <<idleVars, appLocked, lastApp, untried, visit, stack, next, loaded,
                 beqVars, boxLocked>>

-----------------------------------------------------------------------------
(* findEligibleApplication_*                                               *)

\* isAppRunnable: a box that is free has input on some arc.
IsAppRunnable(k) ==
  \E b \in InTree(k) \ boxLocked : \E a \in InArcs(b) : numRecords[a] > 0

AppsOf(b) == {k \in Apps : b \in InTree(k)}

\* The boxes that findEligibleBox_SlopeSlack or _LQF puts on _candidates_v;
\* either has one order of its own, and only the first box is used here.
WindowIsFull(b) ==
  IF appPolicy = "APP_LQF_TYPE"
  THEN \A a \in InArcs(b) : numRecords[a] >= WinSize[b]
  ELSE \E a \in InArcs(b) : numRecords[a] >= WinSize[b]

Eligible == {b \in workSet \ boxLocked : WindowIsFull(b)}

\* RR and Random try the applications themselves.
StartSearch ==
  /\ spc = "refill"
  /\ next <= numToSchedule
  /\ appPolicy \in {"APP_RR_TYPE", "APP_RANDOM_TYPE"}
  /\ untried' = Apps
  /\ spc' = "apps"
  /\ UNCHANGED <<idleVars, appLocked, lastApp, visit, stack, numToSchedule, next, loaded,
                 beqVars, boxLocked>>

\* The others go from the best box to its application; the slope policy
\* asserts that there is one only.
SearchByBox ==
  /\ spc = "refill"
  /\ next <= numToSchedule
  /\ appPolicy \in {"APP_SLOPE_SLACK_TYPE", "APP_LQF_TYPE"}
  /\ \E best \in IF Eligible = {} THEN {<<>>} ELSE {<<b>> : b \in Eligible} :
       /\ candidates' = best
       /\ untried' = UNION {AppsOf(b) : b \in ToSet(best)}
  /\ spc' = IF appPolicy = "APP_SLOPE_SLACK_TYPE" /\ Cardinality(untried') > 1
            THEN "aborted" ELSE "apps"
  /\ UNCHANGED <<planVars, runnable, untested, lastBox, nextArc, joinVars, stopVars, smVars,
                 appLocked, lastApp, visit, stack, numToSchedule, next, loaded, beqVars,
                 boxLocked>>

NewElement(k) ==
  [app |-> k, boxes |-> <<>>, locked |-> {}, unfed |-> {},
   deq |-> <<>>, enq |-> <<>>, both |-> <<>>]

\* The next application to try: the one after the last, or any.
Next1(k) == (k % Cardinality(Apps)) + 1
ToTry == IF appPolicy = "APP_RR_TYPE" THEN {Next1(lastApp)} ELSE untried

\* pthread_mutex_trylock on the application, and isAppRunnable.
TryApp(k) ==
  /\ spc = "apps"
  /\ untried # {} /\ k \in ToTry
  /\ lastApp' = IF appPolicy = "APP_RR_TYPE" THEN k ELSE lastApp
  /\ untried' = untried \ {k}
  /\ IF k \notin appLocked /\ IsAppRunnable(k)
     THEN /\ appLocked' = appLocked \cup {k}
          /\ loaded' = NewElement(k)
          /\ visit' = [box |-> RootBox(k), arc |-> AppV[k]]
          /\ spc' = "visit"
     ELSE UNCHANGED <<appLocked, loaded, visit, spc>>
  /\ UNCHANGED <<idleVars, stack, numToSchedule, next, beqVars, boxLocked>>

\* temp_id is -1: the element is deleted and the loop of refillQueue goes on.
NoAppFound ==
  /\ spc = "apps"
  /\ untried = {}
  /\ next' = next + 1
  /\ spc' = "refill"
  /\ UNCHANGED <<idleVars, appLocked, lastApp, untried, visit, stack, numToSchedule, loaded,
                 beqVars, boxLocked>>

AppRefillDone ==
  /\ spc = "refill"
  /\ next > numToSchedule
  /\ next' = 1
  /\ untried' = {}
  /\ spc' = "event"
  /\ UNCHANGED <<idleVars, appLocked, lastApp, visit, stack, numToSchedule, loaded, beqVars,
                 boxLocked>>

-----------------------------------------------------------------------------
(* traverse_LoadQueue                                                      *)

\* A call returns n to the frames: the caller adds n to its total and calls
\* for its next input, or is done with them; out_tuples = 0 is an assertion.
Return(frames, n) ==
  IF frames = <<>>
  THEN /\ stack' = <<>>
       /\ visit' = NoVisit
       /\ spc' = IF n = 0 THEN "aborted" ELSE "list"
  ELSE LET top == Last(frames)
           i   == top.i + 1
           arcs == InputQueueIds[top.box]
       IN /\ stack' = Front(frames) \o <<[top EXCEPT !.i = i, !.total = @ + n]>>
          /\ IF i <= Len(arcs)
             THEN /\ visit' = [box |-> Trees[loaded.app][top.box].inputs[i], arc |-> arcs[i]]
                  /\ spc' = "visit"
             ELSE visit' = NoVisit /\ spc' = "finish"

searchVars == <<idleVars, appLocked, lastApp, untried, numToSchedule, next, beqVars>>

\* No box on the other side, or one that is locked: what is on the arc now.
VisitArc ==
  /\ spc = "visit"
  /\ visit.box = NoBox \/ visit.box \in boxLocked
  /\ loaded' = [loaded EXCEPT !.deq = Append(@, [arc |-> visit.arc, n |-> numRecords[visit.arc]])]
  /\ Return(stack, numRecords[visit.arc])
  /\ UNCHANGED <<searchVars, boxLocked>>

\* As VisitBox below would be if it did not look at the lock.
VisitBoxUnlocked ==
  /\ spc = "visit"
  /\ visit.box # NoBox
  /\ LockBoxUnchecked(visit.box)
  /\ loaded' = [loaded EXCEPT !.locked = @ \cup {visit.box}, !.unfed = @ \ {visit.box}]
  /\ stack' = Append(stack, [box |-> visit.box, arc |-> visit.arc, i |-> 1, total |-> 0])
  /\ visit' = [box |-> Trees[loaded.app][visit.box].inputs[1], arc |-> InputQueueIds[visit.box][1]]
  /\ UNCHANGED <<searchVars, spc>>

\* A box is locked and its inputs are visited.
VisitBox ==
  /\ spc = "visit"
  /\ visit.box # NoBox
  /\ LockBoxTry(visit.box)
  /\ loaded' = [loaded EXCEPT !.locked = @ \cup {visit.box}, !.unfed = @ \ {visit.box}]
  /\ stack' = Append(stack, [box |-> visit.box, arc |-> visit.arc, i |-> 1, total |-> 0])
  /\ visit' = [box |-> Trees[loaded.app][visit.box].inputs[1], arc |-> InputQueueIds[visit.box][1]]
  /\ UNCHANGED <<searchVars, spc>>

Pin(a, n) == [arc |-> a, n |-> n + numRecords[a]]

(***************************************************************************)
(* A box all of whose inputs were visited.  Without input it is unlocked,  *)
(* and yet stays in locked_boxes_set (loaded.locked; unfed is what was     *)
(* given back).  With input, its arc to the root's application is pinned   *)
(* for writing, an arc to its parent for both, and its other arcs for      *)
(* writing, each with room for all its inputs and for what it holds.       *)
(***************************************************************************)
GiveBack ==
  /\ spc = "finish"
  /\ Last(stack).total = 0
  /\ UnlockBox(Last(stack).box)
  /\ loaded' = [loaded EXCEPT !.unfed = @ \cup {Last(stack).box}]
  /\ Return(Front(stack), 0)
  /\ UNCHANGED searchVars

\* As PinOutputs below would be without room for what is to come.
PinOutputsTight ==
  LET top   == Last(stack)
      other == KeptOf(OutputQueueIds[top.box], Arcs \ {top.arc})
      mine  == <<Pin(top.arc, 0)>>
      root  == top.box = RootBox(loaded.app) IN
  /\ spc = "finish"
  /\ top.total > 0
  /\ loaded' = [loaded EXCEPT
       !.enq  = @ \o (IF root THEN mine ELSE <<>>)
                  \o [i \in DOMAIN other |-> Pin(other[i], top.total)],
       !.both = @ \o (IF root THEN <<>> ELSE mine)]
  /\ Return(Front(stack), top.total + numRecords[top.arc])
  /\ UNCHANGED <<searchVars, boxLocked>>

PinOutputs ==
  LET top   == Last(stack)
      other == KeptOf(OutputQueueIds[top.box], Arcs \ {top.arc})
      mine  == <<Pin(top.arc, top.total)>>
      root  == top.box = RootBox(loaded.app) IN
  /\ spc = "finish"
  /\ top.total > 0
  /\ loaded' = [loaded EXCEPT
       !.enq  = @ \o (IF root THEN mine ELSE <<>>)
                  \o [i \in DOMAIN other |-> Pin(other[i], top.total)],
       !.both = @ \o (IF root THEN <<>> ELSE mine)]
  /\ Return(Front(stack), top.total + numRecords[top.arc])
  /\ UNCHANGED <<searchVars, boxLocked>>

-----------------------------------------------------------------------------
\* create*BoxList: the boxes of locked_boxes_set in the order of the traversal.
CreateBoxList ==
  LET list == KeptOf(traversal[loaded.app], loaded.locked) IN
  /\ spc = "list"
  /\ loaded' = [loaded EXCEPT !.boxes = list]
  /\ spc' = IF list = <<>> THEN "aborted" ELSE "push"
  /\ UNCHANGED <<searchVars, visit, stack, boxLocked>>

PushSuperbox ==
  /\ spc = "push"
  /\ Push(loaded)
  /\ loaded' = NoQE
  /\ next' = next + 1
  /\ spc' = "refill"
  /\ UNCHANGED <<idleVars, appLocked, lastApp, untried, visit, stack, numToSchedule, boxLocked>>

\* What the two modes have in common.
SharedStep ==
  /\ \/ WaitForEvent \/ SchedulerSleeps \/ SchedulerWoken \/ SchedulerTimeout
     \/ TestForStop \/ (\E w \in Workers : SignalWorker(w))
  /\ UNCHANGED appVars

AppSchedulerStep ==
  \/ SharedStep \/ AppReadSize \/ StartSearch \/ SearchByBox
  \/ (\E k \in Apps : TryApp(k)) \/ NoAppFound \/ AppRefillDone
  \/ VisitArc \/ VisitBox \/ GiveBack \/ PinOutputs \/ CreateBoxList \/ PushSuperbox
=============================================================================
