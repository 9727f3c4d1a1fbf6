------------------------- MODULE SuperboxProperties -------------------------
(***************************************************************************)
(* The running system in SCHED_BY_APP mode, and what holds of superboxes,  *)
(* for which applications.  The scheduler of superboxes, the workers that  *)
(* run them and the stream thread share the same storage manager, box      *)
(* mutexes, execution queue and stop flag as in RuntimeProperties.         *)
(***************************************************************************)
EXTENDS SuperboxWorker, AppScheduler, StreamThread

CONSTANT
  Profiles        \* how many tuples come on each input arc in a behaviour

VARIABLE
  profile         \* the one of this behaviour; a stream may fall silent

ASSUME ProfileAssumption ==
  \A p \in Profiles : p \in [InputArcs -> Nat]

vars == <<schedVars, workerVars, streamVars, beqVars, stopVars, smVars,
          boxLocked, appVars, strayed, profile>>

Init ==
  /\ CatalogInit
  /\ SMInit
  /\ StopInit
  /\ BeqInit
  /\ WorkerInit
  /\ AppSchedulerInit
  /\ StreamInit
  /\ strayed = {}
  /\ profile \in Profiles

Ended   == {w \in Workers : wpc[w] = "done"}
Aborted == spc = "aborted" \/ \E w \in Workers : wpc[w] = "aborted"

idleSearch == <<planVars, lastApp, untried, visit, stack>>

WorkerStep(w) == /\ SuperboxStep(w)
                 /\ UNCHANGED <<schedVars, streamVars, idleSearch, profile>>
SchedulerNext == /\ \/ AppSchedulerStep
                    \/ JoinWorker(Ended) /\ UNCHANGED appVars
                 /\ UNCHANGED <<workerVars, strayed, streamVars, profile>>
StreamNext    == /\ \/ \E a \in InputArcs : generated[a] < profile[a] /\ GenerateTuple(a)
                    \/ StoreTuple \/ CountTuple \/ WakeScheduler
                 /\ UNCHANGED <<schedVars, workerVars, strayed, appVars, profile>>

\* A failed assertion in one thread ends the process.
Next ==
  /\ ~Aborted
  /\ \/ \E w \in Workers : WorkerStep(w)
     \/ SchedulerNext
     \/ StreamNext

Spec == Init /\ [][Next]_vars

-----------------------------------------------------------------------------
\* The workers that have an element.
Busy == {w \in Workers : wqe[w] # NoQE}

\* The boxes of an element under way: those that were locked for it but those
\* that were given back.
Locked(qe) == qe.locked \ qe.unfed

\* Application k holds box b: its superbox, which is being built, or queued,
\* or with a worker, does.
Holds(k, b) ==
  \/ loaded # NoQE /\ loaded.app = k /\ b \in Locked(loaded)
  \/ \E i \in DOMAIN beq : beq[i].app = k /\ b \in Locked(beq[i])
  \/ \E w \in Busy : wqe[w].app = k /\ b \in HeldBy(w)

\* An application has one superbox at a time, and its mutex is held as long.
OneSuperbox ==
  /\ \A i, j \in DOMAIN beq : beq[i].app = beq[j].app => i = j
  /\ \A v, w \in Busy : wqe[v].app = wqe[w].app => v = w
  /\ \A i \in DOMAIN beq, w \in Busy : beq[i].app # wqe[w].app
  /\ loaded # NoQE => /\ \A i \in DOMAIN beq : beq[i].app # loaded.app
                      /\ \A w \in Busy : wqe[w].app # loaded.app
  /\ appLocked = {beq[i].app : i \in DOMAIN beq} \cup {wqe[w].app : w \in Busy}
                 \cup (IF loaded # NoQE THEN {loaded.app} ELSE {})

\* A box is locked exactly when an application holds it, and one only does.
OneHolder ==
  \A b \in Boxes \ strayed :
    LET holders == {k \in Apps : Holds(k, b)} IN
    /\ b \in boxLocked <=> holders # {}
    /\ \A j, k \in holders : j = k

(***************************************************************************)
(* An application belongs to one superbox at a time, and so does a box,    *)
(* unless a worker once unlocked it for a superbox that did not hold it.   *)
(* That happens to boxes of two applications only.  The locks are taken    *)
(* box by box while a tree is visited, may be given back on the way, pass  *)
(* through the queue, and are undone list entry by list entry.             *)
(***************************************************************************)
SuperboxExclusion ==
  /\ OneSuperbox
  /\ OneHolder
  /\ strayed \subseteq SharedBoxes

-----------------------------------------------------------------------------
\* A box that traverse_LoadQueue gave back is still in the list.
HasUnfed(qe) == \E i \in DOMAIN qe.boxes : qe.boxes[i] \in qe.unfed

\* A box of the list comes again, or before one that feeds it.
OutOfOrder(qe) ==
  \E i, j \in DOMAIN qe.boxes :
    i < j /\ qe.boxes[j] \in {qe.boxes[i]} \cup FeedersOf(qe.app, qe.boxes[i])

\* A box of the list reads an arc of a box of the tree by which that box does not
\* leave in the tree: a leaf, whatever the box above it has for it.
SecondArc(k, a) == SrcId[a] \in InTree(k) /\ a \notin TreeArcs(k)

ReadsSecondArc(qe) ==
  \E i \in DOMAIN qe.boxes : \E a \in InArcs(qe.boxes[i]) : SecondArc(qe.app, a)

(***************************************************************************)
(* A worker meets a box of a superbox without input ("else assert(false)"  *)
(* in WorkerThread::run, or a buffer that is NULL) for three reasons only: *)
(* the box was given back by traverse_LoadQueue; the traversal was not     *)
(* made by cost and has a box twice, or before one that feeds it; the box  *)
(* reads a second arc of a box of the tree, which is a leaf.  The          *)
(* assertions of refillQueue and of the searches (a superbox has tuples, a *)
(* list has a box, a box has one application) fail only where applications *)
(* share boxes: isAppRunnable and traverse_LoadQueue look at different     *)
(* arcs, at different times.                                               *)
(***************************************************************************)
AbortsExplained ==
  /\ \A w \in Workers : wpc[w] = "aborted" =>
       \/ HasUnfed(wqe[w])
       \/ traversalType # "MIN_COST" /\ OutOfOrder(wqe[w])
       \/ ReadsSecondArc(wqe[w])
  /\ spc = "aborted" =>
       IF loaded = NoQE THEN Unshared # Apps ELSE loaded.app \notin Unshared

(***************************************************************************)
(* Of an application that shares no box, nothing is ever on the arcs of    *)
(* its tree, and their counts are 0: the tuples between its boxes live in  *)
(* the buffers of a worker, and none is left there when the list ends.     *)
(* The shape of the pins (all of an arc, and only the first slot is copied *)
(* right), the counts that are not written back and the leaves that        *)
(* isAppRunnable does not tell from the inner arcs all depend on it.       *)
(***************************************************************************)
InnerArcsEmpty ==
  \A k \in Unshared :
    \A a \in TreeArcs(k) : queue[a] = <<>> /\ numRecords[a] = 0

(***************************************************************************)
(* The memory traverse_LoadQueue sizes for an arc is enough for all the    *)
(* boxes write to it, however many came in between.  So it is where no box *)
(* has two arcs into one tree, as here.  Where one has, the second pin of  *)
(* the other arc hides what the first one read: its count can go below 0,  *)
(* and the memory of a later superbox is then too small.                   *)
(***************************************************************************)
BuffersSuffice ==
  \A w \in Workers, a \in Arcs : Len(Buffer(w, a).slots) <= Buffer(w, a).alloc

(***************************************************************************)
(* Superboxes implement reliable streams for every application that shares *)
(* no box with another one: no tuple is lost, repeated or out of order by  *)
(* pins, buffers and traversals.                                           *)
(***************************************************************************)
OwnSinks == {AppV[k] : k \in Unshared}
Streams == INSTANCE ReliableStreams
             WITH Sources <- InputArcs, Sinks <- OwnSinks, sent <- generated,
                  recv <- [a \in OwnSinks |-> queue[a]]

ImplementsStreams == Streams!Spec
=============================================================================
