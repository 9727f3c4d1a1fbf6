--------------------------- MODULE RuntimeTheorems ---------------------------
(***************************************************************************)
(* The safety of the runtime, for every network, policy, train size, stop  *)
(* condition and number of workers: IInv holds initially, every step keeps *)
(* it, and the properties are its conjuncts.  First come facts about the   *)
(* network and about the operators of the runtime.  Then, one case per     *)
(* action and under it one step per group of variables it touches: the     *)
(* types are kept, the boxes are exclusive, the counts and pins are kept;  *)
(* then what must be in place wherever a thread is (the element a worker   *)
(* holds, the box the scheduler loads, the positions in the arc lists).    *)
(***************************************************************************)
EXTENDS RuntimeProperties, FiniteSetTheorems, SequenceTheorems, SumTheorems, TLAPS

\* A position of a box's input list holds an arc, one that the box reads.
LEMMA InputListArc ==
  ASSUME NEW b \in Boxes, NEW i \in Nat \ {0}, i <= Len(InputQueueIds[b])
  PROVE  /\ InputQueueIds[b][i] \in Arcs
         /\ InputQueueIds[b][i] \in InArcs(b)
         /\ DestId[InputQueueIds[b][i]] = b
<1>1. InputQueueIds[b] \in Seq(Arcs)
  BY CatalogAssumption
<1>2. i \in 1..Len(InputQueueIds[b])
  BY <1>1
<1>3. InputQueueIds[b][i] \in InArcs(b)
  BY <1>2 DEF InArcs
<1>q. QED
  BY <1>3, CatalogAssumption

\* A position of a box's output list holds an arc, one that the box writes.
LEMMA OutputListArc ==
  ASSUME NEW b \in Boxes, NEW i \in Nat \ {0}, i <= Len(OutputQueueIds[b])
  PROVE  /\ OutputQueueIds[b][i] \in Arcs
         /\ OutputQueueIds[b][i] \in OutArcs(b)
<1>1. OutputQueueIds[b] \in Seq(Arcs)
  BY CatalogAssumption
<1>2. i \in 1..Len(OutputQueueIds[b])
  BY <1>1
<1>3. OutputQueueIds[b][i] \in OutArcs(b)
  BY <1>2 DEF OutArcs
<1>q. QED
  BY <1>3, CatalogAssumption

\* Every box has an input and an output, so both its lists have a first arc.
LEMMA ListsNotEmpty ==
  ASSUME NEW b \in Boxes
  PROVE  /\ Len(InputQueueIds[b]) \in Nat \ {0}
         /\ Len(OutputQueueIds[b]) \in Nat \ {0}
<1>1. InputQueueIds[b] \in Seq(Arcs) /\ OutputQueueIds[b] \in Seq(Arcs)
  BY CatalogAssumption
<1>2. 1..Len(InputQueueIds[b]) # {}
  BY CatalogAssumption DEF InArcs
<1>3. 1..Len(OutputQueueIds[b]) # {}
  BY CatalogAssumption DEF OutArcs
<1>q. QED
  BY <1>1, <1>2, <1>3

\* An arc that does not go to an application goes to a box.
LEMMA DestIsBox ==
  ASSUME NEW a \in Arcs, a \notin AppArcs
  PROVE  DestId[a] \in Boxes
BY CatalogAssumption DEF AppArcs

\* How many of a box's outputs go to applications is a natural number.
LEMMA AppOutputs ==
  ASSUME NEW b \in Boxes
  PROVE  Cardinality(OutArcs(b) \cap AppArcs) \in Nat
<1>1. OutArcs(b) \cap AppArcs \subseteq Arcs
  BY DEF AppArcs
<1>2. IsFiniteSet(OutArcs(b) \cap AppArcs)
  BY <1>1, FS_Subset, CatalogAssumption
<1>q. QED
  BY <1>2, FS_CardinalityType

\* The size the scheduler gives the execution queue is a positive number
\* when there are boxes at all, and a natural number in any case.
LEMMA BeqSizeType == BeqSize \in Nat
<1>1. Cardinality(Boxes) \in Nat
  BY FS_CardinalityType, CatalogAssumption
<1>q. QED
  BY <1>1, SchedulerAssumption DEF BeqSize

\* A train takes no more than the arc holds and is never negative.
LEMMA TrainRange ==
  ASSUME NEW n \in Nat
  PROVE  Train(n) \in 0..n
<1> DEFINE k == n * TrainPercent
<1>1. TrainPercent \in Nat /\ TrainPercent <= 100
  BY SchedulerAssumption
<1>2. k \in Nat
  BY <1>1
<1>3. k <= n * 100
  BY <1>1
<1>4. (k \div 100) \in Nat /\ k \div 100 <= n
  <2> HIDE DEF k
  <2>q. QED
    BY <1>2, <1>3
<1>q. QED
  BY <1>4 DEF Train

\* A piece of a sequence from within its bounds is a sequence of its elements.
LEMMA SubSeqType ==
  ASSUME NEW S, NEW s \in Seq(S), NEW m \in Nat \ {0}, NEW n \in Int,
         n <= Len(s)
  PROVE  /\ SubSeq(s, m, n) \in Seq(S)
         /\ Len(SubSeq(s, m, n)) = IF m <= n THEN n - m + 1 ELSE 0
<1>1. \A i \in m..n : s[i] \in S
  OBVIOUS
<1>q. QED
  BY <1>1, SubSeqProperties

\* Rotating the candidates leaves a sequence of boxes.
LEMMA RotateByType ==
  ASSUME candidates \in Seq(Boxes), candidates # <<>>, NEW k \in Nat
  PROVE  RotateBy(k) \in Seq(Boxes)
<1> DEFINE n == Len(candidates)
<1>1. n \in Nat \ {0} /\ DOMAIN candidates = 1..n
  OBVIOUS
<1>2. \A i \in 1..n : ((i + k - 1) % n) + 1 \in 1..n
  <2> SUFFICES ASSUME NEW i \in 1..n PROVE ((i + k - 1) % n) + 1 \in 1..n
    OBVIOUS
  <2>1. i + k - 1 \in Nat
    OBVIOUS
  <2> HIDE DEF n
  <2>2. (i + k - 1) % n \in 0..(n - 1)
    BY <2>1, <1>1
  <2>q. QED
    BY <2>2, <1>1
<1>3. \A i \in 1..n : candidates[((i + k - 1) % n) + 1] \in Boxes
  BY <1>1, <1>2
<1>4. RotateBy(k) = [i \in 1..n |-> candidates[((i + k - 1) % n) + 1]]
  BY <1>1 DEF RotateBy
<1>q. QED
  BY <1>1, <1>3, <1>4

\* Whatever the policy, what it makes of the candidates is a sequence of
\* boxes, and it is empty only when there are none.
LEMMA OrdersType ==
  ASSUME candidates \in Seq(Boxes), NEW s \in Orders
  PROVE  /\ s \in Seq(Boxes)
         /\ s = <<>> <=> candidates = <<>>
<1>1. CASE Policy = "BOX_RANDOM_TYPE"
  BY <1>1 DEF Orders
<1>2. CASE Policy = "BOX_RR_TYPE"
  <2> DEFINE k == Cardinality(NotLater)
  <2>1. s = RotateBy(k)
    BY <1>2 DEF Orders
  <2>2. k \in Nat
    <3>1. NotLater \subseteq 1..Len(candidates) /\ Len(candidates) \in Nat
      BY DEF NotLater
    <3>2. IsFiniteSet(1..Len(candidates))
      BY <3>1, FS_Interval
    <3>3. IsFiniteSet(NotLater)
      BY <3>1, <3>2, FS_Subset
    <3>q. QED
      BY <3>3, FS_CardinalityType
  <2>3. DOMAIN s = DOMAIN candidates
    BY <2>1 DEF RotateBy
  <2> HIDE DEF k
  <2>4. CASE candidates = <<>>
    BY <2>1, <2>4 DEF RotateBy
  <2>5. CASE candidates # <<>>
    <3>1. s \in Seq(Boxes)
      BY <2>1, <2>2, <2>5, RotateByType
    <3>q. QED
      BY <2>3, <2>5, <3>1
  <2>q. QED
    BY <2>4, <2>5
<1>3. CASE Policy \notin {"BOX_RANDOM_TYPE", "BOX_RR_TYPE"}
  <2>1. s \in [DOMAIN candidates -> Boxes]
    BY <1>3 DEF Orders
  <2>2. s \in [1..Len(candidates) -> Boxes] /\ Len(candidates) \in Nat
    BY <2>1
  <2>3. s \in Seq(Boxes) /\ Len(s) = Len(candidates)
    BY <2>2
  <2>q. QED
    BY <2>3
<1>q. QED
  BY <1>1, <1>2, <1>3

\* A train of an arc that holds tuples takes at least one.
LEMMA TrainTakes ==
  ASSUME NEW n \in Nat, n > 0
  PROVE  Train(n) > 0
<1> DEFINE k == n * TrainPercent
<1>1. TrainPercent \in Nat
  BY SchedulerAssumption
<1>2. k \in Nat
  BY <1>1
<1> HIDE DEF k
<1>3. k >= 100 => k \div 100 > 0
  BY <1>2
<1>q. QED
  BY <1>2, <1>3 DEF Train, k

\* Appending a new box leaves a list of different boxes.
LEMMA AppendNoRepeat ==
  ASSUME NEW s \in Seq(Boxes), NoRepeat(s), NEW b \in Boxes,
         \A i \in DOMAIN s : s[i] # b
  PROVE  NoRepeat(Append(s, b))
<1> DEFINE t == Append(s, b)
<1>1. /\ Len(t) = Len(s) + 1 /\ Len(s) \in Nat
      /\ \A i \in 1..Len(s) : t[i] = s[i]
      /\ t[Len(s) + 1] = b
      /\ DOMAIN s = 1..Len(s)
  BY AppendProperties
<1> HIDE DEF t
<1>2. \A i \in 1..Len(t) : i \in 1..Len(s) \/ i = Len(s) + 1
  BY <1>1
<1>3. NoRepeat(t)
  BY <1>1, <1>2 DEF NoRepeat
<1>q. QED
  BY <1>3 DEF t

\* The remainder of a number below twice the divisor.
LEMMA ModTwice ==
  ASSUME NEW n \in Nat \ {0}, NEW x \in 0..(2 * n - 1)
  PROVE  x % n = IF x < n THEN x ELSE x - n
<1>1. CASE x < n
  <2>1. x \in 0..(n - 1)
    BY <1>1
  <2>q. QED
    BY <1>1, <2>1
<1>2. CASE ~(x < n)
  <2>1. x - n \in 0..(n - 1) /\ x = n * 1 + (x - n)
    BY <1>2
  <2>q. QED
    BY <1>2, <2>1
<1>q. QED
  BY <1>1, <1>2

\* Rotating keeps different boxes different.
LEMMA RotateNoRepeat ==
  ASSUME candidates \in Seq(Boxes), NoRepeat(candidates),
         NEW k \in 0..Len(candidates), RotateBy(k) \in Seq(Boxes)
  PROVE  /\ NoRepeat(RotateBy(k))
         /\ \A i \in DOMAIN RotateBy(k) :
              \E j \in DOMAIN candidates : RotateBy(k)[i] = candidates[j]
<1> DEFINE n == Len(candidates)
           At(i) == ((i + k - 1) % n) + 1
<1>1. n \in Nat /\ DOMAIN candidates = 1..n /\ k \in 0..n
  OBVIOUS
<1>2. /\ DOMAIN RotateBy(k) = 1..n
      /\ \A i \in 1..n : RotateBy(k)[i] = candidates[At(i)]
  BY <1>1 DEF RotateBy
<1>3. Len(RotateBy(k)) = n
  BY <1>1, <1>2
<1>4. ASSUME NEW i \in 1..n
      PROVE  At(i) = IF i + k - 1 < n THEN i + k ELSE i + k - n
  <2> DEFINE x == i + k - 1
  <2>0. n \in Nat \ {0} /\ x \in 0..(2 * n - 1)
    BY <1>1
  <2>x. x = i + k - 1 /\ At(i) = (x % n) + 1
    OBVIOUS
  <2> HIDE DEF n, x, At
  <2>1. x % n = IF x < n THEN x ELSE x - n
    BY <2>0, ModTwice
  <2>q. QED
    BY <1>1, <2>0, <2>x, <2>1
<1> HIDE DEF n, At
<1>5. \A i \in 1..n : At(i) \in 1..n
  BY <1>1, <1>4
<1>6. \A i, j \in 1..n : At(i) = At(j) => i = j
  BY <1>1, <1>4
<1>7. NoRepeat(RotateBy(k))
  <2> SUFFICES ASSUME NEW i \in 1..n, NEW j \in 1..n, RotateBy(k)[i] = RotateBy(k)[j]
               PROVE  i = j
    BY <1>3 DEF NoRepeat
  <2>1. candidates[At(i)] = candidates[At(j)]
    BY <1>2
  <2>2. At(i) = At(j)
    BY <1>5, <2>1 DEF NoRepeat, n
  <2>q. QED
    BY <1>6, <2>2
<1>q. QED
  BY <1>1, <1>2, <1>5, <1>7

\* Whatever the policy but random makes of different candidates, they are
\* the same ones, and still different.
LEMMA OrdersNoRepeat ==
  ASSUME candidates \in Seq(Boxes), NoRepeat(candidates), NEW s \in Orders
  PROVE  /\ NoRepeat(s)
         /\ \A i \in 1..Len(s) : \E j \in DOMAIN candidates : s[i] = candidates[j]
<1>0. s \in Seq(Boxes) /\ DOMAIN s = 1..Len(s)
  BY OrdersType
<1>n. Len(candidates) \in Nat /\ DOMAIN candidates = 1..Len(candidates)
  OBVIOUS
<1>1. CASE Policy = "BOX_RANDOM_TYPE"
  BY <1>1, <1>n DEF Orders
<1>2. CASE Policy = "BOX_RR_TYPE"
  <2> DEFINE k == Cardinality(NotLater)
  <2>1. s = RotateBy(k)
    BY <1>2 DEF Orders
  <2>2. k \in 0..Len(candidates)
    <3>1. NotLater \in SUBSET (1..Len(candidates))
      BY DEF NotLater
    <3>2. /\ IsFiniteSet(1..Len(candidates))
          /\ Cardinality(1..Len(candidates)) = Len(candidates)
      BY <1>n, FS_Interval
    <3>3. /\ IsFiniteSet(NotLater)
          /\ Cardinality(NotLater) <= Len(candidates)
      BY <3>1, <3>2, FS_Subset
    <3>4. Cardinality(NotLater) \in Nat
      BY <3>3, FS_CardinalityType
    <3>q. QED
      BY <1>n, <3>3, <3>4
  <2> HIDE DEF k
  <2>q. QED
    BY <1>0, <2>1, <2>2, RotateNoRepeat
<1>3. CASE Policy \notin {"BOX_RANDOM_TYPE", "BOX_RR_TYPE"}
  <2> DEFINE Places(f, b) == {i \in DOMAIN s : f[i] = b}
  <2>1. /\ s \in [DOMAIN candidates -> Boxes]
        /\ \A b \in Boxes : Cardinality(Places(s, b)) = Cardinality(Places(candidates, b))
    BY <1>3 DEF Orders
  <2>2. DOMAIN s = DOMAIN candidates
    BY <2>1
  <2>3. ASSUME NEW f, NEW b
        PROVE  /\ IsFiniteSet(Places(f, b))
               /\ Cardinality(Places(f, b)) = 0 <=> Places(f, b) = {}
               /\ Cardinality(Places(f, b)) = 1 <=> \E x : Places(f, b) = {x}
    <3>1. Places(f, b) \in SUBSET (1..Len(candidates))
      BY <1>n, <2>2
    <3> HIDE DEF Places
    <3>i. IsFiniteSet(1..Len(candidates))
      BY <1>n, FS_Interval
    <3>2. IsFiniteSet(Places(f, b))
      BY <3>i, <3>1, FS_Subset
    <3>q. QED
      BY <3>2, FS_EmptySet, FS_Singleton
  \* A box that occurs in the result occurs there once, and is a candidate.
  <2>4. ASSUME NEW i \in DOMAIN s
        PROVE  /\ \E j \in DOMAIN candidates : s[i] = candidates[j]
               /\ \A j \in DOMAIN s : s[i] = s[j] => i = j
    <3> DEFINE b == s[i]
    <3>1. b \in Boxes /\ i \in Places(s, b)
      BY <2>1
    <3>2. Cardinality(Places(candidates, b)) = Cardinality(Places(s, b))
      BY <2>1, <3>1
    <3>3. Places(candidates, b) # {}
      BY <2>3, <3>1, <3>2
    <3>4. PICK p \in DOMAIN candidates : candidates[p] = b
      BY <2>2, <3>3
    <3>5. Places(candidates, b) = {p}
      <4>1. p \in Places(candidates, b)
        BY <2>2, <3>4
      <4>2. \A q \in Places(candidates, b) : q = p
        BY <1>n, <2>2, <3>4 DEF NoRepeat
      <4>q. QED
        BY <4>1, <4>2
    <3> HIDE DEF Places
    <3>6. Cardinality(Places(s, b)) = 1
      BY <2>3, <3>2, <3>5
    <3>7. PICK x : Places(s, b) = {x}
      BY <2>3, <3>6
    <3> USE DEF Places
    <3>8. \A j \in DOMAIN s : s[j] = b => j = x
      BY <3>7
    <3>q. QED
      BY <3>4, <3>8
  <2>q. QED
    BY <1>0, <2>4 DEF NoRepeat
<1>q. QED
  BY <1>1, <1>2, <1>3

(***************************************************************************)
(* What the type invariant says of the place where a worker is.            *)
(***************************************************************************)

\* Between taking an element and releasing its box, a worker has one.
LEMMA ElementHeld ==
  ASSUME TypeOK, NEW w \in Workers,
         wpc[w] \in {"load", "run", "deq", "forget", "enq", "count",
                     "announce", "unlock"}
  PROVE  /\ wqe[w] \in QueueElements
         /\ wqe[w] # NoQE
         /\ wqe[w].box \in Boxes
         /\ wqe[w].pin \in [Arcs -> Nat]
<1>1. wqe[w] # NoQE
  BY DEF TypeOK, WorkerPhases, WorkerPhase
<1>2. wqe[w] \in QueueElements
  BY <1>1 DEF TypeOK, Typing, WorkerTyping
<1>3. wqe[w].pin \in [Arcs -> Int] /\ wqe[w].box \in Boxes
  BY <1>2 DEF QueueElements
<1>4. \A a \in Arcs : wqe[w].pin[a] >= 0
  BY <1>1 DEF TypeOK, CountsNatural
<1>q. QED
  BY <1>1, <1>2, <1>3, <1>4

\* A worker that goes through its inputs is at one of them.
LEMMA InputAt ==
  ASSUME TypeOK, NEW w \in Workers, wpc[w] \in {"load", "deq", "forget"}
  PROVE  /\ Inputs(w)[warc[w]] \in Arcs
         /\ Inputs(w)[warc[w]] \in InArcs(wqe[w].box)
         /\ DestId[Inputs(w)[warc[w]]] = wqe[w].box
         /\ wqe[w].pin[Inputs(w)[warc[w]]] \in Nat
         /\ Len(Inputs(w)) \in Nat
<1>1. wqe[w].box \in Boxes /\ wqe[w].pin \in [Arcs -> Nat]
  BY ElementHeld
<1>2. warc[w] \in Nat \ {0} /\ warc[w] <= Len(Inputs(w))
  BY DEF TypeOK, Typing, WorkerTyping, WorkerPhases, WorkerPhase
<1>3. Len(Inputs(w)) \in Nat
  BY <1>1, ListsNotEmpty DEF Inputs
<1>q. QED
  BY <1>1, <1>2, <1>3, InputListArc DEF Inputs

\* A worker that goes through its outputs is at one of them.
LEMMA OutputAt ==
  ASSUME TypeOK, NEW w \in Workers, wpc[w] \in {"enq", "count"}
  PROVE  /\ Outputs(w)[warc[w]] \in Arcs
         /\ Outputs(w)[warc[w]] \in OutArcs(wqe[w].box)
         /\ Len(Outputs(w)) \in Nat
<1>1. wqe[w].box \in Boxes
  BY ElementHeld
<1>2. warc[w] \in Nat \ {0} /\ warc[w] <= Len(Outputs(w))
  BY DEF TypeOK, Typing, WorkerTyping, WorkerPhases, WorkerPhase
<1>3. Len(Outputs(w)) \in Nat
  BY <1>1, ListsNotEmpty DEF Outputs
<1>q. QED
  BY <1>1, <1>2, <1>3, OutputListArc DEF Outputs

\* Going on in an arc list, or past it, keeps locations and positions typed.
LEMMA AdvanceTyping ==
  ASSUME WorkerTyping, NEW w \in Workers, NEW ids, Len(ids) \in Nat,
         NEW again \in WorkerLocations, NEW after \in WorkerLocations,
         Advance(w, ids, again, after)
  PROVE  /\ wpc' \in [Workers -> WorkerLocations]
         /\ warc' \in [Workers -> Nat \ {0}]
<1>1. CASE warc[w] < Len(ids)
  <2>1. warc[w] + 1 \in Nat \ {0}
    BY DEF WorkerTyping
  <2>2. /\ wpc' = [wpc EXCEPT ![w] = again]
        /\ warc' = [warc EXCEPT ![w] = warc[w] + 1]
    BY <1>1 DEF Advance, GoTo
  <2>q. QED
    BY <2>1, <2>2 DEF WorkerTyping
<1>2. CASE ~(warc[w] < Len(ids))
  BY <1>2 DEF Advance, GoTo, WorkerTyping
<1>q. QED
  BY <1>1, <1>2

\* The element the scheduler starts with has the candidate's box, no pins.
LEMMA LoadedElement ==
  ASSUME TypeOK, LoadSingleBox
  PROVE  /\ candidates[next] \in Boxes
         /\ loaded' = [box |-> candidates[next], pin |-> [a \in Arcs |-> 0]]
         /\ loaded' \in QueueElements
         /\ loaded' # NoQE
<1>1. candidates[next] \in Boxes
  BY DEF LoadSingleBox, MoreToLoad, TypeOK, Typing, SchedulerTyping
<1>2. loaded' = [box |-> candidates[next], pin |-> [a \in Arcs |-> 0]]
  BY DEF LoadSingleBox
<1>3. loaded' \in QueueElements
  BY <1>1, <1>2 DEF QueueElements
<1>q. QED
  BY <1>1, <1>2, <1>3, QEAssumption

\* The scheduler pins an input of the box it has, and no more than there is.
LEMMA PinnedInput ==
  ASSUME TypeOK, PinInput,
         NEW a, a = InputQueueIds[loaded.box][nextArc]
  PROVE  /\ loaded \in QueueElements
         /\ loaded # NoQE
         /\ a \in InArcs(loaded.box)
         /\ a \in Arcs
         /\ Train(numRecords[a]) \in 0..numRecords[a]
         /\ loaded'.box = loaded.box
         /\ loaded'.pin = [loaded.pin EXCEPT ![a] = Train(numRecords[a])]
         /\ loaded' \in QueueElements
<1> USE DEF TypeOK, Typing
<1>1. loaded \in QueueElements /\ loaded # NoQE
  BY DEF PinInput, SchedulerPhases, SchedulerTyping
<1>2. loaded.box \in Boxes /\ loaded.pin \in [Arcs -> Int]
  BY <1>1 DEF QueueElements
<1>3. a \in Arcs /\ a \in InArcs(loaded.box)
  BY <1>2, InputListArc DEF PinInput, SchedulerPhases, SchedulerTyping
<1>4. Train(numRecords[a]) \in 0..numRecords[a]
  <2>1. numRecords[a] \in Nat
    BY <1>3 DEF StorageTyping, CountsNatural
  <2>q. QED
    BY <2>1, TrainRange
<1>5. loaded' = [box |-> loaded.box,
                 pin |-> [loaded.pin EXCEPT ![a] = Train(numRecords[a])]]
  BY DEF PinInput
<1>6. [loaded.pin EXCEPT ![a] = Train(numRecords[a])] \in [Arcs -> Int]
  <2>1. Train(numRecords[a]) \in Int
    BY <1>3, <1>4 DEF StorageTyping
  <2>q. QED
    BY <1>2, <2>1
<1>7. loaded' \in QueueElements
  BY <1>2, <1>5, <1>6 DEF QueueElements
<1>q. QED
  BY <1>1, <1>3, <1>4, <1>5, <1>7

(***************************************************************************)
(* What a step leaves alone.                                               *)
(***************************************************************************)

\* A worker's step does not touch what belongs to another worker.
LEMMA OtherWorkers ==
  ASSUME WorkerTyping, NEW w \in Workers, Worker(w), NEW u \in Workers \ {w}
  PROVE  /\ wpc'[u] = wpc[u]
         /\ wqe'[u] = wqe[u]
         /\ wout'[u] = wout[u]
         /\ warc'[u] = warc[u]
<1> USE DEF WorkerTyping
<1>1. CASE AtTop(w)
  BY <1>1 DEF AtTop, GoTo
<1>2. CASE CheckQueue(w)
  BY <1>2 DEF CheckQueue, GoTo
<1>3. CASE WaitForWork(w)
  BY <1>3 DEF WaitForWork, GoTo
<1>4. CASE CheckStop(w)
  BY <1>4 DEF CheckStop, GoTo
<1>5. CASE LoadQueue(w)
  BY <1>5 DEF LoadQueue, GoTo, Advance
<1>6. CASE DoBox(w)
  BY <1>6 DEF DoBox, GoTo
<1>7. CASE RemoveInput(w)
  BY <1>7 DEF RemoveInput, GoTo, Advance
<1>8. CASE ForgetInput(w)
  BY <1>8 DEF ForgetInput, GoTo, Advance
<1>9. CASE WriteOutput(w)
  BY <1>9 DEF WriteOutput, GoTo
<1>10. CASE CountOutput(w)
  BY <1>10 DEF CountOutput, GoTo, Advance
<1>11. CASE AnnounceNewAppTuples(w)
  BY <1>11 DEF AnnounceNewAppTuples, GoTo
<1>12. CASE ReleaseBox(w)
  BY <1>12 DEF ReleaseBox, GoTo
<1>13. CASE SignalScheduler(w)
  BY <1>13 DEF SignalScheduler, GoTo
<1>q. QED
  BY <1>1, <1>2, <1>3, <1>4, <1>5, <1>6, <1>7, <1>8, <1>9, <1>10, <1>11, <1>12, <1>13 DEF Worker

\* The stop flag is never taken back.
LEMMA StopStays ==
  ASSUME [Next]_vars, stop
  PROVE  stop'
<1> USE DEF TestStop, StopSeen, CountWritten, stopVars
<1>1. CASE \E w \in Workers : WorkerStep(w)
  <2> PICK w \in Workers : Worker(w)
    BY <1>1 DEF WorkerStep
  <2>1. CASE AtTop(w)
    BY <2>1 DEF AtTop
  <2>2. CASE CheckQueue(w)
    BY <2>2 DEF CheckQueue
  <2>3. CASE WaitForWork(w)
    BY <2>3 DEF WaitForWork
  <2>4. CASE CheckStop(w)
    BY <2>4 DEF CheckStop
  <2>5. CASE LoadQueue(w)
    BY <2>5 DEF LoadQueue
  <2>6. CASE DoBox(w)
    BY <2>6 DEF DoBox
  <2>7. CASE RemoveInput(w)
    BY <2>7 DEF RemoveInput
  <2>8. CASE ForgetInput(w)
    BY <2>8 DEF ForgetInput
  <2>9. CASE WriteOutput(w)
    BY <2>9 DEF WriteOutput
  <2>10. CASE CountOutput(w)
    BY <2>10 DEF CountOutput
  <2>11. CASE AnnounceNewAppTuples(w)
    BY <2>11 DEF AnnounceNewAppTuples
  <2>12. CASE ReleaseBox(w)
    BY <2>12 DEF ReleaseBox
  <2>13. CASE SignalScheduler(w)
    BY <2>13 DEF SignalScheduler
  <2>q. QED
    BY <2>1, <2>2, <2>3, <2>4, <2>5, <2>6, <2>7, <2>8, <2>9, <2>10, <2>11, <2>12, <2>13 DEF Worker
<1>2. CASE SchedulerNext
  <2>1. stop' = stop \/ TestForStop
    BY <1>2 DEF SchedulerNext, SchedulerStep, WaitForEvent, SchedulerSleeps,
      SchedulerWoken, SchedulerTimeout, ReadSize, CopyWorkSet, TestBox,
      OrderCandidates, LoadSingleBox, SkipLockedBox, PinInput, PushElement,
      RefillDone, SignalWorker, JoinWorker
  <2>q. QED
    BY <2>1 DEF TestForStop
<1>3. CASE StreamNext
  BY <1>3 DEF StreamNext, StreamStep, GenerateTuple, StoreTuple, CountTuple,
    WakeScheduler, StreamEnds
<1>4. CASE TimePasses
  BY <1>4 DEF TimePasses, Expire
<1>5. CASE UNCHANGED vars
  BY <1>5 DEF vars
<1>q. QED
  BY <1>1, <1>2, <1>3, <1>4, <1>5 DEF Next

-----------------------------------------------------------------------------
(* The types. *)

USE DEF findVars, loadVars, joinVars, schedVars, workerVars, streamVars,
        beqVars, stopVars, smVars

\* A step of any thread leaves every variable in its type: queue positions,
\* pins and counts are used as the code uses them, within their ranges.
LEMMA TypingStep ==
  ASSUME TypeOK, [Next]_vars
  PROVE  Typing'
<1> USE DEF Typing, TypeOK

<1>1. CASE \E w \in Workers : WorkerStep(w)
  <2> PICK w \in Workers : WorkerStep(w)
    BY <1>1
  <2> USE DEF WorkerStep
  <2>1. CASE AtTop(w)
    <3>1. StopTyping'
      BY <2>1 DEF AtTop, StopTyping, TestStop, StopSeen, StopCond
    <3>2. WorkerTyping'
      BY <2>1 DEF AtTop, WorkerTyping, GoTo, WorkerLocations
    <3>3. StorageTyping' /\ QueueTyping' /\ SchedulerTyping' /\ StreamTyping'
      BY <2>1 DEF AtTop, StorageTyping, QueueTyping, SchedulerTyping, StreamTyping
    <3>q. QED
      BY <3>1, <3>2, <3>3
  <2>2. CASE CheckQueue(w)
    <3>1. StopTyping'
      BY <2>2 DEF CheckQueue, StopTyping, TestStop, StopSeen, StopCond
    <3>2. QueueTyping'
      <4>1. CASE UNCHANGED beqVars
        BY <2>2, <4>1 DEF CheckQueue, QueueTyping
      <4>2. CASE Pop
        <5>1. Tail(beq) \in Seq(QueueElements)
          BY <4>2, HeadTailProperties DEF Pop, QueueTyping
        <5>q. QED
          BY <2>2, <4>2, <5>1 DEF CheckQueue, Pop, QueueTyping
      <4>3. CASE SignalIfEmpty(w)
        BY <2>2, <4>3 DEF CheckQueue, SignalIfEmpty, BroadcastScheduler, QueueTyping
      <4>q. QED
        BY <2>2, <4>1, <4>2, <4>3 DEF CheckQueue
    <3>3. WorkerTyping'
      <4>1. CASE UNCHANGED wqe
        BY <2>2, <4>1 DEF CheckQueue, WorkerTyping, GoTo, WorkerLocations
      <4>2. CASE Pop /\ wqe' = [wqe EXCEPT ![w] = Head(beq)]
        <5>1. Head(beq) \in QueueElements
          BY <4>2, HeadTailProperties DEF Pop, QueueTyping
        <5>q. QED
          BY <2>2, <4>2, <5>1 DEF CheckQueue, WorkerTyping, GoTo, WorkerLocations
      <4>q. QED
        BY <2>2, <4>1, <4>2 DEF CheckQueue
    <3>4. StorageTyping' /\ SchedulerTyping' /\ StreamTyping'
      BY <2>2 DEF CheckQueue, StorageTyping, SchedulerTyping, StreamTyping, Pop, SignalIfEmpty
    <3>q. QED
      BY <3>1, <3>2, <3>3, <3>4
  <2>3. CASE WaitForWork(w)
    <3>1. QueueTyping'
      BY <2>3 DEF WaitForWork, QueueTyping, Wait
    <3>2. WorkerTyping'
      BY <2>3 DEF WaitForWork, WorkerTyping, GoTo, WorkerLocations
    <3>3. StorageTyping' /\ StopTyping' /\ SchedulerTyping' /\ StreamTyping'
      BY <2>3 DEF WaitForWork, StorageTyping, StopTyping, SchedulerTyping, StreamTyping
    <3>q. QED
      BY <3>1, <3>2, <3>3
  <2>4. CASE CheckStop(w)
    <3>1. StopTyping'
      BY <2>4 DEF CheckStop, StopTyping, TestStop, StopSeen, StopCond
    <3>2. QueueTyping'
      BY <2>4 DEF CheckStop, QueueTyping, BroadcastScheduler
    <3>3. WorkerTyping'
      BY <2>4 DEF CheckStop, WorkerTyping, GoTo, WorkerLocations
    <3>4. StorageTyping' /\ SchedulerTyping' /\ StreamTyping'
      BY <2>4 DEF CheckStop, StorageTyping, SchedulerTyping, StreamTyping
    <3>q. QED
      BY <3>1, <3>2, <3>3, <3>4
  <2>5. CASE LoadQueue(w)
    <3>1. WorkerTyping'
      <4> DEFINE a == Inputs(w)[warc[w]]
      <4>1. wpc[w] = "load"
        BY <2>5 DEF LoadQueue
      <4>2. a \in Arcs /\ wqe[w].pin[a] \in Nat /\ Len(Inputs(w)) \in Nat
        BY <4>1, InputAt
      <4>3. queue[a] \in Seq(Tuples) /\ wout[w] \in Seq(Tuples)
        BY <4>2 DEF StorageTyping, WorkerTyping
      <4>4. DequeuePin(a, wqe[w].pin[a]) \in Seq(Tuples)
        BY <4>2, <4>3, SubSeqType DEF DequeuePin
      <4>5. wout[w] \o DequeuePin(a, wqe[w].pin[a]) \in Seq(Tuples)
        BY <4>3, <4>4, ConcatProperties
      <4>6. Advance(w, Inputs(w), "load", "run")
        BY <2>5 DEF LoadQueue
      <4>7. /\ wpc' \in [Workers -> WorkerLocations]
            /\ warc' \in [Workers -> Nat \ {0}]
        BY <4>2, <4>6, AdvanceTyping DEF WorkerLocations
      <4>8. /\ wout' = [wout EXCEPT ![w] = wout[w] \o DequeuePin(a, wqe[w].pin[a])]
            /\ UNCHANGED <<wqe, announced>>
        BY <2>5 DEF LoadQueue
      <4>q. QED
        BY <4>5, <4>7, <4>8 DEF WorkerTyping
    <3>2. StorageTyping' /\ StopTyping' /\ QueueTyping' /\ SchedulerTyping' /\ StreamTyping'
      BY <2>5 DEF LoadQueue, StorageTyping, StopTyping, QueueTyping, SchedulerTyping, StreamTyping
    <3>q. QED
      BY <3>1, <3>2
  <2>6. CASE DoBox(w)
    <3>1. StopTyping'
      <4>1. wpc[w] = "run"
        BY <2>6 DEF DoBox
      <4>2. Cardinality(OutArcs(wqe[w].box) \cap AppArcs) \in Nat
        BY <4>1, ElementHeld, AppOutputs
      <4>3. Len(wout[w]) \in Nat
        BY DEF WorkerTyping
      <4>4. Len(wout[w]) * Cardinality(OutArcs(wqe[w].box) \cap AppArcs) \in Nat
        BY <4>2, <4>3
      <4>q. QED
        BY <2>6, <4>4 DEF DoBox, StopTyping, CountWritten
    <3>2. WorkerTyping'
      BY <2>6 DEF DoBox, WorkerTyping, GoTo, WorkerLocations
    <3>3. StorageTyping' /\ QueueTyping' /\ SchedulerTyping' /\ StreamTyping'
      BY <2>6 DEF DoBox, StorageTyping, QueueTyping, SchedulerTyping, StreamTyping
    <3>q. QED
      BY <3>1, <3>2, <3>3
  <2>7. CASE RemoveInput(w)
    <3>1. StorageTyping'
      <4> DEFINE a == Inputs(w)[warc[w]]
                 n == wqe[w].pin[a]
      <4>1. wpc[w] = "deq" /\ DequeueRemove(w, a, n)
        BY <2>7 DEF RemoveInput
      <4>2. a \in Arcs /\ n \in Nat
        BY <4>1, InputAt
      <4> HIDE DEF a, n
      <4>3. queue[a] \in Seq(Tuples) /\ numRecords[a] \in Int
        BY <4>2 DEF StorageTyping
      <4>4. SubSeq(queue[a], n + 1, Len(queue[a])) \in Seq(Tuples)
        BY <4>2, <4>3, SubSeqType
      <4>5. queue' = [queue EXCEPT ![a] = SubSeq(queue[a], n + 1, Len(queue[a]))]
        BY <4>1 DEF DequeueRemove
      <4>6. numRecords' = [numRecords EXCEPT ![a] = numRecords[a] - n]
        BY <4>1 DEF DequeueRemove
      <4>7. arcHolder' \in [Arcs -> Threads \cup {Nobody}]
        BY <4>1, <4>2 DEF DequeueRemove, LockArc, StorageTyping, Threads
      <4>8. workSet' = workSet
        BY <4>1 DEF DequeueRemove
      <4>9. queue' \in [Arcs -> Seq(Tuples)]
        BY <4>2, <4>4, <4>5 DEF StorageTyping
      <4>10. numRecords' \in [Arcs -> Int]
        BY <4>2, <4>3, <4>6 DEF StorageTyping
      <4>q. QED
        BY <4>7, <4>8, <4>9, <4>10 DEF StorageTyping
    <3>2. WorkerTyping'
      <4>1. Len(Inputs(w)) \in Nat
        BY <2>7, InputAt DEF RemoveInput
      <4>2. AfterInputs(w) \in WorkerLocations
        BY DEF AfterInputs, WorkerLocations
      <4>3. Advance(w, Inputs(w), "deq", AfterInputs(w)) =>
              /\ wpc' \in [Workers -> WorkerLocations]
              /\ warc' \in [Workers -> Nat \ {0}]
        BY <4>1, <4>2, AdvanceTyping DEF WorkerLocations
      <4>q. QED
        BY <2>7, <4>3 DEF RemoveInput, GoTo, WorkerTyping, WorkerLocations
    <3>3. StopTyping' /\ QueueTyping' /\ SchedulerTyping' /\ StreamTyping'
      BY <2>7 DEF RemoveInput, StopTyping, QueueTyping, SchedulerTyping, StreamTyping
    <3>q. QED
      BY <3>1, <3>2, <3>3
  <2>8. CASE ForgetInput(w)
    <3>1. StorageTyping'
      <4> DEFINE a == Inputs(w)[warc[w]]
      <4>1. wpc[w] = "forget" /\ DequeueForget(w, a)
        BY <2>8 DEF ForgetInput
      <4>2. a \in Arcs
        BY <4>1, InputAt
      <4> HIDE DEF a
      <4>q. QED
        BY <4>1, <4>2 DEF DequeueForget, UnlockArc, StorageTyping
    <3>2. WorkerTyping'
      <4>1. Len(Inputs(w)) \in Nat
        BY <2>8, InputAt DEF ForgetInput
      <4>2. AfterInputs(w) \in WorkerLocations
        BY DEF AfterInputs, WorkerLocations
      <4>3. Advance(w, Inputs(w), "deq", AfterInputs(w)) =>
              /\ wpc' \in [Workers -> WorkerLocations]
              /\ warc' \in [Workers -> Nat \ {0}]
        BY <4>1, <4>2, AdvanceTyping DEF WorkerLocations
      <4>q. QED
        BY <2>8, <4>3 DEF ForgetInput, GoTo, WorkerTyping, WorkerLocations
    <3>3. StopTyping' /\ QueueTyping' /\ SchedulerTyping' /\ StreamTyping'
      BY <2>8 DEF ForgetInput, StopTyping, QueueTyping, SchedulerTyping, StreamTyping
    <3>q. QED
      BY <3>1, <3>2, <3>3
  <2>9. CASE WriteOutput(w)
    <3>1. StorageTyping'
      <4> DEFINE a == Outputs(w)[warc[w]]
                 ts == wout[w]
      <4>1. EnqueueWrite(w, a, ts)
        BY <2>9 DEF WriteOutput
      <4>2. a \in Arcs
        BY <2>9, OutputAt DEF WriteOutput
      <4>3. ts \in Seq(Tuples)
        BY DEF WorkerTyping
      <4> HIDE DEF a, ts
      <4>4. queue[a] \o ts \in Seq(Tuples)
        BY <4>2, <4>3, ConcatProperties DEF StorageTyping
      <4>5. workSet' \subseteq Boxes
        BY <4>1, <4>2, DestIsBox DEF EnqueueWrite, StorageTyping
      <4>6. /\ queue' = [queue EXCEPT ![a] = queue[a] \o ts]
            /\ arcHolder' = [arcHolder EXCEPT ![a] = w]
            /\ numRecords' = numRecords
        BY <4>1 DEF EnqueueWrite, LockArc
      <4>q. QED
        BY <4>2, <4>4, <4>5, <4>6 DEF StorageTyping, Threads
    <3>2. WorkerTyping'
      BY <2>9 DEF WriteOutput, WorkerTyping, GoTo, WorkerLocations
    <3>3. StopTyping' /\ QueueTyping' /\ SchedulerTyping' /\ StreamTyping'
      BY <2>9 DEF WriteOutput, StopTyping, QueueTyping, SchedulerTyping, StreamTyping
    <3>q. QED
      BY <3>1, <3>2, <3>3
  <2>10. CASE CountOutput(w)
    <3>1. StorageTyping'
      <4> DEFINE a == Outputs(w)[warc[w]]
                 n == Len(wout[w])
      <4>1. EnqueueCount(w, a, n)
        BY <2>10 DEF CountOutput
      <4>2. a \in Arcs
        BY <2>10, OutputAt DEF CountOutput
      <4>3. n \in Nat
        BY DEF WorkerTyping
      <4> HIDE DEF a, n
      <4>4. numRecords[a] + n \in Int
        BY <4>2, <4>3 DEF StorageTyping
      <4>5. /\ numRecords' = [numRecords EXCEPT ![a] = numRecords[a] + n]
            /\ arcHolder' = [arcHolder EXCEPT ![a] = Nobody]
            /\ UNCHANGED <<queue, workSet>>
        BY <4>1 DEF EnqueueCount, UnlockArc
      <4>q. QED
        BY <4>2, <4>4, <4>5 DEF StorageTyping
    <3>2. WorkerTyping'
      <4>1. Len(Outputs(w)) \in Nat
        BY <2>10, OutputAt DEF CountOutput
      <4>2. Advance(w, Outputs(w), "enq", "announce")
        BY <2>10 DEF CountOutput
      <4>3. /\ wpc' \in [Workers -> WorkerLocations]
            /\ warc' \in [Workers -> Nat \ {0}]
        BY <4>1, <4>2, AdvanceTyping DEF WorkerLocations
      <4>q. QED
        BY <2>10, <4>3 DEF CountOutput, WorkerTyping
    <3>3. StopTyping' /\ QueueTyping' /\ SchedulerTyping' /\ StreamTyping'
      BY <2>10 DEF CountOutput, StopTyping, QueueTyping, SchedulerTyping, StreamTyping
    <3>q. QED
      BY <3>1, <3>2, <3>3
  <2>11. CASE AnnounceNewAppTuples(w)
    <3>1. WorkerTyping'
      BY <2>11 DEF AnnounceNewAppTuples, WorkerTyping, GoTo, WorkerLocations
    <3>2. StorageTyping' /\ StopTyping' /\ QueueTyping' /\ SchedulerTyping' /\ StreamTyping'
      BY <2>11 DEF AnnounceNewAppTuples, StorageTyping, StopTyping, QueueTyping, SchedulerTyping, StreamTyping
    <3>q. QED
      BY <3>1, <3>2
  <2>12. CASE ReleaseBox(w)
    <3>1. QueueTyping'
      BY <2>12 DEF ReleaseBox, QueueTyping, UnlockBox
    <3>2. WorkerTyping'
      BY <2>12 DEF ReleaseBox, WorkerTyping, GoTo, WorkerLocations
    <3>3. StorageTyping' /\ StopTyping' /\ SchedulerTyping' /\ StreamTyping'
      BY <2>12 DEF ReleaseBox, StorageTyping, StopTyping, SchedulerTyping, StreamTyping
    <3>q. QED
      BY <3>1, <3>2, <3>3
  <2>13. CASE SignalScheduler(w)
    <3>1. QueueTyping'
      BY <2>13 DEF SignalScheduler, QueueTyping, BroadcastScheduler
    <3>2. WorkerTyping'
      BY <2>13 DEF SignalScheduler, WorkerTyping, GoTo, WorkerLocations
    <3>3. StorageTyping' /\ StopTyping' /\ SchedulerTyping' /\ StreamTyping'
      BY <2>13 DEF SignalScheduler, StorageTyping, StopTyping, SchedulerTyping, StreamTyping
    <3>q. QED
      BY <3>1, <3>2, <3>3
  <2>q. QED
    BY <2>1, <2>2, <2>3, <2>4, <2>5, <2>6, <2>7, <2>8, <2>9, <2>10, <2>11, <2>12, <2>13 DEF Worker
<1>2. CASE SchedulerNext
  <2> UNCHANGED <<workerVars, streamVars>>
    BY <1>2 DEF SchedulerNext
  <2>1. CASE WaitForEvent
    <3>1. SchedulerTyping'
      BY <2>1 DEF WaitForEvent, SchedulerTyping, SchedulerLocations
    <3>2. StorageTyping' /\ StopTyping' /\ QueueTyping' /\ WorkerTyping' /\ StreamTyping'
      BY <2>1 DEF WaitForEvent, StorageTyping, StopTyping, QueueTyping, WorkerTyping, StreamTyping
    <3>q. QED
      BY <3>1, <3>2
  <2>2. CASE SchedulerSleeps
    <3>1. QueueTyping'
      BY <2>2 DEF SchedulerSleeps, QueueTyping
    <3>2. SchedulerTyping'
      BY <2>2 DEF SchedulerSleeps, SchedulerTyping, SchedulerLocations
    <3>3. StorageTyping' /\ StopTyping' /\ WorkerTyping' /\ StreamTyping'
      BY <2>2 DEF SchedulerSleeps, StorageTyping, StopTyping, WorkerTyping, StreamTyping
    <3>q. QED
      BY <3>1, <3>2, <3>3
  <2>3. CASE SchedulerWoken
    <3>1. SchedulerTyping'
      BY <2>3 DEF SchedulerWoken, SchedulerTyping, SchedulerLocations
    <3>2. StorageTyping' /\ StopTyping' /\ QueueTyping' /\ WorkerTyping' /\ StreamTyping'
      BY <2>3 DEF SchedulerWoken, StorageTyping, StopTyping, QueueTyping, WorkerTyping, StreamTyping
    <3>q. QED
      BY <3>1, <3>2
  <2>4. CASE SchedulerTimeout
    <3>1. QueueTyping'
      BY <2>4 DEF SchedulerTimeout, QueueTyping
    <3>2. SchedulerTyping'
      BY <2>4 DEF SchedulerTimeout, SchedulerTyping, SchedulerLocations
    <3>3. StorageTyping' /\ StopTyping' /\ WorkerTyping' /\ StreamTyping'
      BY <2>4 DEF SchedulerTimeout, StorageTyping, StopTyping, WorkerTyping, StreamTyping
    <3>q. QED
      BY <3>1, <3>2, <3>3
  <2>5. CASE TestForStop
    <3>1. StopTyping'
      BY <2>5 DEF TestForStop, StopTyping, TestStop, StopSeen, StopCond
    <3>2. SchedulerTyping'
      BY <2>5 DEF TestForStop, SchedulerTyping, SchedulerLocations
    <3>3. StorageTyping' /\ QueueTyping' /\ WorkerTyping' /\ StreamTyping'
      BY <2>5 DEF TestForStop, StorageTyping, QueueTyping, WorkerTyping, StreamTyping
    <3>q. QED
      BY <3>1, <3>2, <3>3
  <2>6. CASE ReadSize
    <3>1. SchedulerTyping'
      <4>1. BeqSize - Len(beq) \in Int
        BY BeqSizeType DEF QueueTyping
      <4>q. QED
        BY <2>6, <4>1 DEF ReadSize, SchedulerTyping, SchedulerLocations
    <3>2. StorageTyping' /\ StopTyping' /\ QueueTyping' /\ WorkerTyping' /\ StreamTyping'
      BY <2>6 DEF ReadSize, StorageTyping, StopTyping, QueueTyping, WorkerTyping, StreamTyping
    <3>q. QED
      BY <3>1, <3>2
  <2>7. CASE CopyWorkSet
    <3>1. SchedulerTyping'
      BY <2>7 DEF CopyWorkSet, SchedulerTyping, SchedulerLocations, StorageTyping
    <3>2. StorageTyping' /\ StopTyping' /\ QueueTyping' /\ WorkerTyping' /\ StreamTyping'
      BY <2>7 DEF CopyWorkSet, StorageTyping, StopTyping, QueueTyping, WorkerTyping, StreamTyping
    <3>q. QED
      BY <3>1, <3>2
  <2>8. CASE \E b \in Boxes : TestBox(b)
    <3>1. SchedulerTyping'
      BY <2>8 DEF TestBox, SchedulerTyping, SchedulerLocations
    <3>2. StorageTyping' /\ StopTyping' /\ QueueTyping' /\ WorkerTyping' /\ StreamTyping'
      BY <2>8 DEF TestBox, StorageTyping, StopTyping, QueueTyping, WorkerTyping, StreamTyping
    <3>q. QED
      BY <3>1, <3>2
  <2>9. CASE OrderCandidates
    <3>1. SchedulerTyping'
      <4>1. PICK s \in Orders :
              /\ candidates' = s
              /\ lastBox' = IF Policy = "BOX_RR_TYPE" /\ s # <<>> THEN s[1]
                            ELSE lastBox
        BY <2>9 DEF OrderCandidates
      <4>2. s \in Seq(Boxes)
        BY OrdersType DEF SchedulerTyping
      <4>3. s # <<>> => s[1] \in Nat
        <5>1. s # <<>> => s[1] \in Boxes
          BY <4>2
        <5>q. QED
          BY <5>1, CatalogAssumption
      <4>4. lastBox' \in Nat
        BY <4>1, <4>3 DEF SchedulerTyping
      <4>q. QED
        BY <2>9, <4>1, <4>2, <4>4 DEF OrderCandidates, SchedulerTyping, SchedulerLocations
    <3>2. StorageTyping' /\ StopTyping' /\ QueueTyping' /\ WorkerTyping' /\ StreamTyping'
      BY <2>9 DEF OrderCandidates, StorageTyping, StopTyping, QueueTyping, WorkerTyping, StreamTyping
    <3>q. QED
      BY <3>1, <3>2
  <2>10. CASE LoadSingleBox
    <3>1. QueueTyping'
      <4>1. candidates[next] \in Boxes
        BY <2>10 DEF LoadSingleBox, MoreToLoad, SchedulerTyping
      <4>q. QED
        BY <2>10, <4>1 DEF LoadSingleBox, LockBoxTry, QueueTyping
    <3>2. SchedulerTyping'
      <4>1. candidates[next] \in Boxes
        BY <2>10 DEF LoadSingleBox, MoreToLoad, SchedulerTyping
      <4>2. loaded' \in QueueElements
        BY <2>10, <4>1 DEF LoadSingleBox, QueueElements
      <4>q. QED
        BY <2>10, <4>2 DEF LoadSingleBox, SchedulerTyping, SchedulerLocations
    <3>3. StorageTyping' /\ StopTyping' /\ WorkerTyping' /\ StreamTyping'
      BY <2>10 DEF LoadSingleBox, StorageTyping, StopTyping, WorkerTyping, StreamTyping
    <3>q. QED
      BY <3>1, <3>2, <3>3
  <2>11. CASE SkipLockedBox
    <3>1. SchedulerTyping'
      BY <2>11 DEF SkipLockedBox, SchedulerTyping, SchedulerLocations
    <3>2. StorageTyping' /\ StopTyping' /\ QueueTyping' /\ WorkerTyping' /\ StreamTyping'
      BY <2>11 DEF SkipLockedBox, StorageTyping, StopTyping, QueueTyping, WorkerTyping, StreamTyping
    <3>q. QED
      BY <3>1, <3>2
  <2>12. CASE PinInput
    <3>1. SchedulerTyping'
      <4>1. loaded' \in QueueElements
        BY <2>12, PinnedInput
      <4>2. nextArc' \in Nat \ {0} /\ spc' \in SchedulerLocations
        BY <2>12 DEF PinInput, SchedulerTyping, SchedulerLocations
      <4>q. QED
        BY <2>12, <4>1, <4>2 DEF PinInput, SchedulerTyping
    <3>2. StorageTyping' /\ StopTyping' /\ QueueTyping' /\ WorkerTyping' /\ StreamTyping'
      BY <2>12 DEF PinInput, StorageTyping, StopTyping, QueueTyping, WorkerTyping, StreamTyping
    <3>q. QED
      BY <3>1, <3>2
  <2>13. CASE PushElement
    <3>1. QueueTyping'
      <4>1. loaded \in QueueElements
        BY <2>13 DEF PushElement, SchedulerPhases, SchedulerTyping
      <4>q. QED
        BY <2>13, <4>1, AppendProperties DEF PushElement, Push, QueueTyping
    <3>2. SchedulerTyping'
      BY <2>13 DEF PushElement, SchedulerTyping, SchedulerLocations
    <3>3. StorageTyping' /\ StopTyping' /\ WorkerTyping' /\ StreamTyping'
      BY <2>13 DEF PushElement, StorageTyping, StopTyping, WorkerTyping, StreamTyping
    <3>q. QED
      BY <3>1, <3>2, <3>3
  <2>14. CASE RefillDone
    <3>1. SchedulerTyping'
      BY <2>14 DEF RefillDone, SchedulerTyping, SchedulerLocations
    <3>2. StorageTyping' /\ StopTyping' /\ QueueTyping' /\ WorkerTyping' /\ StreamTyping'
      BY <2>14 DEF RefillDone, StorageTyping, StopTyping, QueueTyping, WorkerTyping, StreamTyping
    <3>q. QED
      BY <3>1, <3>2
  <2>15. CASE \E u \in Workers : SignalWorker(u)
    <3>1. QueueTyping'
      BY <2>15 DEF SignalWorker, QueueTyping, Signal
    <3>2. SchedulerTyping'
      BY <2>15 DEF SignalWorker, SchedulerTyping, SchedulerLocations
    <3>3. StorageTyping' /\ StopTyping' /\ WorkerTyping' /\ StreamTyping'
      BY <2>15 DEF SignalWorker, StorageTyping, StopTyping, WorkerTyping, StreamTyping
    <3>q. QED
      BY <3>1, <3>2, <3>3
  <2>16. CASE JoinWorker(Ended)
    <3>1. SchedulerTyping'
      BY <2>16 DEF JoinWorker, SchedulerTyping, SchedulerLocations
    <3>2. StorageTyping' /\ StopTyping' /\ QueueTyping' /\ WorkerTyping' /\ StreamTyping'
      BY <2>16 DEF JoinWorker, StorageTyping, StopTyping, QueueTyping, WorkerTyping, StreamTyping
    <3>q. QED
      BY <3>1, <3>2
  <2>q. QED
    BY <1>2, <2>1, <2>2, <2>3, <2>4, <2>5, <2>6, <2>7, <2>8, <2>9, <2>10, <2>11, <2>12, <2>13, <2>14, <2>15, <2>16 DEF SchedulerNext, SchedulerStep
<1>3. CASE StreamNext
  <2> UNCHANGED <<schedVars, workerVars>>
    BY <1>3 DEF StreamNext
  <2>1. CASE \E a \in InputArcs : GenerateTuple(a)
    <3>1. StreamTyping'
      BY <2>1 DEF GenerateTuple, StreamTyping, StreamLocations
    <3>2. StorageTyping' /\ StopTyping' /\ QueueTyping' /\ WorkerTyping' /\ SchedulerTyping'
      BY <2>1 DEF GenerateTuple, StorageTyping, StopTyping, QueueTyping, WorkerTyping, SchedulerTyping
    <3>q. QED
      BY <3>1, <3>2
  <2>2. CASE StoreTuple
    <3>1. StorageTyping'
      <4> DEFINE a == parc
                 ts == <<<<parc, generated[parc]>>>>
      <4>1. EnqueueWrite(Stream, a, ts)
        BY <2>2 DEF StoreTuple
      <4>2. a \in Arcs /\ a \in InputArcs
        BY <2>2 DEF StoreTuple, StreamPhases, InputArcs
      <4>3. ts \in Seq(Tuples)
        <5>1. <<parc, generated[parc]>> \in Tuples
          BY <4>2 DEF StreamTyping, Tuples
        <5>q. QED
          BY <5>1
      <4> HIDE DEF a, ts
      <4>4. queue[a] \o ts \in Seq(Tuples)
        BY <4>2, <4>3, ConcatProperties DEF StorageTyping
      <4>5. workSet' \subseteq Boxes
        BY <4>1, <4>2, DestIsBox DEF EnqueueWrite, StorageTyping
      <4>6. /\ queue' = [queue EXCEPT ![a] = queue[a] \o ts]
            /\ arcHolder' = [arcHolder EXCEPT ![a] = Stream]
            /\ numRecords' = numRecords
        BY <4>1 DEF EnqueueWrite, LockArc
      <4>q. QED
        BY <4>2, <4>4, <4>5, <4>6 DEF StorageTyping, Threads
    <3>2. StreamTyping'
      BY <2>2 DEF StoreTuple, StreamTyping, StreamLocations
    <3>3. StopTyping' /\ QueueTyping' /\ WorkerTyping' /\ SchedulerTyping'
      BY <2>2 DEF StoreTuple, StopTyping, QueueTyping, WorkerTyping, SchedulerTyping
    <3>q. QED
      BY <3>1, <3>2, <3>3
  <2>3. CASE CountTuple
    <3>1. StorageTyping'
      <4> DEFINE a == parc
                 n == 1
      <4>1. EnqueueCount(Stream, a, n)
        BY <2>3 DEF CountTuple
      <4>2. a \in Arcs
        BY <2>3 DEF CountTuple, StreamPhases, InputArcs
      <4>3. n \in Nat
        OBVIOUS
      <4> HIDE DEF a, n
      <4>4. numRecords[a] + n \in Int
        BY <4>2, <4>3 DEF StorageTyping
      <4>5. /\ numRecords' = [numRecords EXCEPT ![a] = numRecords[a] + n]
            /\ arcHolder' = [arcHolder EXCEPT ![a] = Nobody]
            /\ UNCHANGED <<queue, workSet>>
        BY <4>1 DEF EnqueueCount, UnlockArc
      <4>q. QED
        BY <4>2, <4>4, <4>5 DEF StorageTyping
    <3>2. StreamTyping'
      BY <2>3 DEF CountTuple, StreamTyping, StreamLocations
    <3>3. StopTyping' /\ QueueTyping' /\ WorkerTyping' /\ SchedulerTyping'
      BY <2>3 DEF CountTuple, StopTyping, QueueTyping, WorkerTyping, SchedulerTyping
    <3>q. QED
      BY <3>1, <3>2, <3>3
  <2>4. CASE WakeScheduler
    <3>1. QueueTyping'
      BY <2>4 DEF WakeScheduler, QueueTyping, BroadcastScheduler
    <3>2. StreamTyping'
      BY <2>4 DEF WakeScheduler, StreamTyping, StreamLocations
    <3>3. StorageTyping' /\ StopTyping' /\ WorkerTyping' /\ SchedulerTyping'
      BY <2>4 DEF WakeScheduler, StorageTyping, StopTyping, WorkerTyping, SchedulerTyping
    <3>q. QED
      BY <3>1, <3>2, <3>3
  <2>5. CASE StreamEnds
    <3>1. StreamTyping'
      BY <2>5 DEF StreamEnds, StreamTyping, StreamLocations
    <3>2. StorageTyping' /\ StopTyping' /\ QueueTyping' /\ WorkerTyping' /\ SchedulerTyping'
      BY <2>5 DEF StreamEnds, StorageTyping, StopTyping, QueueTyping, WorkerTyping, SchedulerTyping
    <3>q. QED
      BY <3>1, <3>2
  <2>q. QED
    BY <1>3, <2>1, <2>2, <2>3, <2>4, <2>5 DEF StreamNext, StreamStep
<1>4. CASE TimePasses
  <2>1. StopTyping'
    BY <1>4 DEF TimePasses, StopTyping, Expire
  <2>2. StorageTyping' /\ QueueTyping' /\ WorkerTyping' /\ SchedulerTyping' /\ StreamTyping'
    BY <1>4 DEF TimePasses, StorageTyping, QueueTyping, WorkerTyping, SchedulerTyping, StreamTyping
  <2>q. QED
    BY <2>1, <2>2
<1>5. CASE UNCHANGED vars
  BY <1>5 DEF vars, StorageTyping, StopTyping, QueueTyping, WorkerTyping, SchedulerTyping, StreamTyping
<1>q. QED
  BY <1>1, <1>2, <1>3, <1>4, <1>5 DEF Next

-----------------------------------------------------------------------------
(* Exclusion: an element moves from the scheduler into the execution queue, *)
(* from there to a worker, and is gone when the worker releases its box; at *)
(* each of these moves the lock of the box goes along.                      *)

\* Worker w pops an element; worker w deletes its element.
Takes(w) == /\ wqe[w] = NoQE
            /\ Pop
            /\ wqe' = [wqe EXCEPT ![w] = Head(beq)]
            /\ wpc' = [wpc EXCEPT ![w] = "popped"]
            /\ UNCHANGED <<loaded, boxLocked>>

Releases(w) == /\ wqe[w] # NoQE
               /\ UnlockBox(wqe[w].box)
               /\ wqe' = [wqe EXCEPT ![w] = NoQE]
               /\ UNCHANGED <<beq, loaded>>

\* The steps that move an element or look up another tuple count for it;
\* all the others leave elements and box locks alone.
LEMMA ElementSteps ==
  ASSUME TypeOK, [Next]_vars
  PROVE  \/ UNCHANGED <<beq, wqe, loaded, boxLocked>>
         \/ \E w \in Workers : Takes(w)
         \/ \E w \in Workers : Releases(w)
         \/ LoadSingleBox /\ UNCHANGED wqe
         \/ PinInput /\ UNCHANGED wqe
         \/ PushElement /\ UNCHANGED wqe
<1>1. CASE \E w \in Workers : WorkerStep(w)
  <2> PICK w \in Workers : WorkerStep(w)
    BY <1>1
  <2>0. Worker(w) /\ UNCHANGED loaded
    BY DEF WorkerStep
  <2>1. CASE CheckQueue(w)
    <3>1. wpc[w] = "queue" /\ wqe[w] = NoQE
      BY <2>1 DEF CheckQueue, TypeOK, WorkerPhases, WorkerPhase
    <3>2. CASE Pop /\ wqe' = [wqe EXCEPT ![w] = Head(beq)]
      BY <2>0, <2>1, <3>1, <3>2 DEF CheckQueue, Takes, Pop, SignalIfEmpty, GoTo
    <3>3. CASE UNCHANGED <<beq, wqe>>
      BY <2>0, <2>1, <3>3 DEF CheckQueue
    <3>q. QED
      BY <2>1, <3>2, <3>3 DEF CheckQueue, SignalIfEmpty
  <2>2. CASE ReleaseBox(w)
    <3>1. wqe[w] # NoQE
      BY <2>2, ElementHeld DEF ReleaseBox
    <3>q. QED
      BY <2>0, <2>2, <3>1 DEF ReleaseBox, Releases
  <2>3. CASE AtTop(w)
    BY <2>0, <2>3 DEF AtTop
  <2>4. CASE WaitForWork(w)
    BY <2>0, <2>4 DEF WaitForWork, Wait
  <2>5. CASE CheckStop(w)
    BY <2>0, <2>5 DEF CheckStop
  <2>6. CASE LoadQueue(w)
    BY <2>0, <2>6 DEF LoadQueue
  <2>7. CASE DoBox(w)
    BY <2>0, <2>7 DEF DoBox
  <2>8. CASE RemoveInput(w)
    BY <2>0, <2>8 DEF RemoveInput
  <2>9. CASE ForgetInput(w)
    BY <2>0, <2>9 DEF ForgetInput
  <2>10. CASE WriteOutput(w)
    BY <2>0, <2>10 DEF WriteOutput
  <2>11. CASE CountOutput(w)
    BY <2>0, <2>11 DEF CountOutput
  <2>12. CASE AnnounceNewAppTuples(w)
    BY <2>0, <2>12 DEF AnnounceNewAppTuples
  <2>13. CASE SignalScheduler(w)
    BY <2>0, <2>13 DEF SignalScheduler
  <2>q. QED
    BY <2>0, <2>1, <2>2, <2>3, <2>4, <2>5, <2>6, <2>7, <2>8, <2>9, <2>10, <2>11, <2>12, <2>13 DEF Worker
<1>2. CASE SchedulerNext
  <2>1. UNCHANGED wqe
    BY <1>2 DEF SchedulerNext
  <2>2. CASE WaitForEvent
    BY <2>1, <2>2 DEF WaitForEvent
  <2>3. CASE SchedulerSleeps
    BY <2>1, <2>3 DEF SchedulerSleeps
  <2>4. CASE SchedulerWoken
    BY <2>1, <2>4 DEF SchedulerWoken
  <2>5. CASE SchedulerTimeout
    BY <2>1, <2>5 DEF SchedulerTimeout
  <2>6. CASE TestForStop
    BY <2>1, <2>6 DEF TestForStop
  <2>7. CASE ReadSize
    BY <2>1, <2>7 DEF ReadSize
  <2>8. CASE CopyWorkSet
    BY <2>1, <2>8 DEF CopyWorkSet
  <2>9. CASE \E b \in Boxes : TestBox(b)
    BY <2>1, <2>9 DEF TestBox
  <2>10. CASE OrderCandidates
    BY <2>1, <2>10 DEF OrderCandidates
  <2>11. CASE SkipLockedBox
    BY <2>1, <2>11 DEF SkipLockedBox
  <2>12. CASE RefillDone
    BY <2>1, <2>12 DEF RefillDone
  <2>13. CASE \E u \in Workers : SignalWorker(u)
    BY <2>1, <2>13 DEF SignalWorker, Signal
  <2>14. CASE JoinWorker(Ended)
    BY <2>1, <2>14 DEF JoinWorker
  <2>q. QED
    BY <1>2, <2>1, <2>2, <2>3, <2>4, <2>5, <2>6, <2>7, <2>8, <2>9, <2>10, <2>11, <2>12, <2>13, <2>14 DEF SchedulerNext, SchedulerStep
<1>3. CASE StreamNext
  BY <1>3 DEF StreamNext, StreamStep, GenerateTuple, StoreTuple, CountTuple,
    WakeScheduler, StreamEnds
<1>4. CASE TimePasses
  BY <1>4 DEF TimePasses
<1>5. CASE UNCHANGED vars
  BY <1>5 DEF vars
<1>q. QED
  BY <1>1, <1>2, <1>3, <1>4, <1>5 DEF Next

\* What pop returns and what it leaves.
LEMMA TakesElement ==
  ASSUME TypeOK, NEW w \in Workers, Takes(w)
  PROVE  /\ beq[1] \in QueueElements
         /\ beq[1] # NoQE
         /\ 1 \in DOMAIN beq
         /\ DOMAIN beq' = 1..(Len(beq) - 1)
         /\ \A i \in DOMAIN beq' : i + 1 \in DOMAIN beq /\ beq'[i] = beq[i + 1]
         /\ \A i \in DOMAIN beq :
              i # 1 => i - 1 \in DOMAIN beq' /\ beq'[i - 1] = beq[i]
         /\ Len(beq) \in Nat \ {0}
         /\ DOMAIN beq = 1..Len(beq)
         /\ Busy' = Busy \cup {w}
         /\ w \notin Busy
         /\ wqe'[w] = beq[1]
         /\ \A v \in Busy : wqe'[v] = wqe[v]
<1>1. beq \in Seq(QueueElements) /\ beq # <<>> /\ beq' = Tail(beq)
  BY DEF TypeOK, Typing, QueueTyping, Takes, Pop
<1>2. /\ Len(beq) \in Nat \ {0}
      /\ DOMAIN beq = 1..Len(beq)
      /\ Head(beq) = beq[1]
  BY <1>1
<1>3. /\ beq' \in Seq(QueueElements)
      /\ Len(beq') = Len(beq) - 1
      /\ \A i \in 1..Len(beq') : beq'[i] = beq[i + 1]
  BY <1>1, HeadTailProperties
<1>4. DOMAIN beq' = 1..(Len(beq) - 1)
  BY <1>3
<1>5. beq[1] \in QueueElements /\ beq[1] # NoQE
  BY <1>1, <1>2, QEAssumption
<1>6. wqe' = [wqe EXCEPT ![w] = beq[1]] /\ wqe[w] = NoQE
  BY <1>2 DEF Takes
<1>7. Busy' = Busy \cup {w} /\ w \notin Busy
  BY <1>5, <1>6 DEF Busy, TypeOK, Typing, WorkerTyping
<1>8. \A i \in DOMAIN beq :
        i # 1 => i - 1 \in DOMAIN beq' /\ beq'[i - 1] = beq[i]
  <2> SUFFICES ASSUME NEW i \in DOMAIN beq, i # 1
               PROVE  i - 1 \in DOMAIN beq' /\ beq'[i - 1] = beq[i]
    OBVIOUS
  <2>1. i \in Int /\ i - 1 \in 1..Len(beq') /\ (i - 1) + 1 = i
    BY <1>2, <1>3
  <2>q. QED
    BY <1>3, <1>4, <2>1
<1>q. QED
  BY <1>2, <1>3, <1>4, <1>5, <1>6, <1>7, <1>8
    DEF TypeOK, Typing, WorkerTyping, Busy

\* What push leaves.
LEMMA PushedElement ==
  ASSUME TypeOK, PushElement, UNCHANGED wqe
  PROVE  /\ loaded \in QueueElements
         /\ loaded # NoQE
         /\ loaded' = NoQE
         /\ Len(beq) \in Nat
         /\ DOMAIN beq = 1..Len(beq)
         /\ DOMAIN beq' = 1..(Len(beq) + 1)
         /\ \A i \in DOMAIN beq : beq'[i] = beq[i]
         /\ beq'[Len(beq) + 1] = loaded
         /\ Busy' = Busy
<1>1. beq \in Seq(QueueElements) /\ loaded \in QueueElements /\ loaded # NoQE
  BY DEF TypeOK, Typing, QueueTyping, SchedulerTyping, SchedulerPhases,
    PushElement
<1>2. beq' = Append(beq, loaded) /\ loaded' = NoQE
  BY DEF PushElement, Push
<1>3. Len(beq) \in Nat /\ DOMAIN beq = 1..Len(beq)
  BY <1>1
<1>4. /\ beq' \in Seq(QueueElements)
      /\ Len(beq') = Len(beq) + 1
      /\ \A i \in 1..Len(beq) : beq'[i] = beq[i]
      /\ beq'[Len(beq) + 1] = loaded
  BY <1>1, <1>2, AppendProperties
<1>q. QED
  BY <1>1, <1>2, <1>3, <1>4 DEF Busy

\* A box is run by one thread at a time, after the step as before it.
LEMMA ExclusionStep ==
  ASSUME TypeOK, BoxExclusion, [Next]_vars
  PROVE  BoxExclusion'
<1> USE DEF BoxExclusion
<1>1. CASE UNCHANGED <<beq, wqe, loaded, boxLocked>>
  BY <1>1 DEF QueuedOnce, BusyOnce, NotBoth, LoadedOnce, LocksHeld, Busy
<1>2. CASE \E w \in Workers : Takes(w)
  <2> PICK w \in Workers : Takes(w)
    BY <1>2
  <2>0. loaded' = loaded /\ boxLocked' = boxLocked
    BY DEF Takes
  <2>1. QueuedOnce'
    BY TakesElement DEF QueuedOnce
  <2>2. BusyOnce'
    BY TakesElement DEF BusyOnce, NotBoth
  <2>3. NotBoth'
    <3> SUFFICES ASSUME NEW i \in DOMAIN beq', NEW v \in Busy'
                 PROVE  beq'[i].box # wqe'[v].box
      BY DEF NotBoth
    <3>1. /\ i + 1 \in DOMAIN beq /\ 1 \in DOMAIN beq /\ i + 1 # 1
          /\ beq'[i] = beq[i + 1]
      BY TakesElement
    <3>2. CASE v = w
      BY <3>1, <3>2, TakesElement DEF QueuedOnce
    <3>3. CASE v \in Busy
      BY <3>1, <3>3, TakesElement DEF NotBoth
    <3>4. Busy' = Busy \cup {w}
      BY TakesElement
    <3>q. QED
      BY <3>2, <3>3, <3>4
  <2>4. LoadedOnce'
    <3> SUFFICES ASSUME loaded # NoQE
                 PROVE  /\ \A i \in DOMAIN beq' : beq'[i].box # loaded.box
                        /\ \A v \in Busy' : wqe'[v].box # loaded.box
      BY <2>0 DEF LoadedOnce
    <3>1. \A i \in DOMAIN beq' : beq'[i].box # loaded.box
      BY TakesElement DEF LoadedOnce
    <3>2. wqe'[w].box # loaded.box
      BY TakesElement DEF LoadedOnce
    <3>3. \A v \in Busy : wqe'[v].box # loaded.box
      BY TakesElement DEF LoadedOnce
    <3>4. Busy' = Busy \cup {w}
      BY TakesElement
    <3>q. QED
      BY <3>1, <3>2, <3>3, <3>4
  <2>5. LocksHeld'
    <3>1. {beq[i].box : i \in DOMAIN beq} =
            {beq'[i].box : i \in DOMAIN beq'} \cup {beq[1].box}
      <4>1. ASSUME NEW i \in DOMAIN beq
            PROVE  beq[i].box \in {beq'[j].box : j \in DOMAIN beq'} \cup {beq[1].box}
        BY TakesElement
      <4>2. ASSUME NEW i \in DOMAIN beq'
            PROVE  beq'[i].box \in {beq[j].box : j \in DOMAIN beq}
        BY TakesElement
      <4>3. beq[1].box \in {beq[j].box : j \in DOMAIN beq}
        BY TakesElement
      <4>q. QED
        BY <4>1, <4>2, <4>3
    <3>2. {wqe'[v].box : v \in Busy'} = {wqe[v].box : v \in Busy} \cup {beq[1].box}
      <4>1. Busy' = Busy \cup {w}
        BY TakesElement
      <4>2. wqe'[w].box = beq[1].box
        BY TakesElement
      <4>3. \A v \in Busy : wqe'[v].box = wqe[v].box
        BY TakesElement
      <4>q. QED
        BY <4>1, <4>2, <4>3
    <3>q. QED
      BY <2>0, <3>1, <3>2 DEF LocksHeld
  <2>q. QED
    BY <2>1, <2>2, <2>3, <2>4, <2>5
<1>3. CASE \E w \in Workers : Releases(w)
  <2> PICK w \in Workers : Releases(w)
    BY <1>3
  <2>1. /\ UNCHANGED <<beq, loaded>>
        /\ w \in Busy
        /\ Busy' = Busy \ {w}
        /\ \A v \in Busy' : wqe'[v] = wqe[v]
        /\ boxLocked' = boxLocked \ {wqe[w].box}
    BY DEF Releases, UnlockBox, Busy, TypeOK, Typing, WorkerTyping
  <2>2. QueuedOnce' /\ BusyOnce' /\ NotBoth' /\ LoadedOnce'
    BY <2>1 DEF QueuedOnce, BusyOnce, NotBoth, LoadedOnce
  <2>3. LocksHeld'
    <3>1. {wqe'[v].box : v \in Busy'} = {wqe[v].box : v \in Busy} \ {wqe[w].box}
      BY <2>1 DEF BusyOnce
    <3>2. wqe[w].box \notin {beq[i].box : i \in DOMAIN beq}
      BY <2>1 DEF NotBoth
    <3>3. loaded # NoQE => wqe[w].box # loaded.box
      BY <2>1 DEF LoadedOnce
    <3>q. QED
      BY <2>1, <3>1, <3>2, <3>3 DEF LocksHeld
  <2>q. QED
    BY <2>2, <2>3
<1>4. CASE LoadSingleBox /\ UNCHANGED wqe
  <2> DEFINE b == candidates[next]
  <2>1. /\ loaded'.box = b
        /\ b \notin boxLocked
        /\ boxLocked' = boxLocked \cup {b}
        /\ UNCHANGED <<beq, wqe>>
        /\ loaded = NoQE
    BY <1>4 DEF LoadSingleBox, LockBoxTry, TypeOK, SchedulerPhases
  <2>2. Busy' = Busy
    BY <2>1 DEF Busy
  <2> HIDE DEF b
  <2>3. QueuedOnce' /\ BusyOnce' /\ NotBoth'
    BY <2>1, <2>2 DEF QueuedOnce, BusyOnce, NotBoth
  <2>4. LoadedOnce'
    BY <2>1, <2>2 DEF LoadedOnce, LocksHeld
  <2>5. loaded' # NoQE
    BY <1>4, LoadedElement
  <2>6. LocksHeld'
    BY <2>1, <2>2, <2>5 DEF LocksHeld
  <2>q. QED
    BY <2>3, <2>4, <2>6
<1>5. CASE PinInput /\ UNCHANGED wqe
  <2>1. loaded \in QueueElements /\ loaded' \in QueueElements
    BY <1>5, PinnedInput
  <2>2. /\ loaded # NoQE /\ loaded' # NoQE
        /\ loaded'.box = loaded.box
        /\ UNCHANGED <<beq, wqe, boxLocked>>
    BY <1>5, <2>1, QEAssumption DEF PinInput
  <2>q. QED
    BY <2>2 DEF QueuedOnce, BusyOnce, NotBoth, LoadedOnce, LocksHeld, Busy
<1>6. CASE PushElement /\ UNCHANGED wqe
  <2>0. UNCHANGED <<wqe, boxLocked>>
    BY <1>6 DEF PushElement
  <2>1. QueuedOnce'
    BY <1>6, PushedElement DEF QueuedOnce, LoadedOnce
  <2>2. BusyOnce'
    BY <1>6, <2>0, PushedElement DEF BusyOnce
  <2>3. NotBoth'
    BY <1>6, <2>0, PushedElement DEF NotBoth, LoadedOnce
  <2>4. LoadedOnce'
    BY <1>6, PushedElement DEF LoadedOnce
  <2>5. LocksHeld'
    <3>1. {beq'[i].box : i \in DOMAIN beq'} =
            {beq[i].box : i \in DOMAIN beq} \cup {loaded.box}
      BY <1>6, PushedElement
    <3>q. QED
      BY <1>6, <2>0, <3>1, PushedElement DEF LocksHeld
  <2>q. QED
    BY <2>1, <2>2, <2>3, <2>4, <2>5
<1>q. QED
  BY <1>1, <1>2, <1>3, <1>4, <1>5, <1>6, ElementSteps

\* An element takes tuples from the inputs of its box only.
LEMMA PinsOwnedStep ==
  ASSUME TypeOK, PinsOwned, [Next]_vars
  PROVE  PinsOwned'
<1>1. CASE UNCHANGED <<beq, wqe, loaded, boxLocked>>
  BY <1>1 DEF PinsOwned, Busy
<1>2. CASE \E w \in Workers : Takes(w)
  <2> PICK w \in Workers : Takes(w)
    BY <1>2
  <2>1. loaded' = loaded
    BY DEF Takes
  <2>2. \A i \in DOMAIN beq', a \in Arcs :
          beq'[i].pin[a] # 0 => a \in InArcs(beq'[i].box)
    BY TakesElement DEF PinsOwned
  <2>3. \A v \in Busy', a \in Arcs :
          wqe'[v].pin[a] # 0 => a \in InArcs(wqe'[v].box)
    BY TakesElement DEF PinsOwned
  <2>q. QED
    BY <2>1, <2>2, <2>3 DEF PinsOwned
<1>3. CASE \E w \in Workers : Releases(w)
  BY <1>3 DEF PinsOwned, Releases, Busy, TypeOK, Typing, WorkerTyping
<1>4. CASE LoadSingleBox /\ UNCHANGED wqe
  BY <1>4 DEF PinsOwned, LoadSingleBox, Busy
<1>5. CASE PinInput /\ UNCHANGED wqe
  <2> DEFINE a == InputQueueIds[loaded.box][nextArc]
  <2>1. /\ loaded \in QueueElements /\ loaded # NoQE
        /\ a \in InArcs(loaded.box)
        /\ loaded'.box = loaded.box
        /\ loaded'.pin = [loaded.pin EXCEPT ![a] = Train(numRecords[a])]
    BY <1>5, PinnedInput
  <2>2. loaded.pin \in [Arcs -> Int]
    BY <2>1 DEF QueueElements
  <2>3. UNCHANGED <<beq, wqe>>
    BY <1>5 DEF PinInput
  <2> HIDE DEF a
  <2>4. \A c \in Arcs : loaded'.pin[c] # 0 => c \in InArcs(loaded'.box)
    BY <2>1, <2>2 DEF PinsOwned
  <2>q. QED
    BY <2>3, <2>4 DEF PinsOwned, Busy
<1>6. CASE PushElement /\ UNCHANGED wqe
  <2>1. \A i \in DOMAIN beq' : i \in DOMAIN beq \/ i = Len(beq) + 1
    BY <1>6, PushedElement
  <2>q. QED
    BY <1>6, <2>1, PushedElement DEF PinsOwned
<1>q. QED
  BY <1>1, <1>2, <1>3, <1>4, <1>5, <1>6, ElementSteps
------------------------------------------------------------------------------
(***************************************************************************)
(* Every step of the runtime keeps the record count of an arc equal to the *)
(* length of its queue outside the arc's critical section, and every pin   *)
(* within it.  The second rests on the exclusion of the boxes: only the    *)
(* worker that has a box removes tuples from the inputs of that box.       *)
(***************************************************************************)

\* A worker that neither empties an input nor stores an output holds no arc.
LEMMA HoldsNone ==
  ASSUME ArcSections, NEW w \in Workers, wpc[w] \notin {"forget", "count"},
         NEW a \in Arcs
  PROVE  arcHolder[a] # w
BY DEF ArcSections

\* The steps that do not go into or out of an arc's critical section.
Elsewhere ==
  /\ UNCHANGED <<queue, numRecords, workSet, arcHolder>>
  /\ \A u \in Workers : wpc[u] \in {"forget", "count"} =>
       /\ wpc'[u] = wpc[u]
       /\ wqe'[u] = wqe[u]
       /\ wout'[u] = wout[u]
       /\ warc'[u] = warc[u]
  /\ ppc = "count" => UNCHANGED <<ppc, parc>>

\* A step enters or leaves an arc's critical section, or is elsewhere.
LEMMA ArcSteps ==
  ASSUME TypeOK, [Next]_vars
  PROVE  \/ Elsewhere
         \/ \E w \in Workers :
              /\ RemoveInput(w) \/ ForgetInput(w) \/ WriteOutput(w) \/ CountOutput(w)
              /\ WorkerStep(w)
         \/ (StoreTuple \/ CountTuple) /\ UNCHANGED workerVars
<1>1. CASE \E w \in Workers : WorkerStep(w)
  <2> PICK w \in Workers : WorkerStep(w)
    BY <1>1
  <2>0. Worker(w) /\ UNCHANGED streamVars
    BY DEF WorkerStep
  <2>1. CASE RemoveInput(w) \/ ForgetInput(w) \/ WriteOutput(w) \/ CountOutput(w)
    BY <2>0, <2>1
  <2>2. ASSUME UNCHANGED <<queue, numRecords, workSet, arcHolder>>,
               wpc[w] \notin {"forget", "count"}
        PROVE  Elsewhere
    <3>1. \A u \in Workers : wpc[u] \in {"forget", "count"} => u # w
      BY <2>2
    <3>q. QED
      BY <2>0, <2>2, <3>1, OtherWorkers DEF Elsewhere, TypeOK, Typing, streamVars
  <2>3. CASE AtTop(w)
    BY <2>2, <2>3 DEF AtTop, smVars
  <2>4. CASE CheckQueue(w)
    BY <2>2, <2>4 DEF CheckQueue, smVars
  <2>5. CASE WaitForWork(w)
    BY <2>2, <2>5 DEF WaitForWork, smVars
  <2>6. CASE CheckStop(w)
    BY <2>2, <2>6 DEF CheckStop, smVars
  <2>7. CASE LoadQueue(w)
    BY <2>2, <2>7 DEF LoadQueue, smVars
  <2>8. CASE DoBox(w)
    BY <2>2, <2>8 DEF DoBox, smVars
  <2>9. CASE AnnounceNewAppTuples(w)
    BY <2>2, <2>9 DEF AnnounceNewAppTuples, smVars
  <2>10. CASE ReleaseBox(w)
    BY <2>2, <2>10 DEF ReleaseBox, smVars
  <2>11. CASE SignalScheduler(w)
    BY <2>2, <2>11 DEF SignalScheduler, smVars
  <2>q. QED
    BY <2>0, <2>1, <2>3, <2>4, <2>5, <2>6, <2>7, <2>8, <2>9, <2>10, <2>11 DEF Worker
<1>s. ASSUME UNCHANGED workerVars, UNCHANGED streamVars, UNCHANGED smVars
      PROVE  Elsewhere
  BY <1>s DEF Elsewhere, workerVars, streamVars, smVars
<1>2. CASE SchedulerNext
  <2>1. UNCHANGED workerVars /\ UNCHANGED streamVars
    BY <1>2 DEF SchedulerNext
  <2>2. UNCHANGED smVars
    BY <1>2 DEF SchedulerNext, SchedulerStep, WaitForEvent, SchedulerSleeps,
      SchedulerWoken, SchedulerTimeout, TestForStop, ReadSize, CopyWorkSet,
      TestBox, OrderCandidates, LoadSingleBox, SkipLockedBox, PinInput,
      PushElement, RefillDone, SignalWorker, JoinWorker
  <2>q. QED
    BY <1>s, <2>1, <2>2
<1>3. CASE StreamNext
  <2>1. StreamStep /\ UNCHANGED workerVars
    BY <1>3 DEF StreamNext
  <2>2. CASE StoreTuple \/ CountTuple
    BY <2>1, <2>2
  <2>3. CASE (\E a \in InputArcs : GenerateTuple(a)) \/ WakeScheduler \/ StreamEnds
    BY <2>1, <2>3 DEF GenerateTuple, WakeScheduler, StreamEnds, Elsewhere,
      workerVars, smVars
  <2>q. QED
    BY <2>1, <2>2, <2>3 DEF StreamStep
<1>4. CASE TimePasses
  BY <1>4, <1>s DEF TimePasses
<1>5. CASE UNCHANGED vars
  BY <1>5, <1>s DEF vars
<1>q. QED
  BY <1>1, <1>2, <1>3, <1>4, <1>5 DEF Next

\* The two ways an arc's queue and count change under its mutex.
LEMMA RemoveEffect ==
  ASSUME TypeOK, CountsConsistent, PinsAvailable,
         NEW w \in Workers, RemoveInput(w),
         NEW a, a = Inputs(w)[warc[w]]
  PROVE  /\ a \in Arcs
         /\ w \in Busy
         /\ a \in InArcs(wqe[w].box)
         /\ arcHolder[a] = Nobody
         /\ wpc[w] = "deq"
         /\ wqe' = wqe
         /\ numRecords'[a] \in Nat
         /\ numRecords'[a] = Len(queue'[a])
         /\ \/ arcHolder' = arcHolder
            \/ /\ arcHolder' = [arcHolder EXCEPT ![a] = w]
               /\ wpc'[w] = "forget"
               /\ warc'[w] = warc[w]
         /\ \A c \in Arcs \ {a} : /\ queue'[c] = queue[c]
                                  /\ numRecords'[c] = numRecords[c]
                                  /\ arcHolder'[c] = arcHolder[c]
<1> USE DEF TypeOK, Typing
<1> DEFINE n == wqe[w].pin[a]
<1>1. /\ wpc[w] = "deq"
      /\ wqe' = wqe
      /\ DequeueRemove(w, a, n)
      /\ IF numRecords[a] = n
         THEN GoTo(w, "forget") /\ UNCHANGED warc
         ELSE Advance(w, Inputs(w), "deq", AfterInputs(w))
  BY DEF RemoveInput
<1>2. a \in Arcs /\ a \in InArcs(wqe[w].box) /\ n \in Nat
  BY <1>1, InputAt
<1>3. w \in Busy
  BY <1>1, ElementHeld DEF Busy
<1>4. a \in Pinned(w)
  <2>1. warc[w] \in Nat \ {0} /\ warc[w] <= Len(Inputs(w)) /\ Len(Inputs(w)) \in Nat
    BY <1>1, InputAt DEF WorkerTyping, WorkerPhases, WorkerPhase
  <2>2. warc[w] \in warc[w]..Len(Inputs(w))
    BY <2>1
  <2>q. QED
    BY <1>1, <2>2 DEF Pinned
<1>5. n <= Len(queue[a])
  BY <1>3, <1>4 DEF PinsAvailable
<1> HIDE DEF n
<1>6. /\ arcHolder[a] = Nobody
      /\ queue' = [queue EXCEPT ![a] = SubSeq(queue[a], n + 1, Len(queue[a]))]
      /\ numRecords' = [numRecords EXCEPT ![a] = numRecords[a] - n]
      /\ IF numRecords[a] = n THEN arcHolder' = [arcHolder EXCEPT ![a] = w]
                              ELSE arcHolder' = arcHolder
  BY <1>1 DEF DequeueRemove, LockArc
<1>7. numRecords[a] = Len(queue[a])
  BY <1>2, <1>6 DEF CountsConsistent
<1>8. queue[a] \in Seq(Tuples)
  BY <1>2 DEF StorageTyping
<1>9. Len(SubSeq(queue[a], n + 1, Len(queue[a]))) = Len(queue[a]) - n
  BY <1>2, <1>5, <1>8, SubSeqType
<1>10. /\ queue'[a] = SubSeq(queue[a], n + 1, Len(queue[a]))
       /\ numRecords'[a] = numRecords[a] - n
  BY <1>2, <1>6 DEF StorageTyping
<1>11. numRecords'[a] = Len(queue'[a]) /\ numRecords'[a] \in Nat
  BY <1>2, <1>5, <1>7, <1>8, <1>9, <1>10
<1>12. \A c \in Arcs \ {a} : /\ queue'[c] = queue[c]
                             /\ numRecords'[c] = numRecords[c]
                             /\ arcHolder'[c] = arcHolder[c]
  BY <1>6 DEF StorageTyping
<1>13. \/ arcHolder' = arcHolder
       \/ /\ arcHolder' = [arcHolder EXCEPT ![a] = w]
          /\ wpc'[w] = "forget"
          /\ warc'[w] = warc[w]
  BY <1>1, <1>6 DEF GoTo, WorkerTyping
<1>q. QED
  BY <1>1, <1>2, <1>3, <1>6, <1>11, <1>12, <1>13

\* Forgetting an emptied input frees the arc and nothing else.
LEMMA ForgetEffect ==
  ASSUME TypeOK, ArcSections, NEW w \in Workers, ForgetInput(w),
         NEW a, a = Inputs(w)[warc[w]]
  PROVE  /\ a \in Arcs
         /\ numRecords[a] = Len(queue[a])
         /\ arcHolder' = [arcHolder EXCEPT ![a] = Nobody]
         /\ UNCHANGED <<queue, numRecords, wqe>>
         /\ \A c \in Arcs \ {a} : arcHolder[c] # w /\ arcHolder'[c] = arcHolder[c]
<1>1. /\ wpc[w] = "forget"
      /\ arcHolder[a] = w
      /\ arcHolder' = [arcHolder EXCEPT ![a] = Nobody]
      /\ UNCHANGED <<queue, numRecords, wqe>>
  BY DEF ForgetInput, DequeueForget, UnlockArc
<1>2. a \in Arcs
  BY <1>1, InputAt
<1>3. numRecords[a] = Len(queue[a])
  BY <1>1, <1>2 DEF ArcSections
<1>4. \A c \in Arcs \ {a} : arcHolder[c] # w
  BY <1>1 DEF ArcSections
<1>q. QED
  BY <1>1, <1>2, <1>3, <1>4 DEF TypeOK, Typing, StorageTyping

\* Storing tuples on a free arc takes the arc and leaves its count behind.
LEMMA WriteEffect ==
  ASSUME TypeOK, CountsConsistent, NEW t \in Threads, NEW a \in Arcs,
         NEW tuples \in Seq(Tuples), EnqueueWrite(t, a, tuples)
  PROVE  /\ arcHolder[a] = Nobody
         /\ arcHolder' = [arcHolder EXCEPT ![a] = t]
         /\ numRecords' = numRecords
         /\ Len(queue'[a]) = numRecords[a] + Len(tuples)
         /\ Len(queue[a]) = numRecords[a]
         /\ numRecords[a] \in Nat
         /\ \A c \in Arcs \ {a} : /\ queue'[c] = queue[c]
                                  /\ arcHolder'[c] = arcHolder[c]
<1> USE DEF TypeOK, Typing, StorageTyping
<1>1. /\ arcHolder[a] = Nobody
      /\ arcHolder' = [arcHolder EXCEPT ![a] = t]
      /\ queue' = [queue EXCEPT ![a] = queue[a] \o tuples]
      /\ numRecords' = numRecords
  BY DEF EnqueueWrite, LockArc
<1>2. Len(queue[a]) = numRecords[a] /\ queue[a] \in Seq(Tuples)
  BY <1>1 DEF CountsConsistent
<1>3. Len(queue[a] \o tuples) = Len(queue[a]) + Len(tuples)
  BY <1>2, ConcatProperties
<1>4. queue'[a] = queue[a] \o tuples
  BY <1>1
<1>5. Len(queue[a]) \in Nat
  BY <1>2
<1>q. QED
  BY <1>1, <1>2, <1>3, <1>4, <1>5

\* Counting stored tuples brings the count up to the queue and frees the arc.
LEMMA CountEffect ==
  ASSUME TypeOK, NEW t \in Threads, NEW a \in Arcs, NEW n \in Nat,
         Len(queue[a]) = numRecords[a] + n, EnqueueCount(t, a, n)
  PROVE  /\ arcHolder[a] = t
         /\ arcHolder' = [arcHolder EXCEPT ![a] = Nobody]
         /\ queue' = queue
         /\ numRecords'[a] = Len(queue[a])
         /\ numRecords'[a] \in Nat
         /\ \A c \in Arcs \ {a} : /\ numRecords'[c] = numRecords[c]
                                  /\ arcHolder'[c] = arcHolder[c]
<1> USE DEF TypeOK, Typing, StorageTyping
<1>1. /\ arcHolder[a] = t
      /\ arcHolder' = [arcHolder EXCEPT ![a] = Nobody]
      /\ numRecords' = [numRecords EXCEPT ![a] = numRecords[a] + n]
      /\ queue' = queue
  BY DEF EnqueueCount, UnlockArc
<1>2. numRecords'[a] = Len(queue[a])
  BY <1>1
<1>3. Len(queue[a]) \in Nat
  OBVIOUS
<1>q. QED
  BY <1>1, <1>2, <1>3

\* Outside the critical sections the counts are the lengths of the queues,
\* and inside them the difference is what is known to be left to do.
LEMMA CountsStep ==
  ASSUME TypeOK, CountsConsistent, ArcSections, PinsAvailable, [Next]_vars
  PROVE  CountsConsistent' /\ ArcSections'
<1> USE ThreadAssumption DEF TypeOK, Typing
<1>f. arcHolder \in [Arcs -> Threads \cup {Nobody}]
  BY DEF StorageTyping
<1>1. CASE Elsewhere
  <2>1. CountsConsistent'
    BY <1>1 DEF Elsewhere, CountsConsistent
  <2>2. ASSUME NEW a \in Arcs, NEW u \in Workers, arcHolder'[a] = u
        PROVE  \/ /\ wpc'[u] = "forget"
                  /\ a = (Inputs(u)[warc[u]])'
                  /\ Len(queue'[a]) = numRecords'[a]
               \/ /\ wpc'[u] = "count"
                  /\ a = (Outputs(u)[warc[u]])'
                  /\ Len(queue'[a]) = numRecords'[a] + Len(wout'[u])
    BY <1>1, <2>2 DEF Elsewhere, ArcSections, Inputs, Outputs
  <2>3. ASSUME NEW a \in Arcs, arcHolder'[a] = Stream
        PROVE  ppc' = "count" /\ parc' = a /\ Len(queue'[a]) = numRecords'[a] + 1
    BY <1>1, <2>3 DEF Elsewhere, ArcSections
  <2>q. QED
    BY <2>1, <2>2, <2>3 DEF ArcSections
<1>2. CASE \E w \in Workers :
              /\ RemoveInput(w) \/ ForgetInput(w) \/ WriteOutput(w) \/ CountOutput(w)
              /\ WorkerStep(w)
  <2> PICK w \in Workers :
              /\ RemoveInput(w) \/ ForgetInput(w) \/ WriteOutput(w) \/ CountOutput(w)
              /\ WorkerStep(w)
    BY <1>2
  <2>0. /\ UNCHANGED <<ppc, parc>>
        /\ \A u \in Workers \ {w} : /\ wpc'[u] = wpc[u]
                                    /\ wqe'[u] = wqe[u]
                                    /\ wout'[u] = wout[u]
                                    /\ warc'[u] = warc[u]
    BY OtherWorkers DEF WorkerStep, streamVars
  \* What is to hold of each arc; it does of one that w is not at.
  <2> DEFINE Good(c) ==
               /\ arcHolder'[c] = Nobody => numRecords'[c] = Len(queue'[c])
               /\ \A u \in Workers : arcHolder'[c] = u =>
                    \/ /\ wpc'[u] = "forget"
                       /\ c = (Inputs(u)[warc[u]])'
                       /\ Len(queue'[c]) = numRecords'[c]
                    \/ /\ wpc'[u] = "count"
                       /\ c = (Outputs(u)[warc[u]])'
                       /\ Len(queue'[c]) = numRecords'[c] + Len(wout'[u])
               /\ arcHolder'[c] = Stream =>
                    /\ ppc' = "count" /\ parc' = c
                    /\ Len(queue'[c]) = numRecords'[c] + 1
  <2>f. ASSUME NEW c \in Arcs, queue'[c] = queue[c],
               numRecords'[c] = numRecords[c], arcHolder'[c] = arcHolder[c],
               arcHolder[c] # w
        PROVE  Good(c)
    BY <2>0, <2>f DEF CountsConsistent, ArcSections, Inputs, Outputs
  <2>g. SUFFICES \A c \in Arcs : Good(c)
    BY DEF CountsConsistent, ArcSections
  <2>1. CASE RemoveInput(w)
    <3> DEFINE a == Inputs(w)[warc[w]]
    <3>0. wpc[w] = "deq" /\ wqe' = wqe
      BY <2>1 DEF RemoveInput
    <3>1. \A c \in Arcs : arcHolder[c] # w
      BY <3>0, HoldsNone
    <3>2. \A c \in Arcs \ {a} : Good(c)
      BY <2>1, <2>f, <3>1, RemoveEffect
    <3>3. Good(a)
      <4>1. /\ a \in Arcs /\ arcHolder[a] = Nobody
            /\ numRecords'[a] = Len(queue'[a])
        BY <2>1, RemoveEffect
      <4>2. CASE arcHolder' = arcHolder
        BY <4>1, <4>2
      <4>3. CASE /\ arcHolder' = [arcHolder EXCEPT ![a] = w]
                 /\ wpc'[w] = "forget"
                 /\ warc'[w] = warc[w]
        <5>1. arcHolder'[a] = w
          BY <1>f, <4>1, <4>3
        <5>2. a = (Inputs(w)[warc[w]])'
          BY <3>0, <4>3 DEF Inputs
        <5>q. QED
          BY <4>1, <4>3, <5>1, <5>2
      <4>q. QED
        BY <2>1, <4>2, <4>3, RemoveEffect
    <3>q. QED
      BY <3>2, <3>3
  <2>2. CASE ForgetInput(w)
    <3> DEFINE a == Inputs(w)[warc[w]]
    <3>1. \A c \in Arcs \ {a} : Good(c)
      BY <2>2, <2>f, ForgetEffect
    <3>2. Good(a)
      <4>1. /\ a \in Arcs
            /\ arcHolder' = [arcHolder EXCEPT ![a] = Nobody]
            /\ numRecords'[a] = Len(queue'[a])
        BY <2>2, ForgetEffect
      <4>2. arcHolder'[a] = Nobody
        BY <1>f, <4>1
      <4>q. QED
        BY <4>1, <4>2
    <3>q. QED
      BY <3>1, <3>2
  <2>3. CASE WriteOutput(w)
    <3> DEFINE a == Outputs(w)[warc[w]]
    <3>1. /\ wpc[w] = "enq"
          /\ EnqueueWrite(w, a, wout[w])
          /\ wpc' = [wpc EXCEPT ![w] = "count"]
          /\ UNCHANGED <<wqe, wout, warc>>
      BY <2>3 DEF WriteOutput, GoTo
    <3>2. /\ a \in Arcs
          /\ wout[w] \in Seq(Tuples)
          /\ w \in Threads
      BY <3>1, OutputAt DEF WorkerTyping, Threads
    <3>3. a = (Outputs(w)[warc[w]])'
      BY <3>1 DEF Outputs
    <3> HIDE DEF a
    <3>4. \A c \in Arcs : arcHolder[c] # w
      BY <3>1, HoldsNone
    <3>5. \A c \in Arcs \ {a} : Good(c)
      BY <2>f, <3>1, <3>2, <3>4, WriteEffect
    <3>6. Good(a)
      <4>1. /\ arcHolder' = [arcHolder EXCEPT ![a] = w]
            /\ numRecords' = numRecords
            /\ Len(queue'[a]) = numRecords[a] + Len(wout[w])
        BY <3>1, <3>2, WriteEffect
      <4>2. arcHolder'[a] = w /\ wpc'[w] = "count"
        BY <1>f, <3>1, <3>2, <4>1 DEF WorkerTyping
      <4>q. QED
        BY <3>1, <3>3, <4>1, <4>2
    <3>q. QED
      BY <3>5, <3>6
  <2>4. CASE CountOutput(w)
    <3> DEFINE a == Outputs(w)[warc[w]]
    <3>1. /\ wpc[w] = "count"
          /\ EnqueueCount(w, a, Len(wout[w]))
          /\ arcHolder[a] = w
      BY <2>4 DEF CountOutput, EnqueueCount, UnlockArc
    <3>2. /\ a \in Arcs
          /\ Len(wout[w]) \in Nat
          /\ w \in Threads
      BY <3>1, OutputAt DEF WorkerTyping, Threads
    <3>3. Len(queue[a]) = numRecords[a] + Len(wout[w])
      BY <3>1, <3>2 DEF ArcSections
    <3>4. \A c \in Arcs \ {a} : arcHolder[c] # w
      BY <3>1 DEF ArcSections
    <3> HIDE DEF a
    <3>5. \A c \in Arcs \ {a} : Good(c)
      BY <2>f, <3>1, <3>2, <3>3, <3>4, CountEffect
    <3>6. Good(a)
      <4>1. /\ arcHolder' = [arcHolder EXCEPT ![a] = Nobody]
            /\ numRecords'[a] = Len(queue'[a])
        BY <3>1, <3>2, <3>3, CountEffect
      <4>2. arcHolder'[a] = Nobody
        BY <1>f, <3>2, <4>1
      <4>q. QED
        BY <4>1, <4>2
    <3>q. QED
      BY <3>5, <3>6
  <2>q. QED
    BY <2>1, <2>2, <2>3, <2>4
<1>3. CASE (StoreTuple \/ CountTuple) /\ UNCHANGED workerVars
  <2>f. ASSUME NEW c \in Arcs, queue'[c] = queue[c],
               numRecords'[c] = numRecords[c], arcHolder'[c] = arcHolder[c],
               arcHolder[c] # Stream
        PROVE  /\ arcHolder'[c] = Nobody => numRecords'[c] = Len(queue'[c])
               /\ \A u \in Workers : arcHolder'[c] = u =>
                    \/ /\ wpc'[u] = "forget"
                       /\ c = (Inputs(u)[warc[u]])'
                       /\ Len(queue'[c]) = numRecords'[c]
                    \/ /\ wpc'[u] = "count"
                       /\ c = (Outputs(u)[warc[u]])'
                       /\ Len(queue'[c]) = numRecords'[c] + Len(wout'[u])
    BY <1>3, <2>f DEF CountsConsistent, ArcSections, Inputs, Outputs, workerVars
  <2>1. CASE StoreTuple
    <3> DEFINE ts == <<<<parc, generated[parc]>>>>
    <3>1. /\ ppc = "enq" /\ ppc' = "count" /\ parc' = parc
          /\ EnqueueWrite(Stream, parc, ts)
      BY <2>1 DEF StoreTuple
    <3>2. parc \in Arcs /\ parc \in InputArcs
      BY <3>1 DEF StreamPhases, InputArcs
    <3>3. ts \in Seq(Tuples) /\ Len(ts) = 1 /\ Stream \in Threads
      <4>1. <<parc, generated[parc]>> \in Tuples
        BY <3>2 DEF StreamTyping, Tuples
      <4>q. QED
        BY <4>1 DEF Threads
    <3> HIDE DEF ts
    <3>4. \A c \in Arcs : arcHolder[c] # Stream
      BY <3>1 DEF ArcSections
    <3>5. /\ arcHolder' = [arcHolder EXCEPT ![parc] = Stream]
          /\ numRecords' = numRecords
          /\ Len(queue'[parc]) = numRecords[parc] + 1
          /\ \A c \in Arcs \ {parc} : queue'[c] = queue[c]
      BY <3>1, <3>2, <3>3, WriteEffect
    <3>6. /\ arcHolder'[parc] = Stream
          /\ \A c \in Arcs \ {parc} : arcHolder'[c] = arcHolder[c]
      BY <1>f, <3>2, <3>5
    <3>7. CountsConsistent'
      BY <2>f, <3>4, <3>5, <3>6 DEF CountsConsistent
    <3>8. ArcSections'
      BY <2>f, <3>1, <3>4, <3>5, <3>6 DEF ArcSections
    <3>q. QED
      BY <3>7, <3>8
  <2>2. CASE CountTuple
    <3>1. /\ ppc = "count"
          /\ arcHolder[parc] = Stream
          /\ EnqueueCount(Stream, parc, 1)
      BY <2>2 DEF CountTuple, EnqueueCount, UnlockArc
    <3>2. parc \in Arcs /\ Stream \in Threads
      BY <3>1 DEF StreamPhases, InputArcs, Threads
    <3>3. Len(queue[parc]) = numRecords[parc] + 1
      BY <3>1, <3>2 DEF ArcSections
    <3>4. \A c \in Arcs \ {parc} : arcHolder[c] # Stream
      BY DEF ArcSections
    <3>5. /\ arcHolder' = [arcHolder EXCEPT ![parc] = Nobody]
          /\ queue' = queue
          /\ numRecords'[parc] = Len(queue[parc])
          /\ \A c \in Arcs \ {parc} : numRecords'[c] = numRecords[c]
      BY <3>1, <3>2, <3>3, CountEffect
    <3>6. /\ arcHolder'[parc] = Nobody
          /\ \A c \in Arcs \ {parc} : arcHolder'[c] = arcHolder[c]
      BY <1>f, <3>2, <3>5
    <3>7. CountsConsistent'
      BY <2>f, <3>4, <3>5, <3>6 DEF CountsConsistent
    <3>8. ArcSections'
      BY <2>f, <3>4, <3>5, <3>6 DEF ArcSections
    <3>q. QED
      BY <3>7, <3>8
  <2>q. QED
    BY <1>3, <2>1, <2>2
<1>q. QED
  BY <1>1, <1>2, <1>3, ArcSteps

\* No step makes a record count or a pin negative: pins are sized after the
\* counts, and a removal takes no more than is there.
LEMMA NaturalStep ==
  ASSUME TypeOK, CountsConsistent, ArcSections, PinsAvailable, [Next]_vars
  PROVE  CountsNatural'
<1> USE DEF TypeOK, Typing
<1>1. \A a \in Arcs : numRecords'[a] >= 0
  <2>1. CASE Elsewhere
    BY <2>1 DEF Elsewhere, CountsNatural
  <2>2. ASSUME NEW w \in Workers, RemoveInput(w)
        PROVE  \A a \in Arcs : numRecords'[a] >= 0
    BY <2>2, RemoveEffect DEF CountsNatural
  <2>3. ASSUME NEW w \in Workers, ForgetInput(w)
        PROVE  \A a \in Arcs : numRecords'[a] >= 0
    BY <2>3, ForgetEffect DEF CountsNatural
  <2>4. ASSUME NEW w \in Workers, WriteOutput(w)
        PROVE  \A a \in Arcs : numRecords'[a] >= 0
    BY <2>4 DEF WriteOutput, EnqueueWrite, CountsNatural
  <2>5. ASSUME NEW w \in Workers, CountOutput(w)
        PROVE  \A a \in Arcs : numRecords'[a] >= 0
    <3> DEFINE a == Outputs(w)[warc[w]]
    <3>1. wpc[w] = "count" /\ EnqueueCount(w, a, Len(wout[w]))
      BY <2>5 DEF CountOutput
    <3>2. a \in Arcs /\ Len(wout[w]) \in Nat
      BY <3>1, OutputAt DEF WorkerTyping
    <3> HIDE DEF a
    <3>3. numRecords' = [numRecords EXCEPT ![a] = numRecords[a] + Len(wout[w])]
      BY <3>1 DEF EnqueueCount
    <3>q. QED
      BY <3>2, <3>3 DEF StorageTyping, CountsNatural
  <2>6. CASE StoreTuple
    BY <2>6 DEF StoreTuple, EnqueueWrite, CountsNatural
  <2>7. CASE CountTuple
    <3>1. numRecords' = [numRecords EXCEPT ![parc] = numRecords[parc] + 1]
      BY <2>7 DEF CountTuple, EnqueueCount
    <3>2. parc \in Arcs
      BY <2>7 DEF CountTuple, StreamPhases, InputArcs
    <3>q. QED
      BY <3>1, <3>2 DEF StorageTyping, CountsNatural
  <2>q. QED
    BY <2>1, <2>2, <2>3, <2>4, <2>5, <2>6, <2>7, ArcSteps
<1>2. /\ loaded' # NoQE => \A a \in Arcs : loaded'.pin[a] >= 0
      /\ \A i \in DOMAIN beq', a \in Arcs : beq'[i].pin[a] >= 0
      /\ \A w \in Workers : wqe'[w] # NoQE => \A a \in Arcs : wqe'[w].pin[a] >= 0
  <2>1. CASE UNCHANGED <<beq, wqe, loaded, boxLocked>>
    BY <2>1 DEF CountsNatural
  <2>2. ASSUME NEW w \in Workers, Takes(w)
        PROVE  <1>2
    <3>1. \A i \in DOMAIN beq', a \in Arcs : beq'[i].pin[a] >= 0
      BY <2>2, TakesElement DEF CountsNatural
    <3>2. \A a \in Arcs : wqe'[w].pin[a] >= 0
      BY <2>2, TakesElement DEF CountsNatural
    <3>3. \A v \in Workers \ {w} : wqe'[v] = wqe[v]
      BY <2>2 DEF Takes, WorkerTyping
    <3>4. loaded' = loaded
      BY <2>2 DEF Takes
    <3>q. QED
      BY <3>1, <3>2, <3>3, <3>4 DEF CountsNatural
  <2>3. ASSUME NEW w \in Workers, Releases(w)
        PROVE  <1>2
    BY <2>3 DEF Releases, CountsNatural, WorkerTyping
  <2>4. CASE LoadSingleBox /\ UNCHANGED wqe
    <3>1. \A a \in Arcs : loaded'.pin[a] = 0
      BY <2>4, LoadedElement
    <3>q. QED
      BY <2>4, <3>1 DEF LoadSingleBox, beqVars, CountsNatural
  <2>5. CASE PinInput /\ UNCHANGED wqe
    <3> DEFINE a == InputQueueIds[loaded.box][nextArc]
    <3>1. /\ loaded \in QueueElements /\ loaded # NoQE
          /\ a \in Arcs
          /\ Train(numRecords[a]) \in 0..numRecords[a]
          /\ loaded'.pin = [loaded.pin EXCEPT ![a] = Train(numRecords[a])]
      BY <2>5, PinnedInput
    <3> HIDE DEF a
    <3>2. loaded.pin \in [Arcs -> Int] /\ numRecords[a] \in Int
      BY <3>1 DEF QueueElements, StorageTyping
    <3>3. \A c \in Arcs : loaded'.pin[c] >= 0
      BY <3>1, <3>2 DEF CountsNatural
    <3>q. QED
      BY <2>5, <3>3 DEF PinInput, beqVars, CountsNatural
  <2>6. CASE PushElement /\ UNCHANGED wqe
    <3>1. \A i \in DOMAIN beq' : i \in DOMAIN beq \/ i = Len(beq) + 1
      BY <2>6, PushedElement
    <3>q. QED
      BY <2>6, <3>1, PushedElement DEF CountsNatural
  <2>q. QED
    BY <2>1, <2>2, <2>3, <2>4, <2>5, <2>6, ElementSteps
<1>q. QED
  BY <1>1, <1>2 DEF CountsNatural

\* The pinned tuples a worker has still to remove are on arcs of the network.
LEMMA PinnedArcs ==
  ASSUME TypeOK, NEW w \in Busy
  PROVE  Pinned(w) \subseteq InArcs(wqe[w].box)
<1> USE DEF TypeOK, Typing, Busy
<1>1. wqe[w].box \in Boxes
  BY DEF WorkerTyping, QueueElements
<1>2. warc[w] \in Nat \ {0} /\ Len(Inputs(w)) \in Nat
  BY <1>1, ListsNotEmpty DEF WorkerTyping, Inputs
<1>3. \A i \in warc[w]..Len(Inputs(w)) : Inputs(w)[i] \in InArcs(wqe[w].box)
  BY <1>1, <1>2, InputListArc DEF Inputs
<1>4. \A i \in (warc[w] + 1)..Len(Inputs(w)) : Inputs(w)[i] \in InArcs(wqe[w].box)
  BY <1>1, <1>2, InputListArc DEF Inputs
<1>q. QED
  BY <1>3, <1>4 DEF Pinned

\* A worker that keeps its element only gets further with its removals, and
\* the input it is removing from is behind it afterwards.
LEMMA PinnedShrinks ==
  ASSUME TypeOK, NEW w \in Busy, Worker(w), wqe'[w] = wqe[w]
  PROVE  /\ Pinned(w)' \subseteq Pinned(w)
         /\ RemoveInput(w) => Inputs(w)[warc[w]] \notin Pinned(w)'
<1> USE DEF TypeOK, Typing, Busy
<1>1. wqe[w].box \in Boxes /\ w \in Workers
  BY DEF WorkerTyping, QueueElements
<1>2. warc[w] \in Nat \ {0} /\ Len(Inputs(w)) \in Nat \ {0}
  BY <1>1, ListsNotEmpty DEF WorkerTyping, Inputs
<1>3. Inputs(w)' = Inputs(w) /\ InArcs(wqe[w].box)' = InArcs(wqe[w].box)
  BY DEF Inputs, InArcs
<1>4. InArcs(wqe[w].box) = {Inputs(w)[i] : i \in 1..Len(Inputs(w))}
  BY DEF Inputs, InArcs
<1> DEFINE From(k) == {Inputs(w)[i] : i \in k..Len(Inputs(w))}
<1>5. \A k \in Nat \ {0} : From(k + 1) \subseteq From(k)
  <2> SUFFICES ASSUME NEW k \in Nat \ {0}, NEW i \in (k + 1)..Len(Inputs(w))
               PROVE  Inputs(w)[i] \in From(k)
    OBVIOUS
  <2>1. i \in k..Len(Inputs(w))
    BY <1>2
  <2>q. QED
    BY <2>1
<1>6. ASSUME warc[w] <= Len(Inputs(w))
      PROVE  Inputs(w)[warc[w]] \notin From(warc[w] + 1)
  <2> SUFFICES ASSUME NEW i \in (warc[w] + 1)..Len(Inputs(w))
               PROVE  Inputs(w)[i] # Inputs(w)[warc[w]]
    OBVIOUS
  <2>1. i \in 1..Len(Inputs(w)) /\ warc[w] \in 1..Len(Inputs(w)) /\ i # warc[w]
    BY <1>2, <1>6
  <2>2. NoRepeat(Inputs(w))
    BY <1>1, CatalogAssumption DEF Inputs
  <2>q. QED
    BY <2>1, <2>2 DEF NoRepeat
<1>7. ASSUME Advance(w, Inputs(w), "deq", AfterInputs(w)), wpc[w] \in {"deq", "forget"}
      PROVE  Pinned(w)' \subseteq From(warc[w] + 1)
  <2>1. AfterInputs(w) \in {"enq", "announce"}
    BY DEF AfterInputs
  <2>2. CASE warc[w] < Len(Inputs(w))
    <3>1. wpc'[w] = "deq" /\ warc'[w] = warc[w] + 1
      BY <1>1, <1>7, <2>2 DEF Advance, GoTo, WorkerTyping
    <3>2. Pinned(w)' = From(warc[w] + 1)
      BY <1>3, <3>1 DEF Pinned
    <3>q. QED
      BY <3>2
  <2>3. CASE ~(warc[w] < Len(Inputs(w)))
    <3>1. wpc'[w] = AfterInputs(w)
      BY <1>1, <1>7, <2>3 DEF Advance, GoTo, WorkerTyping
    <3>2. Pinned(w)' = {}
      BY <2>1, <3>1 DEF Pinned
    <3>q. QED
      BY <3>2
  <2>q. QED
    BY <2>2, <2>3
<1> HIDE DEF From
<1>8. CASE RemoveInput(w)
  <2>1. /\ wpc[w] = "deq" /\ warc[w] <= Len(Inputs(w))
        /\ \/ wpc'[w] = "forget" /\ warc'[w] = warc[w]
           \/ Advance(w, Inputs(w), "deq", AfterInputs(w))
    BY <1>1, <1>8 DEF RemoveInput, GoTo, WorkerTyping, WorkerPhases, WorkerPhase
  <2>2. Pinned(w) = From(warc[w])
    BY <2>1 DEF Pinned, From
  <2>3. Pinned(w)' \subseteq From(warc[w] + 1)
    <3>1. CASE wpc'[w] = "forget" /\ warc'[w] = warc[w]
      BY <1>3, <3>1 DEF Pinned, From
    <3>2. CASE Advance(w, Inputs(w), "deq", AfterInputs(w))
      BY <1>7, <2>1, <3>2
    <3>q. QED
      BY <2>1, <3>1, <3>2
  <2>q. QED
    BY <1>2, <1>5, <1>6, <2>1, <2>2, <2>3
<1>9. CASE ForgetInput(w)
  <2>1. wpc[w] = "forget" /\ Advance(w, Inputs(w), "deq", AfterInputs(w))
    BY <1>9 DEF ForgetInput
  <2>2. Pinned(w) = From(warc[w] + 1)
    BY <2>1 DEF Pinned, From
  <2>q. QED
    BY <1>7, <2>1, <2>2, <1>9 DEF RemoveInput
<1>10. CASE DoBox(w)
  <2>1. wpc[w] = "run" /\ wpc'[w] \in {"deq", "aborted"} /\ warc'[w] = 1
    BY <1>1, <1>10 DEF DoBox, GoTo, WorkerTyping, WorkerPhases, WorkerPhase
  <2>2. Pinned(w)' = InArcs(wqe[w].box)
    BY <1>3, <1>4, <2>1 DEF Pinned
  <2>q. QED
    BY <2>1, <2>2 DEF Pinned, RemoveInput
<1>11. CASE LoadQueue(w)
  <2>1. wpc[w] = "load" /\ wpc'[w] \in {"load", "run"}
    BY <1>1, <1>11 DEF LoadQueue, Advance, GoTo, WorkerTyping
  <2>q. QED
    BY <1>3, <2>1 DEF Pinned, RemoveInput
<1>12. CASE CheckStop(w)
  <2>1. wpc[w] = "popped" /\ wpc'[w] \in {"load", "done"}
    BY <1>1, <1>12 DEF CheckStop, GoTo, WorkerTyping
  <2>q. QED
    BY <1>3, <2>1 DEF Pinned, RemoveInput
<1>13. CASE WriteOutput(w) \/ CountOutput(w) \/ AnnounceNewAppTuples(w)
  <2>1. /\ wpc[w] \in {"enq", "count", "announce"}
        /\ wpc'[w] \in {"enq", "count", "announce", "unlock"}
    BY <1>1, <1>13 DEF WriteOutput, CountOutput, AnnounceNewAppTuples, Advance,
      GoTo, WorkerTyping
  <2>q. QED
    BY <2>1 DEF Pinned, RemoveInput
<1>14. wpc[w] \notin {"top", "queue", "nowork", "signal"}
  BY <1>1 DEF WorkerPhases, WorkerPhase
<1>15. ~ReleaseBox(w)
  BY <1>1 DEF ReleaseBox, WorkerTyping
<1>q. QED
  BY <1>8, <1>9, <1>10, <1>11, <1>12, <1>13, <1>14, <1>15
    DEF Worker, AtTop, CheckQueue, WaitForWork, SignalScheduler

\* Whoever removes tuples from an arc, the pins of the other elements on it
\* are those of the same box: there are none.
LEMMA RemovedByOwner ==
  ASSUME TypeOK, BoxExclusion, PinsOwned, NEW w \in Busy,
         NEW a \in Arcs, a \in InArcs(wqe[w].box)
  PROVE  /\ loaded # NoQE => loaded.pin[a] = 0
         /\ \A i \in DOMAIN beq : beq[i].pin[a] = 0
         /\ \A v \in Busy \ {w} : wqe[v].pin[a] = 0
<1> USE DEF TypeOK, Typing, Busy
<1>0. wqe[w].box \in Boxes
  BY DEF WorkerTyping, QueueElements
<1>1. DestId[a] = wqe[w].box
  BY <1>0, CatalogAssumption
<1>2. \A b \in Boxes : a \in InArcs(b) => b = wqe[w].box
  BY <1>1, CatalogAssumption
<1>3. ASSUME loaded # NoQE PROVE loaded.pin[a] = 0
  <2>1. loaded.box \in Boxes
    BY <1>3 DEF SchedulerTyping, QueueElements
  <2>2. loaded.box # wqe[w].box
    BY <1>3 DEF BoxExclusion, LoadedOnce
  <2>3. loaded.pin[a] # 0 => a \in InArcs(loaded.box)
    BY <1>3 DEF PinsOwned
  <2>q. QED
    BY <1>2, <2>1, <2>2, <2>3
<1>4. ASSUME NEW i \in DOMAIN beq PROVE beq[i].pin[a] = 0
  <2>1. beq[i].box \in Boxes
    <3>1. beq[i] \in QueueElements
      BY DEF QueueTyping
    <3>q. QED
      BY <3>1 DEF QueueElements
  <2>q. QED
    BY <1>2, <2>1 DEF PinsOwned, BoxExclusion, NotBoth
<1>5. ASSUME NEW v \in Busy \ {w} PROVE wqe[v].pin[a] = 0
  <2>1. wqe[v].box \in Boxes
    BY DEF WorkerTyping, QueueElements
  <2>q. QED
    BY <1>2, <2>1 DEF PinsOwned, BoxExclusion, BusyOnce
<1>q. QED
  BY <1>3, <1>4, <1>5

\* A worker that keeps its element does not get more to remove.
LEMMA PinnedNotMore ==
  ASSUME TypeOK, [Next]_vars, NEW v \in Busy, wqe'[v] = wqe[v]
  PROVE  Pinned(v)' \subseteq Pinned(v)
<1> USE DEF TypeOK, Typing
<1>u. ASSUME wpc'[v] = wpc[v], warc'[v] = warc[v]
      PROVE  Pinned(v)' \subseteq Pinned(v)
  BY <1>u DEF Pinned, Inputs, InArcs
<1>1. CASE \E w \in Workers : WorkerStep(w)
  <2> PICK w \in Workers : Worker(w)
    BY <1>1 DEF WorkerStep
  <2>1. CASE v = w
    BY <2>1, PinnedShrinks
  <2>2. CASE v # w
    BY <1>u, <2>2, OtherWorkers DEF Busy
  <2>q. QED
    BY <2>1, <2>2
<1>2. CASE UNCHANGED workerVars
  BY <1>2, <1>u DEF workerVars
<1>q. QED
  BY <1>1, <1>2 DEF Next, SchedulerNext, StreamNext, TimePasses, vars

\* Only the removal from an input makes a queue shorter.
LEMMA QueueGrows ==
  ASSUME TypeOK, CountsConsistent, ArcSections, PinsAvailable, [Next]_vars,
         \A w \in Workers : ~(RemoveInput(w) /\ WorkerStep(w))
  PROVE  \A a \in Arcs : Len(queue'[a]) >= Len(queue[a])
<1> USE DEF TypeOK, Typing
<1>0. \A a \in Arcs : Len(queue[a]) \in Nat
  BY DEF StorageTyping
<1>g. ASSUME NEW t \in Threads, NEW a \in Arcs, NEW tuples \in Seq(Tuples),
             EnqueueWrite(t, a, tuples)
      PROVE  \A c \in Arcs : Len(queue'[c]) >= Len(queue[c])
  <2>1. Len(queue'[a]) = Len(queue[a]) + Len(tuples) /\ Len(tuples) \in Nat
    BY <1>g, WriteEffect
  <2>2. \A c \in Arcs \ {a} : queue'[c] = queue[c]
    BY <1>g, WriteEffect
  <2>q. QED
    BY <1>0, <2>1, <2>2
<1>1. CASE queue' = queue
  BY <1>0, <1>1
<1>2. ASSUME NEW w \in Workers, WriteOutput(w)
      PROVE  \A a \in Arcs : Len(queue'[a]) >= Len(queue[a])
  <2>1. wpc[w] = "enq" /\ EnqueueWrite(w, Outputs(w)[warc[w]], wout[w])
    BY <1>2 DEF WriteOutput
  <2>2. Outputs(w)[warc[w]] \in Arcs /\ wout[w] \in Seq(Tuples) /\ w \in Threads
    BY <2>1, OutputAt DEF WorkerTyping, Threads
  <2>q. QED
    BY <1>g, <2>1, <2>2
<1>3. CASE StoreTuple
  <2>1. parc \in InputArcs /\ parc \in Arcs
    BY <1>3 DEF StoreTuple, StreamPhases, InputArcs
  <2>2. <<parc, generated[parc]>> \in Tuples
    BY <2>1 DEF StreamTyping, Tuples
  <2>3. <<<<parc, generated[parc]>>>> \in Seq(Tuples) /\ Stream \in Threads
    BY <2>2 DEF Threads
  <2>4. EnqueueWrite(Stream, parc, <<<<parc, generated[parc]>>>>)
    BY <1>3 DEF StoreTuple
  <2>q. QED
    BY <1>g, <2>1, <2>3, <2>4
<1>4. \/ queue' = queue
      \/ \E w \in Workers : WriteOutput(w)
      \/ StoreTuple
  BY ArcSteps DEF Elsewhere, ForgetInput, DequeueForget, CountOutput,
    CountTuple, EnqueueCount
<1>q. QED
  BY <1>1, <1>2, <1>3, <1>4

\* A record count, in or out of a critical section, is within its queue.
LEMMA CountsWithin ==
  ASSUME TypeOK, CountsConsistent, ArcSections, NEW a \in Arcs
  PROVE  numRecords[a] \in Nat /\ numRecords[a] <= Len(queue[a])
<1> USE DEF TypeOK, Typing
<1>1. numRecords[a] \in Nat
  BY DEF StorageTyping, CountsNatural
<1>2. arcHolder[a] \in Workers \cup {Stream, Nobody}
  BY DEF StorageTyping, Threads
<1>3. \A w \in Workers : Len(wout[w]) \in Nat
  BY DEF WorkerTyping
<1>4. CASE arcHolder[a] = Nobody
  BY <1>1, <1>4 DEF CountsConsistent
<1>5. CASE arcHolder[a] = Stream
  BY <1>1, <1>5 DEF ArcSections
<1>6. ASSUME NEW w \in Workers, arcHolder[a] = w
      PROVE  numRecords[a] <= Len(queue[a])
  BY <1>1, <1>3, <1>6 DEF ArcSections
<1>q. QED
  BY <1>1, <1>2, <1>4, <1>5, <1>6

\* No step shortens a queue below a pin on it.
LEMMA PinsStep ==
  ASSUME TypeOK, BoxExclusion, CountsConsistent, ArcSections, PinsOwned,
         PinsAvailable, [Next]_vars, StorageTyping'
  PROVE  PinsAvailable'
<1> USE DEF TypeOK, Typing
<1>len. \A a \in Arcs : Len(queue[a]) \in Nat
  BY DEF StorageTyping
<1>1. ASSUME NEW w \in Workers, RemoveInput(w), WorkerStep(w)
      PROVE  PinsAvailable'
  <2> DEFINE r == Inputs(w)[warc[w]]
  <2>0. UNCHANGED <<beq, loaded, wqe>> /\ Worker(w)
    BY <1>1 DEF RemoveInput, WorkerStep, beqVars, schedVars
  <2>1. /\ r \in Arcs
        /\ w \in Busy
        /\ r \in InArcs(wqe[w].box)
        /\ Len(queue'[r]) >= 0
        /\ \A c \in Arcs \ {r} : queue'[c] = queue[c]
    BY <1>1, RemoveEffect
  <2>2. /\ loaded # NoQE => loaded.pin[r] = 0
        /\ \A i \in DOMAIN beq : beq[i].pin[r] = 0
        /\ \A v \in Busy \ {w} : wqe[v].pin[r] = 0
    BY <2>1, RemovedByOwner
  <2>3. r \notin Pinned(w)' /\ Pinned(w)' \subseteq Pinned(w)
    BY <1>1, <2>0, <2>1, PinnedShrinks
  <2>4. \A v \in Busy : Pinned(v)' \subseteq Pinned(v)
    BY <2>0, PinnedNotMore
  <2>5. \A v \in Busy : Pinned(v) \subseteq Arcs
    <3>1. ASSUME NEW v \in Busy PROVE InArcs(wqe[v].box) \subseteq Arcs
      <4>1. wqe[v].box \in Boxes
        BY DEF Busy, WorkerTyping, QueueElements
      <4>q. QED
        BY <4>1, CatalogAssumption
    <3>q. QED
      BY <3>1, PinnedArcs
  <2>6. Busy' = Busy
    BY <2>0 DEF Busy
  <2> HIDE DEF r
  <2>7. loaded' # NoQE => \A a \in Arcs : loaded'.pin[a] <= Len(queue'[a])
    BY <2>0, <2>1, <2>2 DEF PinsAvailable
  <2>8. \A i \in DOMAIN beq', a \in Arcs : beq'[i].pin[a] <= Len(queue'[a])
    BY <2>0, <2>1, <2>2 DEF PinsAvailable
  <2>9. ASSUME NEW v \in Busy, NEW a \in Pinned(v)'
        PROVE  wqe'[v].pin[a] <= Len(queue'[a])
    <3>1. a \in Pinned(v) /\ a \in Arcs
      BY <2>4, <2>5, <2>9
    <3>2. CASE a # r
      BY <2>0, <2>1, <3>1, <3>2 DEF PinsAvailable
    <3>3. CASE a = r
      BY <2>0, <2>1, <2>2, <2>3, <3>3
    <3>q. QED
      BY <3>2, <3>3
  <2>q. QED
    BY <2>6, <2>7, <2>8, <2>9 DEF PinsAvailable
<1>2. ASSUME \A w \in Workers : ~(RemoveInput(w) /\ WorkerStep(w))
      PROVE  PinsAvailable'
  <2>0. \A a \in Arcs : Len(queue'[a]) >= Len(queue[a]) /\ Len(queue[a]) \in Nat
    BY <1>2, <1>len, QueueGrows
  <2>L. \A a \in Arcs : Len(queue'[a]) \in Nat
    BY DEF StorageTyping
  \* Pins that were within the queues are within them still.
  <2>k. ASSUME NEW qe \in QueueElements, NEW a \in Arcs,
               qe.pin[a] <= Len(queue[a])
        PROVE  qe.pin[a] <= Len(queue'[a])
    <3>1. qe.pin[a] \in Int
      BY DEF QueueElements
    <3>q. QED
      BY <2>0, <2>L, <2>k, <3>1
  <2>q1. \A i \in DOMAIN beq, a \in Arcs : beq[i].pin[a] <= Len(queue'[a])
    <3> SUFFICES ASSUME NEW i \in DOMAIN beq, NEW a \in Arcs
                 PROVE  beq[i].pin[a] <= Len(queue'[a])
      OBVIOUS
    <3>1. beq[i] \in QueueElements
      BY DEF QueueTyping
    <3>q. QED
      BY <2>k, <3>1 DEF PinsAvailable
  <2>q2. ASSUME loaded # NoQE
         PROVE  \A a \in Arcs : loaded.pin[a] <= Len(queue'[a])
    <3>1. loaded \in QueueElements
      BY <2>q2 DEF SchedulerTyping
    <3>q. QED
      BY <2>k, <2>q2, <3>1 DEF PinsAvailable
  <2>q3. ASSUME NEW v \in Busy, wqe'[v] = wqe[v]
         PROVE  \A a \in Pinned(v)' : wqe'[v].pin[a] <= Len(queue'[a])
    <3> SUFFICES ASSUME NEW a \in Pinned(v)'
                 PROVE  wqe[v].pin[a] <= Len(queue'[a])
      BY <2>q3
    <3>1. a \in Pinned(v)
      BY <2>q3, PinnedNotMore
    <3>2. wqe[v] \in QueueElements /\ wqe[v].box \in Boxes
      BY DEF Busy, WorkerTyping, QueueElements
    <3>3. a \in Arcs
      BY <3>1, <3>2, PinnedArcs, CatalogAssumption
    <3>q. QED
      BY <2>k, <3>1, <3>2, <3>3 DEF PinsAvailable
  <2>1. CASE UNCHANGED <<beq, wqe, loaded, boxLocked>>
    <3>1. Busy' = Busy
      BY <2>1 DEF Busy
    <3>q. QED
      BY <2>1, <2>q1, <2>q2, <2>q3, <3>1 DEF PinsAvailable
  <2>2. ASSUME NEW w \in Workers, Takes(w)
        PROVE  PinsAvailable'
    <3>1. \A i \in DOMAIN beq', a \in Arcs : beq'[i].pin[a] <= Len(queue'[a])
      BY <2>2, <2>q1, TakesElement
    <3>2. \A a \in Arcs : wqe'[w].pin[a] <= Len(queue'[a])
      BY <2>2, <2>q1, TakesElement
    <3>3. Pinned(w)' \subseteq Arcs
      <4>1. wpc'[w] = "popped"
        BY <2>2 DEF Takes, WorkerTyping
      <4>2. Pinned(w)' = InArcs(wqe'[w].box)
        BY <4>1 DEF Pinned, InArcs
      <4>3. wqe'[w].box \in Boxes
        BY <2>2, TakesElement DEF QueueElements
      <4>q. QED
        BY <4>2, <4>3, CatalogAssumption
    <3>4. loaded' = loaded
      BY <2>2 DEF Takes
    <3>5. \A v \in Busy : \A a \in Pinned(v)' : wqe'[v].pin[a] <= Len(queue'[a])
      BY <2>2, <2>q3, TakesElement
    <3>6. Busy' = Busy \cup {w}
      BY <2>2, TakesElement
    <3>q. QED
      BY <2>q2, <3>1, <3>2, <3>3, <3>4, <3>5, <3>6 DEF PinsAvailable
  <2>3. ASSUME NEW w \in Workers, Releases(w)
        PROVE  PinsAvailable'
    <3>1. /\ UNCHANGED <<beq, loaded>>
          /\ Busy' \subseteq Busy
          /\ \A v \in Busy' : wqe'[v] = wqe[v]
      BY <2>3 DEF Releases, Busy, WorkerTyping
    <3>q. QED
      BY <2>q1, <2>q2, <2>q3, <3>1 DEF PinsAvailable
  <2>4. CASE LoadSingleBox /\ UNCHANGED wqe
    <3>1. UNCHANGED <<beq, wqe>> /\ Busy' = Busy
      BY <2>4 DEF LoadSingleBox, beqVars, Busy
    <3>2. \A a \in Arcs : loaded'.pin[a] = 0
      BY <2>4, LoadedElement
    <3>3. \A a \in Arcs : loaded'.pin[a] <= Len(queue'[a])
      BY <2>L, <3>2
    <3>q. QED
      BY <2>q1, <2>q3, <3>1, <3>3 DEF PinsAvailable
  <2>5. CASE PinInput /\ UNCHANGED wqe
    <3> DEFINE r == InputQueueIds[loaded.box][nextArc]
    <3>1. UNCHANGED <<beq, wqe>> /\ Busy' = Busy
      BY <2>5 DEF PinInput, beqVars, Busy
    <3>2. /\ loaded \in QueueElements /\ loaded # NoQE
          /\ r \in Arcs
          /\ Train(numRecords[r]) \in 0..numRecords[r]
          /\ loaded'.pin = [loaded.pin EXCEPT ![r] = Train(numRecords[r])]
      BY <2>5, PinnedInput
    <3>3. loaded.pin \in [Arcs -> Int]
      BY <3>2 DEF QueueElements
    <3>4. loaded'.pin[r] <= Len(queue'[r])
      <4>1. numRecords[r] \in Nat /\ numRecords[r] <= Len(queue[r])
        BY <3>2, CountsWithin
      <4>q. QED
        BY <2>0, <2>L, <3>2, <3>3, <4>1
    <3>5. \A a \in Arcs \ {r} : loaded'.pin[a] <= Len(queue'[a])
      BY <2>q2, <3>2, <3>3
    <3>q. QED
      BY <2>q1, <2>q3, <3>1, <3>4, <3>5 DEF PinsAvailable
  <2>6. CASE PushElement /\ UNCHANGED wqe
    <3>1. \A i \in DOMAIN beq' : i \in DOMAIN beq \/ i = Len(beq) + 1
      BY <2>6, PushedElement
    <3>2. \A i \in DOMAIN beq', a \in Arcs : beq'[i].pin[a] <= Len(queue'[a])
      BY <2>6, <2>q1, <2>q2, <3>1, PushedElement
    <3>3. loaded' = NoQE /\ Busy' = Busy
      BY <2>6, PushedElement
    <3>q. QED
      BY <2>6, <2>q3, <3>2, <3>3 DEF PinsAvailable
  <2>q. QED
    BY <2>1, <2>2, <2>3, <2>4, <2>5, <2>6, ElementSteps
<1>q. QED
  BY <1>1, <1>2

\* Only the worker that has a box lowers the count of an input of it.
LEMMA CountStays ==
  ASSUME TypeOK, CountsConsistent, ArcSections, PinsAvailable, [Next]_vars,
         NEW b \in Boxes, \A w \in Busy : wqe[w].box # b,
         NEW a \in InArcs(b)
  PROVE  numRecords'[a] >= numRecords[a]
<1> USE DEF TypeOK, Typing
<1>0. a \in Arcs /\ DestId[a] = b
  BY CatalogAssumption
<1>1. numRecords[a] \in Nat
  BY <1>0, CountsWithin
<1>2. ASSUME NEW w \in Workers, RemoveInput(w)
      PROVE  numRecords'[a] = numRecords[a]
  <2> DEFINE r == Inputs(w)[warc[w]]
  <2>1. wpc[w] = "deq"
    BY <1>2 DEF RemoveInput
  <2>2. DestId[r] = wqe[w].box /\ w \in Busy
    BY <2>1, InputAt, ElementHeld DEF Busy
  <2>3. a # r
    BY <1>0, <2>2
  <2>q. QED
    BY <1>0, <1>2, <2>3, RemoveEffect
<1>3. ASSUME NEW t \in Threads, NEW c \in Arcs, NEW n \in Nat, EnqueueCount(t, c, n)
      PROVE  numRecords'[a] >= numRecords[a]
  <2>1. numRecords' = [numRecords EXCEPT ![c] = @ + n]
    BY <1>3 DEF EnqueueCount
  <2>q. QED
    BY <1>0, <1>1, <2>1 DEF StorageTyping
<1>4. ASSUME NEW w \in Workers, CountOutput(w)
      PROVE  numRecords'[a] >= numRecords[a]
  <2>1. /\ wpc[w] = "count"
        /\ EnqueueCount(w, Outputs(w)[warc[w]], Len(wout[w]))
    BY <1>4 DEF CountOutput
  <2>2. /\ Outputs(w)[warc[w]] \in Arcs
        /\ Len(wout[w]) \in Nat
        /\ w \in Threads
    BY <2>1, OutputAt DEF WorkerTyping, Threads
  <2>q. QED
    BY <1>3, <2>1, <2>2
<1>5. CASE CountTuple
  <2>1. parc \in Arcs /\ Stream \in Threads
    BY <1>5 DEF CountTuple, StreamPhases, InputArcs, Threads
  <2>q. QED
    BY <1>3, <1>5, <2>1 DEF CountTuple
<1>6. CASE UNCHANGED numRecords
  BY <1>1, <1>6
<1>7. \/ UNCHANGED numRecords
      \/ \E w \in Workers : RemoveInput(w) \/ CountOutput(w)
      \/ CountTuple
  BY ArcSteps DEF Elsewhere, ForgetInput, DequeueForget, WriteOutput,
    EnqueueWrite, StoreTuple
<1>q. QED
  BY <1>1, <1>2, <1>4, <1>5, <1>6, <1>7

\* A box with tuples keeps them while no worker has the box.
LEMMA FedStays ==
  ASSUME TypeOK, CountsConsistent, ArcSections, PinsAvailable, [Next]_vars,
         StorageTyping', NEW b \in Boxes, \A w \in Busy : wqe[w].box # b, Fed(b)
  PROVE  Fed(b)'
<1>1. PICK a \in InArcs(b) : numRecords[a] > 0
  BY DEF Fed
<1>2. numRecords'[a] >= numRecords[a]
  BY CountStays
<1>3. a \in Arcs
  BY CatalogAssumption
<1>4. numRecords[a] \in Int /\ numRecords'[a] \in Int
  BY <1>3 DEF TypeOK, Typing, StorageTyping
<1>5. numRecords'[a] > 0
  BY <1>1, <1>2, <1>4
<1>q. QED
  BY <1>5 DEF Fed, InArcs

\* A box whose mutex is free, and one that is being loaded, is with no
\* worker, so that it keeps its tuples.
LEMMA FreeFed ==
  ASSUME TypeOK, BoxExclusion, CountsConsistent, ArcSections, PinsAvailable,
         [Next]_vars, StorageTyping', NEW b \in Boxes \ boxLocked, Fed(b)
  PROVE  Fed(b)'
<1>1. \A w \in Busy : wqe[w].box # b
  BY DEF BoxExclusion, LocksHeld
<1>q. QED
  BY <1>1, FedStays

\* A box that passes the window test has tuples.
LEMMA WindowFed ==
  ASSUME TypeOK, NEW b \in Boxes, FullWindow(b)
  PROVE  Fed(b)
<1>1. PICK a \in InArcs(b) : numRecords[a] >= WinSize[b]
  BY CatalogAssumption DEF FullWindow
<1>2. numRecords[a] \in Int /\ WinSize[b] \in Nat \ {0}
  BY CatalogAssumption, SchedulerAssumption DEF TypeOK, Typing, StorageTyping
<1>q. QED
  BY <1>1, <1>2 DEF Fed

(***************************************************************************)
(* The work set, where every box has one input.                            *)
(***************************************************************************)

\* The arc at the end of which a box stands is its only one.
LEMMA OnlyInput ==
  ASSUME OneInputEach, NEW a \in Arcs \ AppArcs, NEW c \in Arcs \ AppArcs,
         DestId[a] = DestId[c]
  PROVE  a = c
<1> DEFINE b == DestId[a]
<1>1. b \in Boxes
  BY DestIsBox
<1>2. a \in InArcs(b) /\ c \in InArcs(b)
  BY <1>1, CatalogAssumption
<1>3. Len(InputQueueIds[b]) = 1
  BY <1>1 DEF OneInputEach
<1>4. 1..Len(InputQueueIds[b]) = {1}
  BY <1>3
<1>q. QED
  BY <1>2, <1>4 DEF InArcs

\* No step leaves tuples behind that the scheduler does not know of.
LEMMA WorkStep ==
  ASSUME TypeOK, CountsConsistent, ArcSections, PinsAvailable, OneInputEach,
         WorkKnown, [Next]_vars
  PROVE  WorkKnown'
<1> USE ThreadAssumption DEF TypeOK, Typing
<1> DEFINE Known(c) ==
             /\ numRecords'[c] > 0 => DestId[c] \in workSet'
             /\ \A u \in Workers : arcHolder'[c] = u =>
                  IF wpc'[u] = "forget" THEN numRecords'[c] = 0
                                        ELSE DestId[c] \in workSet'
             /\ arcHolder'[c] = Stream => DestId[c] \in workSet'
<1>g. SUFFICES \A c \in Arcs \ AppArcs : Known(c)
  BY DEF WorkKnown
<1>f. /\ arcHolder \in [Arcs -> Threads \cup {Nobody}]
      /\ numRecords \in [Arcs -> Int]
  BY DEF StorageTyping
\* An arc that the step leaves alone, with its holder where it was.
<1>a. ASSUME NEW c \in Arcs \ AppArcs,
             numRecords'[c] = numRecords[c], arcHolder'[c] = arcHolder[c],
             \A u \in Workers : arcHolder[c] = u => wpc'[u] = wpc[u],
             DestId[c] \in workSet => DestId[c] \in workSet'
      PROVE  Known(c)
  BY <1>a DEF WorkKnown
<1>1. CASE Elsewhere
  <2>1. UNCHANGED <<numRecords, arcHolder, workSet>>
    BY <1>1 DEF Elsewhere
  <2>2. \A c \in Arcs, u \in Workers : arcHolder[c] = u => wpc'[u] = wpc[u]
    BY <1>1, HoldsNone DEF Elsewhere
  <2>q. QED
    BY <1>a, <2>1, <2>2
\* Whoever stores puts the box into the work set before it counts.
<1>e. ASSUME NEW t \in Threads, NEW a \in Arcs, NEW tuples \in Seq(Tuples),
             EnqueueWrite(t, a, tuples),
             \A u \in Workers \ {t} : wpc'[u] = wpc[u],
             \A u \in Workers : u = t => wpc'[u] # "forget",
             \A c \in Arcs : arcHolder[c] # t
      PROVE  \A c \in Arcs \ AppArcs : Known(c)
  <2>1. /\ arcHolder' = [arcHolder EXCEPT ![a] = t]
        /\ UNCHANGED numRecords
        /\ workSet \subseteq workSet'
        /\ a \notin AppArcs => DestId[a] \in workSet'
    BY <1>e DEF EnqueueWrite, LockArc
  <2> SUFFICES ASSUME NEW c \in Arcs \ AppArcs PROVE Known(c)
    OBVIOUS
  <2>2. CASE c = a
    BY <1>e, <1>f, <2>1, <2>2
  <2>3. CASE c # a
    <3>1. /\ numRecords'[c] = numRecords[c] /\ arcHolder'[c] = arcHolder[c]
          /\ \A u \in Workers : arcHolder[c] = u => wpc'[u] = wpc[u]
      BY <1>e, <1>f, <2>1, <2>3
    <3>q. QED
      BY <1>a, <2>1, <3>1
  <2>q. QED
    BY <2>2, <2>3
\* Whoever counts has put the box into the work set, and it is still there.
<1>c. ASSUME NEW t \in Threads, NEW a \in Arcs, NEW n \in Nat,
             EnqueueCount(t, a, n),
             \A u \in Workers \ {t} : wpc'[u] = wpc[u],
             \A u \in Workers : u = t => wpc[u] # "forget",
             \A c \in Arcs \ {a} : arcHolder[c] # t
      PROVE  \A c \in Arcs \ AppArcs : Known(c)
  <2>1. /\ arcHolder[a] = t
        /\ arcHolder' = [arcHolder EXCEPT ![a] = Nobody]
        /\ numRecords' = [numRecords EXCEPT ![a] = @ + n]
        /\ workSet' = workSet
    BY <1>c DEF EnqueueCount, UnlockArc
  <2> SUFFICES ASSUME NEW c \in Arcs \ AppArcs PROVE Known(c)
    OBVIOUS
  <2>2. CASE c = a
    <3>1. DestId[a] \in workSet
      BY <1>c, <2>1, <2>2 DEF WorkKnown, Threads
    <3>2. arcHolder'[a] = Nobody
      BY <1>f, <2>1
    <3>q. QED
      BY <2>1, <2>2, <3>1, <3>2
  <2>3. CASE c # a
    <3>1. /\ numRecords'[c] = numRecords[c] /\ arcHolder'[c] = arcHolder[c]
          /\ \A u \in Workers : arcHolder[c] = u => wpc'[u] = wpc[u]
      BY <1>c, <1>f, <2>1, <2>3
    <3>q. QED
      BY <1>a, <2>1, <3>1
  <2>q. QED
    BY <2>2, <2>3
<1>2. ASSUME NEW w \in Workers, WorkerStep(w),
             RemoveInput(w) \/ ForgetInput(w) \/ WriteOutput(w) \/ CountOutput(w)
      PROVE  \A c \in Arcs \ AppArcs : Known(c)
  <2>0. \A u \in Workers \ {w} : wpc'[u] = wpc[u]
    BY <1>2, OtherWorkers DEF WorkerStep
  <2>t. w \in Threads /\ w # Nobody
    BY DEF Threads
  <2>1. CASE RemoveInput(w)
    <3> DEFINE r == Inputs(w)[warc[w]]
               n == wqe[w].pin[r]
    <3>1. wpc[w] = "deq" /\ DequeueRemove(w, r, n) /\ n \in Nat /\ r \in Arcs
      BY <2>1, InputAt DEF RemoveInput
    <3>2. \A c \in Arcs : arcHolder[c] # w
      BY <3>1, HoldsNone
    <3>3. numRecords[r] = n => wpc'[w] = "forget"
      BY <2>1 DEF RemoveInput, GoTo, WorkerTyping
    <3> HIDE DEF r, n
    <3>4. /\ arcHolder[r] = Nobody
          /\ numRecords' = [numRecords EXCEPT ![r] = @ - n]
          /\ arcHolder' = IF numRecords[r] = n THEN [arcHolder EXCEPT ![r] = w] ELSE arcHolder
          /\ workSet' = workSet
      BY <3>1 DEF DequeueRemove, LockArc
    <3> SUFFICES ASSUME NEW c \in Arcs \ AppArcs PROVE Known(c)
      OBVIOUS
    <3>5. CASE c = r
      <4>1. numRecords'[r] = numRecords[r] - n /\ numRecords[r] \in Nat
        BY <1>f, <3>1, <3>4, CountsWithin
      <4>2. CASE numRecords[r] = n
        <5>1. arcHolder'[r] = w /\ numRecords'[r] = 0 /\ wpc'[w] = "forget"
          BY <1>f, <3>1, <3>3, <3>4, <4>1, <4>2
        <5>q. QED
          BY <3>5, <5>1
      <4>3. CASE numRecords[r] # n
        <5>1. arcHolder'[r] = Nobody
          BY <3>4, <4>3
        <5>2. numRecords'[r] > 0 => numRecords[r] > 0
          BY <3>1, <4>1
        <5>q. QED
          BY <3>4, <3>5, <5>1, <5>2 DEF WorkKnown
      <4>q. QED
        BY <4>2, <4>3
    <3>6. CASE c # r
      <4>1. numRecords'[c] = numRecords[c] /\ arcHolder'[c] = arcHolder[c]
        BY <1>f, <3>4, <3>6
      <4>q. QED
        BY <1>a, <2>0, <3>2, <3>4, <4>1
    <3>q. QED
      BY <3>5, <3>6
  <2>2. CASE ForgetInput(w)
    <3> DEFINE r == Inputs(w)[warc[w]]
    <3>1. /\ wpc[w] = "forget" /\ arcHolder[r] = w /\ r \in Arcs
          /\ DestId[r] \in Boxes
      BY <2>2, InputAt, ElementHeld DEF ForgetInput, DequeueForget, UnlockArc
    <3>2. /\ arcHolder' = [arcHolder EXCEPT ![r] = Nobody]
          /\ UNCHANGED numRecords
          /\ \A c \in Arcs \ {r} : arcHolder[c] # w /\ arcHolder'[c] = arcHolder[c]
      BY <2>2, ForgetEffect
    <3>3. workSet \ {DestId[r]} \subseteq workSet'
      BY <2>2 DEF ForgetInput, DequeueForget
    <3>4. r \in Arcs \ AppArcs
      BY <3>1, CatalogAssumption DEF AppArcs
    <3> HIDE DEF r
    <3> SUFFICES ASSUME NEW c \in Arcs \ AppArcs PROVE Known(c)
      OBVIOUS
    <3>5. CASE c = r
      <4>1. numRecords'[r] = 0
        BY <3>1, <3>2, <3>4 DEF WorkKnown
      <4>2. arcHolder'[r] = Nobody
        BY <1>f, <3>1, <3>2
      <4>q. QED
        BY <3>5, <4>1, <4>2
    <3>6. CASE c # r
      <4>1. DestId[c] # DestId[r]
        BY <3>4, <3>6, OnlyInput
      <4>2. DestId[c] \in workSet => DestId[c] \in workSet'
        BY <3>3, <4>1
      <4>q. QED
        BY <1>a, <2>0, <3>2, <3>6, <4>2
    <3>q. QED
      BY <3>5, <3>6
  <2>3. CASE WriteOutput(w)
    <3> DEFINE r == Outputs(w)[warc[w]]
    <3>1. wpc[w] = "enq" /\ wpc'[w] = "count" /\ EnqueueWrite(w, r, wout[w])
      BY <2>3 DEF WriteOutput, GoTo, WorkerTyping
    <3>2. r \in Arcs /\ wout[w] \in Seq(Tuples)
      BY <3>1, OutputAt DEF WorkerTyping
    <3>3. \A c \in Arcs : arcHolder[c] # w
      BY <3>1, HoldsNone
    <3> HIDE DEF r
    <3>q. QED
      BY <1>e, <2>0, <2>t, <3>1, <3>2, <3>3
  <2>4. CASE CountOutput(w)
    <3> DEFINE r == Outputs(w)[warc[w]]
    <3>1. wpc[w] = "count" /\ EnqueueCount(w, r, Len(wout[w]))
      BY <2>4 DEF CountOutput
    <3>2. r \in Arcs /\ Len(wout[w]) \in Nat
      BY <3>1, OutputAt DEF WorkerTyping
    <3>3. \A c \in Arcs \ {r} : arcHolder[c] # w
      BY <3>1 DEF ArcSections
    <3> HIDE DEF r
    <3>q. QED
      BY <1>c, <2>0, <2>t, <3>1, <3>2, <3>3
  <2>q. QED
    BY <1>2, <2>1, <2>2, <2>3, <2>4
<1>3. CASE (StoreTuple \/ CountTuple) /\ UNCHANGED workerVars
  <2>0. /\ \A u \in Workers : wpc'[u] = wpc[u] /\ u # Stream
        /\ Stream \in Threads
        /\ parc \in InputArcs /\ parc \in Arcs
    <3>1. wpc' = wpc
      BY <1>3 DEF workerVars
    <3>2. ppc \in {"enq", "count"}
      BY <1>3 DEF StoreTuple, CountTuple
    <3>q. QED
      BY <3>1, <3>2 DEF Threads, StreamPhases, InputArcs
  <2>1. CASE StoreTuple
    <3>1. <<<<parc, generated[parc]>>>> \in Seq(Tuples)
      <4>1. <<parc, generated[parc]>> \in Tuples
        BY <2>0 DEF StreamTyping, Tuples
      <4>q. QED
        BY <4>1
    <3>2. /\ EnqueueWrite(Stream, parc, <<<<parc, generated[parc]>>>>)
          /\ ppc = "enq"
      BY <2>1 DEF StoreTuple
    <3>3. \A c \in Arcs : arcHolder[c] # Stream
      BY <3>2 DEF ArcSections
    <3>q. QED
      BY <1>e, <2>0, <3>1, <3>2, <3>3
  <2>2. CASE CountTuple
    <3>1. EnqueueCount(Stream, parc, 1) /\ ppc = "count"
      BY <2>2 DEF CountTuple
    <3>2. \A c \in Arcs \ {parc} : arcHolder[c] # Stream
      BY <3>1 DEF ArcSections
    <3>q. QED
      BY <1>c, <2>0, <3>1, <3>2
  <2>q. QED
    BY <1>3, <2>1, <2>2
<1>q. QED
  BY <1>1, <1>2, <1>3, ArcSteps

-----------------------------------------------------------------------------
(* What must be in place wherever a thread is.                             *)

USE DEF findVars, loadVars, joinVars, schedVars, workerVars, streamVars,
        beqVars, stopVars, smVars

\* A worker that a step does not move stays in its phase.
LEMMA WorkerPhaseFrame ==
  ASSUME NEW u \in Workers, WorkerPhase(u), stop => stop',
         wpc'[u] = wpc[u], wqe'[u] = wqe[u], warc'[u] = warc[u]
  PROVE  WorkerPhase(u)'
BY DEF WorkerPhase, Inputs, Outputs

\* Going on in an arc list keeps the position within the list; what comes
\* after the list starts at its own first arc.
LEMMA AdvancePhase ==
  ASSUME WorkerTyping, NEW w \in Workers, NEW ids, Len(ids) \in Nat,
         NEW again, NEW after, Advance(w, ids, again, after)
  PROVE  \/ wpc'[w] = again /\ warc'[w] <= Len(ids)
         \/ wpc'[w] = after /\ warc'[w] = 1
<1>1. warc[w] \in Nat
  BY DEF WorkerTyping
<1>2. CASE warc[w] < Len(ids)
  BY <1>1, <1>2 DEF Advance, GoTo, WorkerTyping
<1>3. CASE ~(warc[w] < Len(ids))
  BY <1>3 DEF Advance, GoTo, WorkerTyping
<1>q. QED
  BY <1>2, <1>3

\* The worker that takes a step is then in the phase its location asks for.
LEMMA OwnPhase ==
  ASSUME TypeOK, NEW w \in Workers, Worker(w), stop => stop'
  PROVE  WorkerPhase(w)'
<1> USE DEF TypeOK, Typing
<1>0. WorkerPhase(w) /\ WorkerTyping
  BY DEF WorkerPhases
<1>a. wqe[w] # NoQE => wqe[w].box \in Boxes
  BY DEF WorkerTyping, QueueElements
<1>1. CASE AtTop(w)
  BY <1>0, <1>1 DEF AtTop, WorkerPhase, WorkerTyping, GoTo
<1>2. CASE CheckQueue(w)
  <2>1. CASE StopSeen
    BY <1>0, <1>2, <2>1 DEF CheckQueue, WorkerPhase, WorkerTyping, GoTo, TestStop
  <2>2. CASE ~StopSeen /\ Pop
    <3>1. Head(beq) \in QueueElements
      BY <2>2, HeadTailProperties DEF Pop, QueueTyping
    <3>2. Head(beq) # NoQE
      BY <3>1, QEAssumption
    <3>3. wqe' = [wqe EXCEPT ![w] = Head(beq)] /\ wpc' = [wpc EXCEPT ![w] = "popped"]
      BY <1>2, <2>2 DEF CheckQueue, Pop, SignalIfEmpty, GoTo
    <3>q. QED
      BY <1>0, <1>2, <3>2, <3>3 DEF CheckQueue, WorkerPhase, WorkerTyping
  <2>3. CASE ~StopSeen /\ SignalIfEmpty(w)
    BY <1>0, <1>2, <2>3 DEF CheckQueue, WorkerPhase, WorkerTyping, GoTo, SignalIfEmpty, Pop
  <2>q. QED
    BY <1>2, <2>1, <2>2, <2>3 DEF CheckQueue
<1>3. CASE WaitForWork(w)
  BY <1>0, <1>3 DEF WaitForWork, WorkerPhase, WorkerTyping, GoTo
<1>4. CASE CheckStop(w)
  <2>1. CASE StopSeen
    BY <1>0, <1>4, <2>1 DEF CheckStop, WorkerPhase, WorkerTyping, GoTo
  <2>2. CASE ~StopSeen
    <3>1. wqe[w] # NoQE /\ warc[w] = 1
      BY <1>0, <1>4, <2>2 DEF CheckStop, WorkerPhase, StopSeen
    <3>2. 1 <= Len(InputQueueIds[wqe[w].box])
      BY <1>a, <3>1, ListsNotEmpty
    <3>3. wpc'[w] = "load" /\ warc'[w] = 1 /\ wqe'[w] = wqe[w]
      BY <1>4, <2>2, <3>1 DEF CheckStop, GoTo, WorkerTyping
    <3>q. QED
      BY <3>1, <3>2, <3>3 DEF WorkerPhase, Inputs
  <2>q. QED
    BY <2>1, <2>2
<1>5. CASE LoadQueue(w)
  <2>1. Len(Inputs(w)) \in Nat /\ wqe[w] # NoQE
    BY <1>5, InputAt, ElementHeld DEF LoadQueue
  <2>2. Advance(w, Inputs(w), "load", "run") /\ wqe' = wqe
    BY <1>5 DEF LoadQueue
  <2>3. \/ wpc'[w] = "load" /\ warc'[w] <= Len(Inputs(w))
        \/ wpc'[w] = "run" /\ warc'[w] = 1
    BY <1>0, <2>1, <2>2, AdvancePhase
  <2>q. QED
    BY <2>1, <2>2, <2>3 DEF WorkerPhase, Inputs
<1>6. CASE DoBox(w)
  <2>1. /\ wqe'[w] = wqe[w] /\ wqe[w] # NoQE
        /\ warc'[w] = 1
        /\ wpc'[w] \in {"deq", "aborted"}
    BY <1>0, <1>6, ElementHeld DEF DoBox, GoTo, WorkerTyping, WorkerPhase
  <2>2. 1 <= Len(InputQueueIds[wqe[w].box])
    BY <1>a, <2>1, ListsNotEmpty
  <2>q. QED
    BY <2>1, <2>2 DEF WorkerPhase, Inputs
<1>7. CASE RemoveInput(w)
  <2>1. Len(Inputs(w)) \in Nat /\ wqe[w] # NoQE
    BY <1>7, InputAt, ElementHeld DEF RemoveInput
  <2>2. /\ wqe' = wqe
        /\ \/ GoTo(w, "forget") /\ UNCHANGED warc
           \/ Advance(w, Inputs(w), "deq", AfterInputs(w))
        /\ warc[w] <= Len(Inputs(w))
    BY <1>0, <1>7 DEF RemoveInput, WorkerPhase
  <2>3. 1 <= Len(OutputQueueIds[wqe[w].box])
    BY <1>a, <2>1, ListsNotEmpty
  <2>4. AfterInputs(w) \in {"enq", "announce"}
    BY DEF AfterInputs
  <2>5. Advance(w, Inputs(w), "deq", AfterInputs(w)) =>
          \/ wpc'[w] = "deq" /\ warc'[w] <= Len(Inputs(w))
          \/ wpc'[w] = AfterInputs(w) /\ warc'[w] = 1
    BY <1>0, <2>1, AdvancePhase
  <2>6. CASE GoTo(w, "forget") /\ UNCHANGED warc
    BY <2>1, <2>2, <2>6 DEF WorkerPhase, Inputs, GoTo, WorkerTyping
  <2>7. CASE Advance(w, Inputs(w), "deq", AfterInputs(w))
    BY <2>1, <2>2, <2>3, <2>4, <2>5, <2>7 DEF WorkerPhase, Inputs, Outputs
  <2>q. QED
    BY <2>2, <2>6, <2>7
<1>8. CASE ForgetInput(w)
  <2>1. Len(Inputs(w)) \in Nat /\ wqe[w] # NoQE
    BY <1>8, InputAt, ElementHeld DEF ForgetInput
  <2>2. wqe' = wqe /\ Advance(w, Inputs(w), "deq", AfterInputs(w))
    BY <1>8 DEF ForgetInput
  <2>3. 1 <= Len(OutputQueueIds[wqe[w].box])
    BY <1>a, <2>1, ListsNotEmpty
  <2>4. AfterInputs(w) \in {"enq", "announce"}
    BY DEF AfterInputs
  <2>5. Advance(w, Inputs(w), "deq", AfterInputs(w)) =>
          \/ wpc'[w] = "deq" /\ warc'[w] <= Len(Inputs(w))
          \/ wpc'[w] = AfterInputs(w) /\ warc'[w] = 1
    BY <1>0, <2>1, AdvancePhase
  <2>q. QED
    BY <2>1, <2>2, <2>3, <2>4, <2>5 DEF WorkerPhase, Inputs, Outputs
<1>9. CASE WriteOutput(w)
  <2>1. wqe[w] # NoQE
    BY <1>9, ElementHeld DEF WriteOutput
  <2>q. QED
    BY <1>0, <1>9, <2>1 DEF WriteOutput, WorkerPhase, WorkerTyping, GoTo, Outputs
<1>10. CASE CountOutput(w)
  <2>1. Len(Outputs(w)) \in Nat /\ wqe[w] # NoQE
    BY <1>10, OutputAt, ElementHeld DEF CountOutput
  <2>2. Advance(w, Outputs(w), "enq", "announce") /\ wqe' = wqe
    BY <1>10 DEF CountOutput
  <2>3. \/ wpc'[w] = "enq" /\ warc'[w] <= Len(Outputs(w))
        \/ wpc'[w] = "announce" /\ warc'[w] = 1
    BY <1>0, <2>1, <2>2, AdvancePhase
  <2>q. QED
    BY <2>1, <2>2, <2>3 DEF WorkerPhase, Outputs
<1>11. CASE AnnounceNewAppTuples(w)
  BY <1>0, <1>11 DEF AnnounceNewAppTuples, WorkerPhase, WorkerTyping, GoTo
<1>12. CASE ReleaseBox(w)
  BY <1>0, <1>12 DEF ReleaseBox, WorkerPhase, WorkerTyping, GoTo
<1>13. CASE SignalScheduler(w)
  BY <1>0, <1>13 DEF SignalScheduler, WorkerPhase, WorkerTyping, GoTo
<1>q. QED
  BY <1>1, <1>2, <1>3, <1>4, <1>5, <1>6, <1>7, <1>8, <1>9, <1>10, <1>11, <1>12, <1>13 DEF Worker

\* A step of the scheduler: it has a box exactly while it builds an element,
\* and its position is one of the inputs of that box.
LEMMA SchedulerPhaseStep ==
  ASSUME TypeOK, SchedulerNext
  PROVE  SchedulerPhases'
<1> USE DEF TypeOK, Typing
<1>0. SchedulerPhases /\ SchedulerTyping
  OBVIOUS
<1>1. CASE WaitForEvent
  BY <1>0, <1>1 DEF WaitForEvent, SchedulerPhases
<1>2. CASE SchedulerSleeps
  BY <1>0, <1>2 DEF SchedulerSleeps, SchedulerPhases
<1>3. CASE SchedulerWoken
  BY <1>0, <1>3 DEF SchedulerWoken, SchedulerPhases
<1>4. CASE SchedulerTimeout
  BY <1>0, <1>4 DEF SchedulerTimeout, SchedulerPhases
<1>5. CASE TestForStop
  BY <1>0, <1>5 DEF TestForStop, SchedulerPhases
<1>6. CASE ReadSize
  BY <1>0, <1>6 DEF ReadSize, SchedulerPhases
<1>7. CASE CopyWorkSet
  BY <1>0, <1>7 DEF CopyWorkSet, SchedulerPhases
<1>8. CASE \E b \in Boxes : TestBox(b)
  BY <1>0, <1>8 DEF TestBox, SchedulerPhases
<1>9. CASE OrderCandidates
  BY <1>0, <1>9 DEF OrderCandidates, SchedulerPhases
<1>10. CASE LoadSingleBox
  <2>1. candidates[next] \in Boxes
    BY <1>0, <1>10 DEF LoadSingleBox, MoreToLoad, SchedulerTyping
  <2>2. loaded' \in QueueElements /\ loaded'.box \in Boxes
    BY <1>10, <2>1 DEF LoadSingleBox, QueueElements
  <2>3. 1 <= Len(InputQueueIds[loaded'.box]) /\ loaded' # NoQE
    BY <2>2, ListsNotEmpty, QEAssumption
  <2>q. QED
    BY <1>0, <1>10, <2>3 DEF LoadSingleBox, SchedulerPhases
<1>11. CASE SkipLockedBox
  BY <1>0, <1>11 DEF SkipLockedBox, SchedulerPhases
<1>12. CASE PinInput
  <2>1. /\ loaded \in QueueElements /\ loaded' \in QueueElements
        /\ loaded'.box = loaded.box
    BY <1>12, PinnedInput
  <2>2. loaded.box \in Boxes /\ loaded' # NoQE
    BY <2>1, QEAssumption DEF QueueElements
  <2>3. Len(InputQueueIds[loaded.box]) \in Nat
    BY <2>2, ListsNotEmpty
  <2>q. QED
    BY <1>0, <1>12, <2>1, <2>2, <2>3 DEF PinInput, SchedulerPhases, SchedulerTyping
<1>13. CASE PushElement
  BY <1>0, <1>13 DEF PushElement, SchedulerPhases
<1>14. CASE RefillDone
  BY <1>0, <1>14 DEF RefillDone, SchedulerPhases
<1>15. CASE \E u \in Workers : SignalWorker(u)
  BY <1>0, <1>15 DEF SignalWorker, SchedulerPhases
<1>16. CASE JoinWorker(Ended)
  BY <1>0, <1>16 DEF JoinWorker, SchedulerPhases
<1>q. QED
  BY <1>1, <1>2, <1>3, <1>4, <1>5, <1>6, <1>7, <1>8, <1>9, <1>10, <1>11, <1>12, <1>13, <1>14, <1>15, <1>16 DEF SchedulerNext, SchedulerStep

\* The stream thread has an input arc at hand while it stores a tuple.
LEMMA StreamPhaseStep ==
  ASSUME StreamPhases, StreamStep
  PROVE  StreamPhases'
BY DEF StreamPhases, StreamStep, GenerateTuple, StoreTuple, CountTuple,
  WakeScheduler, StreamEnds

\* All phases together: a thread's step keeps its own phase, and no step
\* disturbs the phase of another thread.
LEMMA PhasesStep ==
  ASSUME TypeOK, [Next]_vars
  PROVE  WorkerPhases' /\ SchedulerPhases' /\ StreamPhases'
<1> USE DEF TypeOK, Typing
<1>0. stop => stop'
  BY StopStays
<1>w. ASSUME UNCHANGED workerVars
      PROVE  WorkerPhases'
  BY <1>0, <1>w, WorkerPhaseFrame DEF WorkerPhases
<1>s. ASSUME UNCHANGED schedVars
      PROVE  SchedulerPhases'
  BY <1>s DEF SchedulerPhases
<1>p. ASSUME UNCHANGED streamVars
      PROVE  StreamPhases'
  BY <1>p DEF StreamPhases
<1>1. CASE \E w \in Workers : WorkerStep(w)
  <2> PICK w \in Workers : WorkerStep(w)
    BY <1>1
  <2>1. Worker(w) /\ UNCHANGED <<schedVars, streamVars>>
    BY DEF WorkerStep
  <2>2. ASSUME NEW u \in Workers PROVE WorkerPhase(u)'
    <3>1. CASE u = w
      BY <1>0, <2>1, <3>1, OwnPhase
    <3>2. CASE u # w
      BY <1>0, <2>1, <3>2, OtherWorkers, WorkerPhaseFrame DEF WorkerPhases
    <3>q. QED
      BY <3>1, <3>2
  <2>q. QED
    BY <1>s, <1>p, <2>1, <2>2 DEF WorkerPhases
<1>2. CASE SchedulerNext
  BY <1>2, <1>w, <1>p, SchedulerPhaseStep DEF SchedulerNext
<1>3. CASE StreamNext
  BY <1>3, <1>w, <1>s, StreamPhaseStep DEF StreamNext
<1>4. CASE TimePasses
  BY <1>4, <1>w, <1>s, <1>p DEF TimePasses
<1>5. CASE UNCHANGED vars
  BY <1>5, <1>w, <1>s, <1>p DEF vars
<1>q. QED
  BY <1>1, <1>2, <1>3, <1>4, <1>5 DEF Next

-----------------------------------------------------------------------------
(* What was announced, and the end of a run. *)

\* What a worker has stored results on are outputs of its box.
LEMMA StoredArcs ==
  ASSUME TypeOK, NEW w \in Workers, NEW a \in Stored(w)
  PROVE  /\ w \in Busy
         /\ wqe[w].box \in Boxes
         /\ a \in OutArcs(wqe[w].box)
         /\ SrcId[a] = wqe[w].box
<1>1. wpc[w] \in {"enq", "count", "announce"}
  BY DEF Stored
<1>2. wqe[w] # NoQE /\ wqe[w].box \in Boxes
  BY <1>1, ElementHeld
<1>3. ASSUME wpc[w] \in {"enq", "count"}
      PROVE  Stored(w) \subseteq {Outputs(w)[i] : i \in 1..Len(Outputs(w))}
  <2>1. /\ warc[w] \in Nat \ {0} /\ warc[w] <= Len(Outputs(w))
        /\ Len(Outputs(w)) \in Nat
    BY <1>3, OutputAt DEF TypeOK, Typing, WorkerTyping, WorkerPhases, WorkerPhase
  <2>2. 1..warc[w] \subseteq 1..Len(Outputs(w)) /\ 1..(warc[w] - 1) \subseteq 1..Len(Outputs(w))
    BY <2>1
  <2>q. QED
    BY <1>3, <2>2 DEF Stored
<1>4. a \in OutArcs(wqe[w].box)
  BY <1>1, <1>3 DEF Stored, OutArcs, Outputs
<1>q. QED
  BY <1>2, <1>4, CatalogAssumption DEF Busy

\* While one worker has a box, no other has results on the outputs of it.
LEMMA StoredOnce ==
  ASSUME TypeOK, BoxExclusion, NEW w \in Busy, NEW a, SrcId[a] = wqe[w].box,
         NEW u \in Workers \ {w}
  PROVE  a \notin Stored(u)
BY StoredArcs DEF BoxExclusion, BusyOnce

\* The three steps of a worker that change what it has stored and not
\* announced; in all the others this, and what it stored there, stays.
LEMMA StoredSteps ==
  ASSUME TypeOK, NEW w \in Workers, Worker(w)
  PROVE  \/ /\ WriteOutput(w)
            /\ Stored(w)' = Stored(w) \cup {Outputs(w)[warc[w]]}
            /\ Outputs(w)[warc[w]] \notin Stored(w)
         \/ /\ AnnounceNewAppTuples(w)
            /\ Stored(w) = OutArcs(wqe[w].box)
            /\ Stored(w)' = {}
         \/ /\ ~WriteOutput(w) /\ UNCHANGED announced
            /\ Stored(w)' = Stored(w)
            /\ Stored(w) # {} => wout'[w] = wout[w]
         \/ /\ RemoveInput(w) \/ ForgetInput(w)
            /\ UNCHANGED <<announced, wout, wqe>>
            /\ Stored(w) = {}
            /\ wout[w] = <<>>
            /\ Stored(w)' = OutArcs(wqe[w].box)
<1> USE DEF TypeOK, Typing
<1>0. WorkerTyping
  OBVIOUS
\* Outside unloadQueues and the announcement nothing is stored.
<1>n. ASSUME wpc[w] \notin {"enq", "count", "announce"},
             wpc'[w] \notin {"enq", "count", "announce"}
      PROVE  Stored(w)' = Stored(w) /\ Stored(w) = {}
  BY <1>n DEF Stored
<1>1. CASE AtTop(w)
  BY <1>0, <1>n, <1>1 DEF AtTop, GoTo, WorkerTyping, WriteOutput
<1>2. CASE CheckQueue(w)
  BY <1>0, <1>n, <1>2 DEF CheckQueue, GoTo, WorkerTyping, WriteOutput
<1>3. CASE WaitForWork(w)
  BY <1>0, <1>n, <1>3 DEF WaitForWork, GoTo, WorkerTyping, WriteOutput
<1>4. CASE CheckStop(w)
  BY <1>0, <1>n, <1>4 DEF CheckStop, GoTo, WorkerTyping, WriteOutput
<1>5. CASE LoadQueue(w)
  BY <1>0, <1>n, <1>5 DEF LoadQueue, Advance, GoTo, WorkerTyping, WriteOutput
<1>6. CASE DoBox(w)
  BY <1>0, <1>n, <1>6 DEF DoBox, GoTo, WorkerTyping, WriteOutput
<1>7. CASE RemoveInput(w) \/ ForgetInput(w)
  <2>1. /\ wpc[w] \in {"deq", "forget"}
        /\ UNCHANGED <<announced, wout, wqe>>
        /\ \/ wpc'[w] = "forget"
           \/ Advance(w, Inputs(w), "deq", AfterInputs(w))
    BY <1>0, <1>7 DEF RemoveInput, ForgetInput, GoTo, WorkerTyping
  <2>2. Len(Inputs(w)) \in Nat
    BY <2>1, InputAt
  <2>3. \/ wpc'[w] \in {"forget", "deq"}
        \/ wpc'[w] = AfterInputs(w) /\ warc'[w] = 1
    BY <1>0, <2>1, <2>2 DEF Advance, GoTo, WorkerTyping
  <2>4. Stored(w) = {} /\ ~WriteOutput(w)
    BY <2>1 DEF Stored, WriteOutput
  <2>5. CASE wpc'[w] \in {"forget", "deq"}
    BY <1>n, <2>1, <2>4, <2>5
  <2>6. CASE wpc'[w] = "enq" /\ warc'[w] = 1
    <3>1. 1..(warc'[w] - 1) = {}
      BY <2>6
    <3>2. Stored(w)' = {}
      BY <2>6, <3>1 DEF Stored
    <3>q. QED
      BY <2>1, <2>4, <3>2
  <2>7. CASE wpc'[w] = "announce" /\ wout[w] = <<>>
    <3>1. Stored(w)' = OutArcs(wqe[w].box)
      BY <2>1, <2>7 DEF Stored, OutArcs
    <3>q. QED
      BY <1>7, <2>1, <2>4, <2>7, <3>1
  <2>q. QED
    BY <2>3, <2>5, <2>6, <2>7 DEF AfterInputs
<1>8. CASE WriteOutput(w)
  <2>1. /\ wpc[w] = "enq" /\ wpc'[w] = "count"
        /\ UNCHANGED <<wqe, warc>>
    BY <1>0, <1>8 DEF WriteOutput, GoTo, WorkerTyping
  <2>2. warc[w] \in Nat \ {0} /\ warc[w] <= Len(Outputs(w)) /\ Len(Outputs(w)) \in Nat
    BY <2>1, OutputAt DEF WorkerTyping, WorkerPhases, WorkerPhase
  <2>3. 1..warc[w] = 1..(warc[w] - 1) \cup {warc[w]}
    BY <2>2
  <2>4. Stored(w) = {Outputs(w)[i] : i \in 1..(warc[w] - 1)}
    BY <2>1 DEF Stored
  <2>5. Stored(w)' = {Outputs(w)[i] : i \in 1..warc[w]}
    BY <2>1 DEF Stored, Outputs
  <2>6. Stored(w)' = Stored(w) \cup {Outputs(w)[warc[w]]}
    BY <2>3, <2>4, <2>5
  <2>7. ASSUME NEW i \in 1..(warc[w] - 1)
        PROVE  Outputs(w)[i] # Outputs(w)[warc[w]]
    <3>1. /\ i \in 1..Len(Outputs(w)) /\ warc[w] \in 1..Len(Outputs(w))
          /\ i # warc[w]
      BY <2>2
    <3>2. wqe[w].box \in Boxes
      BY <2>1, ElementHeld
    <3>3. NoRepeat(Outputs(w))
      BY <3>2, CatalogAssumption DEF Outputs
    <3>q. QED
      BY <3>1, <3>3 DEF NoRepeat
  <2>q. QED
    BY <1>8, <2>4, <2>6, <2>7
<1>9. CASE CountOutput(w)
  <2>1. /\ wpc[w] = "count"
        /\ UNCHANGED <<wqe, wout, announced>>
        /\ Advance(w, Outputs(w), "enq", "announce")
    BY <1>9 DEF CountOutput
  <2>2. warc[w] \in Nat \ {0} /\ warc[w] <= Len(Outputs(w)) /\ Len(Outputs(w)) \in Nat
    BY <2>1, OutputAt DEF WorkerTyping, WorkerPhases, WorkerPhase
  <2>3. Stored(w) = {Outputs(w)[i] : i \in 1..warc[w]}
    BY <2>1 DEF Stored
  <2>4. CASE warc[w] < Len(Outputs(w))
    <3>1. wpc'[w] = "enq" /\ warc'[w] = warc[w] + 1
      BY <1>0, <2>1, <2>4 DEF Advance, GoTo, WorkerTyping
    <3>2. warc'[w] - 1 = warc[w]
      BY <2>2, <3>1
    <3>3. Stored(w)' = {Outputs(w)[i] : i \in 1..warc[w]}
      BY <2>1, <3>1, <3>2 DEF Stored, Outputs
    <3>q. QED
      BY <2>1, <2>3, <3>3 DEF WriteOutput
  <2>5. CASE ~(warc[w] < Len(Outputs(w)))
    <3>1. wpc'[w] = "announce" /\ warc[w] = Len(Outputs(w))
      BY <1>0, <2>1, <2>2, <2>5 DEF Advance, GoTo, WorkerTyping
    <3>2. Stored(w)' = {Outputs(w)[i] : i \in 1..warc[w]}
      BY <2>1, <3>1 DEF Stored, OutArcs, Outputs
    <3>q. QED
      BY <2>1, <2>3, <3>2 DEF WriteOutput
  <2>q. QED
    BY <2>4, <2>5
<1>10. CASE AnnounceNewAppTuples(w)
  BY <1>0, <1>10 DEF AnnounceNewAppTuples, Stored, GoTo, WorkerTyping
<1>11. CASE ReleaseBox(w)
  BY <1>0, <1>n, <1>11 DEF ReleaseBox, GoTo, WorkerTyping, WriteOutput
<1>12. CASE SignalScheduler(w)
  BY <1>0, <1>n, <1>12 DEF SignalScheduler, GoTo, WorkerTyping, WriteOutput
<1>q. QED
  BY <1>1, <1>2, <1>3, <1>4, <1>5, <1>6, <1>7, <1>8, <1>9, <1>10, <1>11, <1>12 DEF Worker

\* Only a worker that stores an output adds to an arc that a box writes for
\* an application, and nobody removes from it.
LEMMA AppArcQueues ==
  ASSUME TypeOK, CountsConsistent, ArcSections, PinsAvailable, [Next]_vars,
         NEW a \in AppArcs, SrcId[a] # NoBox
  PROVE  \/ queue'[a] = queue[a]
         \/ \E w \in Workers : /\ WriteOutput(w) /\ WorkerStep(w)
                               /\ a = Outputs(w)[warc[w]]
                               /\ Len(queue'[a]) = Len(queue[a]) + Len(wout[w])
<1> USE DEF TypeOK, Typing
<1>0. a \in Arcs /\ a \notin InputArcs
  BY DEF AppArcs, InputArcs
<1>1. ASSUME NEW w \in Workers, RemoveInput(w)
      PROVE  queue'[a] = queue[a]
  <2> DEFINE r == Inputs(w)[warc[w]]
  <2>1. wpc[w] = "deq"
    BY <1>1 DEF RemoveInput
  <2>2. DestId[r] \in Boxes
    BY <2>1, InputAt, ElementHeld
  <2>3. a # r
    BY <2>2, CatalogAssumption DEF AppArcs
  <2>q. QED
    BY <1>0, <1>1, <2>3, RemoveEffect
<1>2. ASSUME NEW w \in Workers, WriteOutput(w), WorkerStep(w)
      PROVE  \/ queue'[a] = queue[a]
             \/ /\ a = Outputs(w)[warc[w]]
                /\ Len(queue'[a]) = Len(queue[a]) + Len(wout[w])
  <2> DEFINE r == Outputs(w)[warc[w]]
  <2>1. wpc[w] = "enq" /\ EnqueueWrite(w, r, wout[w])
    BY <1>2 DEF WriteOutput
  <2>2. r \in Arcs /\ wout[w] \in Seq(Tuples) /\ w \in Threads
    BY <2>1, OutputAt DEF WorkerTyping, Threads
  <2>r. r = Outputs(w)[warc[w]]
    OBVIOUS
  <2> HIDE DEF r
  <2>3. /\ Len(queue'[r]) = numRecords[r] + Len(wout[w])
        /\ Len(queue[r]) = numRecords[r]
        /\ \A c \in Arcs \ {r} : queue'[c] = queue[c]
    BY <2>1, <2>2, WriteEffect
  <2>4. CASE a = r
    BY <2>3, <2>4, <2>r
  <2>5. CASE a # r
    BY <1>0, <2>3, <2>5
  <2>q. QED
    BY <2>4, <2>5
<1>3. CASE StoreTuple
  <2>1. parc \in InputArcs /\ parc \in Arcs
    BY <1>3 DEF StoreTuple, StreamPhases, InputArcs
  <2>2. queue' = [queue EXCEPT ![parc] = @ \o <<<<parc, generated[parc]>>>>]
    BY <1>3 DEF StoreTuple, EnqueueWrite
  <2>q. QED
    BY <1>0, <2>1, <2>2 DEF StorageTyping
<1>q. QED
  BY <1>1, <1>2, <1>3, ArcSteps DEF Elsewhere, ForgetInput, DequeueForget,
    CountOutput, CountTuple, EnqueueCount

\* No step announces or stores without the other following, arc by arc.
LEMMA LedgerStep ==
  ASSUME TypeOK, BoxExclusion, CountsConsistent, ArcSections, PinsAvailable,
         AppLedger, [Next]_vars
  PROVE  AppLedger'
<1> USE DEF TypeOK, Typing
<1> SUFFICES ASSUME NEW a \in AppArcs
             PROVE  IF SrcId[a] = NoBox
                    THEN announced'[a] = 0
                    ELSE /\ \A u \in Workers : a \in Stored(u)' =>
                              Len(queue'[a]) = announced'[a] + Len(wout'[u])
                         /\ (\A u \in Workers : a \notin Stored(u)') =>
                              Len(queue'[a]) = announced'[a]
  BY DEF AppLedger
<1>0. /\ a \in Arcs
      /\ announced[a] \in Nat
      /\ Len(queue[a]) \in Nat
      /\ \A u \in Workers : Len(wout[u]) \in Nat
  BY DEF AppArcs, StorageTyping, WorkerTyping
<1>1. CASE SrcId[a] = NoBox
  <2>1. ASSUME NEW w \in Workers, AnnounceNewAppTuples(w)
        PROVE  announced'[a] = announced[a]
    <3>1. wqe[w].box \in Boxes
      BY <2>1, ElementHeld DEF AnnounceNewAppTuples
    <3>2. a \notin OutArcs(wqe[w].box)
      BY <1>1, <3>1, CatalogAssumption
    <3>q. QED
      BY <1>0, <2>1, <3>2 DEF AnnounceNewAppTuples
  <2>2. announced' = announced \/ \E w \in Workers : AnnounceNewAppTuples(w)
    <3>1. ASSUME NEW w \in Workers, Worker(w)
          PROVE  announced' = announced \/ AnnounceNewAppTuples(w)
      BY <3>1, StoredSteps DEF WriteOutput
    <3>q. QED
      BY <3>1 DEF Next, WorkerStep, SchedulerNext, StreamNext, TimePasses, vars
  <2>q. QED
    BY <1>1, <2>1, <2>2 DEF AppLedger
<1>2. CASE SrcId[a] # NoBox
  <2>0. /\ \A u \in Workers : a \in Stored(u) =>
             Len(queue[a]) = announced[a] + Len(wout[u])
        /\ (\A u \in Workers : a \notin Stored(u)) =>
             Len(queue[a]) = announced[a]
    BY <1>2 DEF AppLedger
  <2>1. CASE \E w \in Workers : WorkerStep(w)
    <3> PICK w \in Workers : WorkerStep(w)
      BY <2>1
    <3>0. Worker(w)
      BY DEF WorkerStep
    <3>1. ASSUME NEW u \in Workers \ {w}
          PROVE  Stored(u)' = Stored(u) /\ wout'[u] = wout[u]
      <4>1. /\ wpc'[u] = wpc[u] /\ wqe'[u] = wqe[u]
            /\ warc'[u] = warc[u] /\ wout'[u] = wout[u]
        BY <3>0, OtherWorkers
      <4>q. QED
        BY <4>1 DEF Stored, Outputs, OutArcs
    \* Only one worker stores at a time, and it is the one that moves.
    <3>o. ASSUME NEW v \in Workers, v \in Workers \ {w}, WorkerStep(v)
          PROVE  ~WriteOutput(v)
      BY <3>0, <3>o, OtherWorkers DEF WriteOutput, GoTo, WorkerTyping
    <3>2. CASE WriteOutput(w)
      <4> DEFINE r == Outputs(w)[warc[w]]
      <4>1. /\ wpc[w] = "enq" /\ UNCHANGED <<wout, announced>>
            /\ w \in Busy
        BY <3>2, ElementHeld DEF WriteOutput, Busy
      <4>2. /\ Stored(w)' = Stored(w) \cup {r}
            /\ r \notin Stored(w)
        BY <3>0, <3>2, StoredSteps DEF WriteOutput, AnnounceNewAppTuples,
          RemoveInput, ForgetInput
      <4>3. CASE a = r
        <5>1. a \in OutArcs(wqe[w].box) /\ wqe[w].box \in Boxes
          BY <4>1, <4>3, OutputAt, ElementHeld
        <5>2. SrcId[a] = wqe[w].box
          BY <5>1, CatalogAssumption
        <5>3. \A u \in Workers : a \notin Stored(u)
          BY <4>1, <4>2, <4>3, <5>2, StoredOnce
        <5>4. Len(queue[a]) = announced[a]
          BY <2>0, <5>3
        <5>5. EnqueueWrite(w, r, wout[w]) /\ w \in Threads /\ wout[w] \in Seq(Tuples)
          BY <3>2 DEF WriteOutput, Threads, WorkerTyping
        <5> HIDE DEF r
        <5>6. Len(queue'[a]) = Len(queue[a]) + Len(wout[w])
          <6>1. EnqueueWrite(w, a, wout[w])
            BY <4>3, <5>5
          <6>2. /\ Len(queue'[a]) = numRecords[a] + Len(wout[w])
                /\ Len(queue[a]) = numRecords[a]
            BY <1>0, <5>5, <6>1, WriteEffect
          <6>q. QED
            BY <6>2
        <5>7. \A u \in Workers : a \in Stored(u)' => u = w
          BY <3>1, <5>3
        <5>8. a \in Stored(w)'
          BY <4>2, <4>3
        <5>q. QED
          BY <1>2, <4>1, <5>4, <5>6, <5>7, <5>8
      <4>4. CASE a # r
        <5>1. queue'[a] = queue[a]
          BY <1>0, <3>2, <4>4 DEF WriteOutput, EnqueueWrite, StorageTyping
        <5>2. \A u \in Workers : a \in Stored(u)' <=> a \in Stored(u)
          BY <3>1, <4>2, <4>4
        <5>q. QED
          BY <1>2, <2>0, <4>1, <5>1, <5>2
      <4>q. QED
        BY <4>3, <4>4
    <3>3. CASE ~WriteOutput(w)
      <4>1. queue'[a] = queue[a]
        <5>1. \A v \in Workers : ~(WriteOutput(v) /\ WorkerStep(v))
          BY <3>3, <3>o
        <5>q. QED
          BY <1>2, <5>1, AppArcQueues
      <4>2. CASE /\ AnnounceNewAppTuples(w)
                 /\ Stored(w) = OutArcs(wqe[w].box)
                 /\ Stored(w)' = {}
        <5>1. /\ announced'[a] = announced[a] + IF a \in Stored(w) THEN Len(wout[w]) ELSE 0
              /\ wout' = wout
          BY <4>2 DEF AnnounceNewAppTuples
        <5>2. CASE a \in Stored(w)
          <6>1. Len(queue'[a]) = announced'[a]
            BY <1>0, <2>0, <4>1, <5>1, <5>2
          <6>2. \A u \in Workers : a \notin Stored(u)'
            <7>1. w \in Busy /\ SrcId[a] = wqe[w].box
              BY <5>2, StoredArcs
            <7>q. QED
              BY <3>1, <4>2, <7>1, StoredOnce
          <6>q. QED
            BY <1>2, <6>1, <6>2
        <5>3. CASE a \notin Stored(w)
          <6>1. announced'[a] = announced[a]
            BY <1>0, <5>1, <5>3
          <6>2. \A u \in Workers : a \in Stored(u)' <=> a \in Stored(u)
            BY <3>1, <4>2, <5>3
          <6>q. QED
            BY <1>2, <2>0, <4>1, <5>1, <6>1, <6>2
        <5>q. QED
          BY <5>2, <5>3
      <4>3. CASE /\ UNCHANGED announced
                 /\ Stored(w)' = Stored(w)
                 /\ Stored(w) # {} => wout'[w] = wout[w]
        <5>1. \A u \in Workers : /\ Stored(u)' = Stored(u)
                                 /\ a \in Stored(u) => wout'[u] = wout[u]
          BY <3>1, <4>3
        <5>q. QED
          BY <1>2, <2>0, <4>1, <4>3, <5>1
      <4>4. CASE /\ RemoveInput(w) \/ ForgetInput(w)
                 /\ UNCHANGED <<announced, wout, wqe>>
                 /\ Stored(w) = {}
                 /\ wout[w] = <<>>
                 /\ Stored(w)' = OutArcs(wqe[w].box)
        <5>1. CASE a \in OutArcs(wqe[w].box)
          <6>1. w \in Busy /\ wqe[w].box \in Boxes
            BY <4>4, ElementHeld DEF RemoveInput, ForgetInput, Busy
          <6>2. SrcId[a] = wqe[w].box
            BY <5>1, <6>1, CatalogAssumption
          <6>3. \A u \in Workers : a \notin Stored(u)
            BY <4>4, <6>1, <6>2, StoredOnce
          <6>4. Len(queue'[a]) = announced'[a] /\ Len(wout[w]) = 0
            BY <2>0, <4>1, <4>4, <6>3
          <6>5. \A u \in Workers : a \in Stored(u)' => u = w
            BY <3>1, <6>3
          <6>q. QED
            BY <1>0, <1>2, <4>4, <6>4, <6>5
        <5>2. CASE a \notin OutArcs(wqe[w].box)
          <6>1. \A u \in Workers : a \in Stored(u)' <=> a \in Stored(u)
            BY <3>1, <4>4, <5>2
          <6>q. QED
            BY <1>2, <2>0, <4>1, <4>4, <6>1
        <5>q. QED
          BY <5>1, <5>2
      <4>q. QED
        BY <3>0, <3>3, <4>2, <4>3, <4>4, StoredSteps
    <3>q. QED
      BY <3>2, <3>3
  <2>2. CASE ~\E w \in Workers : WorkerStep(w)
    <3>1. UNCHANGED workerVars
      BY <2>2 DEF Next, SchedulerNext, StreamNext, TimePasses, vars
    <3>2. queue'[a] = queue[a]
      BY <1>2, <2>2, AppArcQueues
    <3>3. \A u \in Workers : Stored(u)' = Stored(u)
      BY <3>1 DEF Stored, Outputs
    <3>q. QED
      BY <1>2, <2>0, <3>1, <3>2, <3>3
  <2>q. QED
    BY <2>1, <2>2
<1>q. QED
  BY <1>1, <1>2

\* Buffers are filled by loadQueues and emptied with the element.
LEMMA BuffersStep ==
  ASSUME TypeOK, BuffersEmpty, [Next]_vars
  PROVE  BuffersEmpty'
<1> DEFINE Idle == {"top", "queue", "nowork", "popped", "signal", "done"}
<1>0. WorkerTyping
  BY DEF TypeOK, Typing
<1>1. CASE \E w \in Workers : WorkerStep(w)
  <2> PICK w \in Workers : WorkerStep(w)
    BY <1>1
  <2>0. Worker(w)
    BY DEF WorkerStep
  <2>1. ASSUME wpc'[w] \in Idle PROVE wout'[w] = <<>>
    <3>1. CASE AtTop(w) \/ CheckQueue(w) \/ WaitForWork(w) \/ CheckStop(w) \/ SignalScheduler(w)
      BY <3>1 DEF AtTop, CheckQueue, WaitForWork, CheckStop, SignalScheduler,
        BuffersEmpty
    <3>2. CASE ReleaseBox(w)
      BY <1>0, <3>2 DEF ReleaseBox, WorkerTyping
    <3>3. CASE LoadQueue(w) \/ RemoveInput(w) \/ ForgetInput(w) \/ CountOutput(w)
      BY <1>0, <2>1, <3>3 DEF LoadQueue, RemoveInput, ForgetInput, CountOutput,
        Advance, AfterInputs, GoTo, WorkerTyping
    <3>4. CASE DoBox(w) \/ WriteOutput(w) \/ AnnounceNewAppTuples(w)
      BY <1>0, <2>1, <3>4 DEF DoBox, WriteOutput, AnnounceNewAppTuples, GoTo,
        WorkerTyping
    <3>q. QED
      BY <2>0, <3>1, <3>2, <3>3, <3>4 DEF Worker
  <2>2. \A u \in Workers \ {w} : wpc'[u] = wpc[u] /\ wout'[u] = wout[u]
    BY <1>0, <2>0, OtherWorkers
  <2>q. QED
    BY <2>1, <2>2 DEF BuffersEmpty
<1>2. CASE UNCHANGED workerVars
  BY <1>2 DEF BuffersEmpty
<1>q. QED
  BY <1>1, <1>2 DEF Next, SchedulerNext, StreamNext, TimePasses, vars

\* A worker that has ended takes no step any more.
LEMMA JoinedStep ==
  ASSUME TypeOK, JoinedEnded, [Next]_vars
  PROVE  JoinedEnded'
<1> USE ThreadAssumption
<1>0. WorkerTyping /\ SchedulerTyping
  BY DEF TypeOK, Typing
<1>j. CASE UNCHANGED <<wpc, spc, toJoin, joining>>
  BY <1>j DEF JoinedEnded
<1>1. CASE \E w \in Workers : WorkerStep(w)
  <2> PICK w \in Workers : WorkerStep(w)
    BY <1>1
  <2>0. Worker(w) /\ UNCHANGED <<spc, toJoin, joining>>
    BY DEF WorkerStep
  <2>1. wpc[w] # "done"
    BY <2>0 DEF Worker, AtTop, CheckQueue, WaitForWork, CheckStop, LoadQueue,
      DoBox, RemoveInput, ForgetInput, WriteOutput, CountOutput,
      AnnounceNewAppTuples, ReleaseBox, SignalScheduler
  <2>2. \A u \in Workers \ {w} : wpc'[u] = wpc[u]
    BY <1>0, <2>0, OtherWorkers
  <2>q. QED
    BY <2>0, <2>1, <2>2 DEF JoinedEnded
<1>2. CASE SchedulerNext
  <2>0. UNCHANGED wpc
    BY <1>2 DEF SchedulerNext
  <2>1. ASSUME NEW w \in Workers, SignalWorker(w)
        PROVE  JoinedEnded'
    BY <2>0, <2>1 DEF SignalWorker, JoinedEnded
  <2>2. CASE JoinWorker(Ended)
    BY <2>0, <2>2 DEF JoinWorker, Ended, JoinedEnded
  <2>3. CASE SchedulerStep /\ ~\E w \in Workers : SignalWorker(w)
    <3>1. UNCHANGED <<toJoin, joining>> /\ spc' \notin {"join", "finished"}
          /\ spc # "join"
      BY <2>3 DEF SchedulerStep, WaitForEvent, SchedulerSleeps, SchedulerWoken,
        SchedulerTimeout, TestForStop, ReadSize, CopyWorkSet, TestBox,
        OrderCandidates, LoadSingleBox, SkipLockedBox, PinInput, PushElement,
        RefillDone
    <3>q. QED
      BY <2>0, <3>1 DEF JoinedEnded
  <2>q. QED
    BY <1>2, <2>1, <2>2, <2>3 DEF SchedulerNext
<1>3. CASE StreamNext
  BY <1>3, <1>j DEF StreamNext
<1>4. CASE TimePasses
  BY <1>4, <1>j DEF TimePasses
<1>5. CASE UNCHANGED vars
  BY <1>5, <1>j DEF vars
<1>q. QED
  BY <1>1, <1>2, <1>3, <1>4, <1>5 DEF Next

-----------------------------------------------------------------------------
(* What was written is announced, or owed by a worker. *)

\* What a worker owes is a number of tuples.
LEMMA OwedType ==
  ASSUME TypeOK, NEW w \in Workers
  PROVE  /\ Owed(w) \in Nat
         /\ wpc[w] \in {"run", "deq", "forget", "enq", "count", "announce"} =>
              Len(wout[w]) * Cardinality(OutArcs(wqe[w].box) \cap AppArcs) \in Nat
<1>1. Len(wout[w]) \in Nat
  BY DEF TypeOK, Typing, WorkerTyping
<1>2. ASSUME wpc[w] \in {"run", "deq", "forget", "enq", "count", "announce"}
      PROVE  Len(wout[w]) * Cardinality(OutArcs(wqe[w].box) \cap AppArcs) \in Nat
  <2> DEFINE m == Cardinality(OutArcs(wqe[w].box) \cap AppArcs)
  <2>1. m \in Nat
    BY <1>2, ElementHeld, AppOutputs
  <2>2. \A i, j \in Nat : i * j \in Nat
    OBVIOUS
  <2> HIDE DEF m
  <2>3. Len(wout[w]) * m \in Nat
    BY <1>1, <2>1, <2>2
  <2>q. QED
    BY <2>3 DEF m
<1>q. QED
  BY <1>2 DEF Owed

\* The steps of a worker that move tuples from the count of the written to
\* what it owes, and from there to the announced; the others leave all three.
LEMMA OwedSteps ==
  ASSUME TypeOK, NEW w \in Workers, Worker(w)
  PROVE  \/ /\ written' = written + Owed(w)' /\ Owed(w) = 0
            /\ UNCHANGED announced /\ Owed(w)' \in Nat
         \/ /\ AnnounceNewAppTuples(w) /\ UNCHANGED written
            /\ Owed(w) = Len(wout[w]) * Cardinality(OutArcs(wqe[w].box) \cap AppArcs)
            /\ Owed(w)' = 0
         \/ UNCHANGED <<written, announced>> /\ Owed(w)' = Owed(w)
<1> DEFINE Owing == {"deq", "forget", "enq", "count", "announce"}
<1>0. /\ wpc \in [Workers -> WorkerLocations]
      /\ warc \in [Workers -> Nat \ {0}]
      /\ wqe \in [Workers -> QueueElements \cup {NoQE}]
      /\ wout \in [Workers -> Seq(Tuples)]
  BY DEF TypeOK, Typing, WorkerTyping
\* Before doBox and after the announcement nothing is owed.
<1>n. ASSUME wpc[w] \notin Owing, wpc'[w] \notin Owing
      PROVE  Owed(w)' = Owed(w)
  BY <1>n DEF Owed
<1>k. ASSUME wpc[w] \in Owing, wpc'[w] \in Owing, UNCHANGED <<wout, wqe>>
      PROVE  Owed(w)' = Owed(w)
  BY <1>k DEF Owed
<1>1. CASE AtTop(w)
  BY <1>0, <1>n, <1>1 DEF AtTop, GoTo, TestStop
<1>2. CASE CheckQueue(w)
  BY <1>0, <1>n, <1>2 DEF CheckQueue, GoTo, TestStop
<1>3. CASE WaitForWork(w)
  BY <1>0, <1>n, <1>3 DEF WaitForWork, GoTo
<1>4. CASE CheckStop(w)
  BY <1>0, <1>n, <1>4 DEF CheckStop, GoTo, TestStop
<1>5. CASE LoadQueue(w)
  BY <1>0, <1>n, <1>5 DEF LoadQueue, Advance, GoTo
<1>6. CASE DoBox(w)
  <2>1. CASE HasInput(wqe[w])
    <3>1. wpc[w] = "run" /\ wpc'[w] = "deq" /\ wout' = wout /\ wqe' = wqe /\ announced' = announced
      BY <1>0, <1>6, <2>1 DEF DoBox, GoTo
    <3>2. Owed(w) = 0 /\ Owed(w)' = Len(wout[w]) * Cardinality(OutArcs(wqe[w].box) \cap AppArcs)
      BY <3>1 DEF Owed
    <3>3. Owed(w)' \in Nat
      BY <3>1, <3>2, OwedType
    <3>q. QED
      BY <1>6, <2>1, <3>1, <3>2, <3>3 DEF DoBox, CountWritten
  <2>2. CASE ~HasInput(wqe[w])
    BY <1>0, <1>6, <1>n, <2>2 DEF DoBox, GoTo
  <2>q. QED
    BY <2>1, <2>2
<1>7. CASE RemoveInput(w) \/ ForgetInput(w)
  <2>1. wpc[w] \in {"deq", "forget"} /\ UNCHANGED <<wout, wqe, announced, written>>
    BY <1>7 DEF RemoveInput, ForgetInput
  <2>2. wpc'[w] \in {"forget", "deq", "enq", "announce"}
    BY <1>0, <1>7 DEF RemoveInput, ForgetInput, GoTo, Advance, AfterInputs
  <2>q. QED
    BY <1>k, <2>1, <2>2
<1>8. CASE WriteOutput(w)
  BY <1>0, <1>k, <1>8 DEF WriteOutput, GoTo
<1>9. CASE CountOutput(w)
  <2>1. wpc[w] = "count" /\ UNCHANGED <<wout, wqe, announced, written>>
    BY <1>9 DEF CountOutput
  <2>2. wpc'[w] \in {"enq", "announce"}
    BY <1>0, <1>9 DEF CountOutput, GoTo, Advance
  <2>q. QED
    BY <1>k, <2>1, <2>2
<1>10. CASE AnnounceNewAppTuples(w)
  BY <1>0, <1>10 DEF AnnounceNewAppTuples, GoTo, Owed
<1>11. CASE ReleaseBox(w)
  BY <1>0, <1>n, <1>11 DEF ReleaseBox, GoTo
<1>12. CASE SignalScheduler(w)
  BY <1>0, <1>n, <1>12 DEF SignalScheduler, GoTo
<1>q. QED
  BY <1>1, <1>2, <1>3, <1>4, <1>5, <1>6, <1>7, <1>8, <1>9, <1>10, <1>11, <1>12 DEF Worker

\* The announcement adds the worker's tuples once for each application arc of
\* its box.
LEMMA AnnouncedSum ==
  ASSUME TypeOK, NEW w \in Workers, AnnounceNewAppTuples(w)
  PROVE  SumFunction(announced)' = SumFunction(announced)
           + Len(wout[w]) * Cardinality(OutArcs(wqe[w].box) \cap AppArcs)
<1> DEFINE n == Len(wout[w])
           T == OutArcs(wqe[w].box) \cap AppArcs
<1>1. announced \in [AppArcs -> Nat] /\ n \in Int
  BY DEF TypeOK, Typing, WorkerTyping
<1>2. IsFiniteSet(AppArcs)
  BY CatalogAssumption, FS_Subset DEF AppArcs
<1>3. /\ announced' = [a \in AppArcs |-> announced[a] + IF a \in OutArcs(wqe[w].box) THEN n ELSE 0]
      /\ DOMAIN announced = AppArcs /\ DOMAIN announced' = AppArcs
  BY <1>1 DEF AnnounceNewAppTuples
<1>4. \A a \in AppArcs : announced'[a] = announced[a] + IF a \in T THEN n ELSE 0
  BY <1>3
<1>5. T \in SUBSET AppArcs /\ \A a \in AppArcs : announced[a] \in Int
  BY <1>1
<1> HIDE DEF n, T
<1>6. SumFunctionOnSet(announced', AppArcs)
        = SumFunctionOnSet(announced, AppArcs) + n * Cardinality(T)
  BY <1>1, <1>2, <1>4, <1>5, SumAddOn
<1>q. QED
  BY <1>3, <1>6 DEF SumFunction, n, T

\* The sums of the ledger are sums of numbers.
LEMMA LedgerSums ==
  ASSUME TypeOK
  PROVE  /\ SumFunction(announced) \in Int
         /\ SumFunction([w \in Workers |-> Owed(w)]) \in Int
<1>1. announced \in [AppArcs -> Nat] /\ IsFiniteSet(AppArcs)
  BY CatalogAssumption, FS_Subset DEF AppArcs, TypeOK, Typing, WorkerTyping
<1>2. SumFunction(announced) \in Int
  <2>1. \A a \in AppArcs : announced[a] \in Int
    BY <1>1
  <2>2. DOMAIN announced = AppArcs
    BY <1>1
  <2>3. SumFunctionOnSet(announced, AppArcs) \in Int
    BY <1>1, <2>1, SumTakeOut
  <2>q. QED
    BY <2>2, <2>3 DEF SumFunction
<1> DEFINE fun == [w \in Workers |-> Owed(w)]
<1>3. \A w \in Workers : fun[w] \in Int
  <2>1. \A w \in Workers : Owed(w) \in Nat
    BY OwedType
  <2>q. QED
    BY <2>1
<1>4. DOMAIN fun = Workers
  OBVIOUS
<1> HIDE DEF fun
<1>w. IsFiniteSet(Workers)
  BY ThreadAssumption
<1>5. SumFunctionOnSet(fun, Workers) \in Int
  BY <1>w, <1>3, SumTakeOut
<1>6. SumFunction(fun) \in Int
  BY <1>4, <1>5 DEF SumFunction
<1>q. QED
  BY <1>2, <1>6 DEF fun

\* What the workers owe together changes by what the one that moves owes.
LEMMA OwedSum ==
  ASSUME TypeOK, NEW w \in Workers, Owed(w)' \in Nat,
         \A u \in Workers \ {w} : Owed(u)' = Owed(u)
  PROVE  SumFunction([u \in Workers |-> Owed(u)])'
           = SumFunction([u \in Workers |-> Owed(u)]) - Owed(w) + Owed(w)'
<1> DEFINE fun == [u \in Workers |-> Owed(u)]
           gun == [u \in Workers |-> Owed(u)']
<1>1. \A u \in Workers : Owed(u) \in Nat /\ Owed(u)' \in Nat
  BY OwedType
<1>2. /\ \A u \in Workers : fun[u] \in Int /\ gun[u] \in Int
      /\ \A u \in Workers \ {w} : fun[u] = gun[u]
      /\ fun[w] = Owed(w) /\ gun[w] = Owed(w)'
      /\ DOMAIN fun = Workers /\ DOMAIN gun = Workers
  BY <1>1
<1> HIDE DEF fun, gun
<1>3. SumFunctionOnSet(gun, Workers) = SumFunctionOnSet(fun, Workers) - fun[w] + gun[w]
  BY <1>2, ThreadAssumption, SumChangeOne
<1>4. SumFunction(fun) = SumFunctionOnSet(fun, Workers) /\ SumFunction(gun) = SumFunctionOnSet(gun, Workers)
  BY <1>2 DEF SumFunction
<1>q. QED
  BY <1>2, <1>3, <1>4 DEF fun, gun

\* Every step keeps the ledger of what was written.
LEMMA WrittenStep ==
  ASSUME TypeOK, WrittenLedger, [Next]_vars
  PROVE  WrittenLedger'
<1> DEFINE sum == SumFunction(announced)
           owed == SumFunction([w \in Workers |-> Owed(w)])
<1>0. sum \in Int /\ owed \in Int /\ written \in Nat /\ written = sum + owed
  BY LedgerSums DEF TypeOK, Typing, StopTyping, WrittenLedger
<1>1. ASSUME NEW w \in Workers, WorkerStep(w) PROVE WrittenLedger'
  <2>0. Worker(w)
    BY <1>1 DEF WorkerStep
  <2>1. \A u \in Workers \ {w} : Owed(u)' = Owed(u)
    BY <2>0, OtherWorkers DEF TypeOK, Typing, Owed
  <2>2. Owed(w) \in Nat /\ Owed(w)' \in Nat
    <3>1. Owed(w) \in Nat
      BY OwedType
    <3>2. Owed(w)' \in Nat \/ Owed(w)' = 0 \/ Owed(w)' = Owed(w)
      BY <2>0, OwedSteps
    <3>q. QED
      BY <3>1, <3>2
  <2>3. owed' = owed - Owed(w) + Owed(w)'
    BY <2>1, <2>2, OwedSum
  <2>4. written' = sum' + owed'
    <3>1. CASE written' = written + Owed(w)' /\ Owed(w) = 0 /\ UNCHANGED announced
      <4>1. sum' = sum
        BY <3>1
      <4> HIDE DEF sum, owed
      <4>q. QED
        BY <1>0, <2>2, <2>3, <3>1, <4>1
    <3>2. CASE /\ AnnounceNewAppTuples(w) /\ UNCHANGED written
               /\ Owed(w) = Len(wout[w]) * Cardinality(OutArcs(wqe[w].box) \cap AppArcs)
               /\ Owed(w)' = 0
      <4>1. sum' = sum + Owed(w)
        BY <3>2, AnnouncedSum
      <4> HIDE DEF sum, owed
      <4>q. QED
        BY <1>0, <2>2, <2>3, <3>2, <4>1
    <3>3. CASE UNCHANGED <<written, announced>> /\ Owed(w)' = Owed(w)
      <4>1. sum' = sum
        BY <3>3
      <4> HIDE DEF sum, owed
      <4>q. QED
        BY <1>0, <2>2, <2>3, <3>3, <4>1
    <3>q. QED
      BY <2>0, <3>1, <3>2, <3>3, OwedSteps
  <2>q. QED
    BY <2>4 DEF WrittenLedger
<1>2. ASSUME UNCHANGED <<workerVars, written>> PROVE WrittenLedger'
  <2>1. \A w \in Workers : Owed(w)' = Owed(w)
    BY <1>2 DEF Owed
  <2>2. [w \in Workers |-> Owed(w)]' = [w \in Workers |-> Owed(w)]
    BY <2>1
  <2>3. sum' = sum /\ owed' = owed /\ written' = written
    BY <1>2, <2>2
  <2>q. QED
    BY <1>0, <2>3 DEF WrittenLedger
<1>3. CASE SchedulerNext
  <2>1. UNCHANGED workerVars
    BY <1>3 DEF SchedulerNext
  <2>2. written' = written
    BY <1>3 DEF SchedulerNext, SchedulerStep, JoinWorker, WaitForEvent, SchedulerSleeps,
      SchedulerWoken, SchedulerTimeout, TestForStop, TestStop, ReadSize, CopyWorkSet, TestBox,
      OrderCandidates, LoadSingleBox, SkipLockedBox, PinInput, PushElement, RefillDone, SignalWorker
  <2>q. QED
    BY <1>2, <2>1, <2>2
<1>4. CASE StreamNext
  <2>1. UNCHANGED workerVars
    BY <1>4 DEF StreamNext
  <2>2. written' = written
    BY <1>4 DEF StreamNext, StreamStep, GenerateTuple, StoreTuple, CountTuple, WakeScheduler,
      StreamEnds, TestStop
  <2>q. QED
    BY <1>2, <2>1, <2>2
<1>5. CASE TimePasses
  BY <1>2, <1>5 DEF TimePasses, Expire
<1>6. CASE UNCHANGED vars
  BY <1>2, <1>6 DEF vars
<1>q. QED
  BY <1>1, <1>3, <1>4, <1>5, <1>6 DEF Next

\* At first nothing was written and nobody owes.
LEMMA WrittenInit ==
  ASSUME Init
  PROVE  WrittenLedger
<1>1. /\ announced = [a \in AppArcs |-> 0] /\ written = 0
      /\ wpc = [w \in Workers |-> "top"]
  BY DEF Init, WorkerInit, StopInit
<1>2. IsFiniteSet(AppArcs)
  BY CatalogAssumption, FS_Subset DEF AppArcs
<1> DEFINE fun == [w \in Workers |-> Owed(w)]
<1>3. (\A w \in Workers : fun[w] = 0) /\ DOMAIN fun = Workers
  BY <1>1 DEF Owed
<1>4. (\A a \in AppArcs : announced[a] = 0) /\ DOMAIN announced = AppArcs
  BY <1>1
<1> HIDE DEF fun
<1>5. SumFunction(fun) = 0
  BY <1>3, ThreadAssumption, SumZero DEF SumFunction
<1>6. SumFunction(announced) = 0
  BY <1>2, <1>4, SumZero DEF SumFunction
<1>q. QED
  BY <1>1, <1>5, <1>6 DEF WrittenLedger, fun

\* When all workers have ended nobody owes anything.
LEMMA NothingOwed ==
  ASSUME \A w \in Workers : wpc[w] = "done", TypeOK, WrittenLedger
  PROVE  written = SumFunction(announced)
<1> DEFINE fun == [w \in Workers |-> Owed(w)]
<1>1. (\A w \in Workers : fun[w] = 0) /\ DOMAIN fun = Workers
  BY DEF Owed
<1> HIDE DEF fun
<1>2. SumFunction(fun) = 0
  BY <1>1, ThreadAssumption, SumZero DEF SumFunction
<1>q. QED
  BY <1>2, LedgerSums DEF WrittenLedger, fun

-----------------------------------------------------------------------------
(* No box is run without input, unless the candidates are drawn at random. *)

\* The candidates stay free and fed while the scheduler is not at them, for
\* nobody else locks a box; looking at one adds it when it is free and fed,
\* ordering keeps them apart, and the one that is locked is gone through.
LEMMA CandidatesStep ==
  ASSUME TypeOK, BoxExclusion, CountsConsistent, ArcSections, PinsAvailable,
         [Next]_vars, StorageTyping', CandidatesFed,
         Policy # "BOX_RANDOM_TYPE"
  PROVE  CandidatesFed'
<1> USE DEF TypeOK, Typing
<1> DEFINE FedNext(b) == \E a \in InArcs(b) : numRecords'[a] > 0
           Ready ==
             /\ spc' \notin {"load", "pin", "push"} => next' = 1
             /\ spc' \in {"find", "load", "pin", "push"} =>
                  /\ NoRepeat(candidates')
                  /\ \A i \in next'..Len(candidates') :
                       candidates'[i] \notin boxLocked' /\ FedNext(candidates'[i])
             /\ spc' = "find" =>
                  \A i \in DOMAIN candidates' : candidates'[i] \notin untested'
<1>e. \A b \in Boxes : Fed(b)' <=> FedNext(b)
  BY DEF Fed
<1>g. SUFFICES Ready
  BY DEF CandidatesFed, Fed, NoRepeat
<1> HIDE DEF FedNext
<1>t. /\ candidates \in Seq(Boxes) /\ next \in Nat \ {0}
      /\ Len(candidates) \in Nat /\ DOMAIN candidates = 1..Len(candidates)
  BY DEF SchedulerTyping
<1>c. \A i \in next..Len(candidates) : candidates[i] \in Boxes
  BY <1>t
\* What is free and fed now still is where no box is locked.
<1>k. ASSUME boxLocked' \subseteq boxLocked,
             NEW b \in Boxes, b \notin boxLocked, Fed(b)
      PROVE  b \notin boxLocked' /\ FedNext(b)
  BY <1>e, <1>k, FreeFed
<1>f. ASSUME spc \in {"find", "load", "pin", "push"}, boxLocked' \subseteq boxLocked,
             NEW i \in next..Len(candidates)
      PROVE  candidates[i] \notin boxLocked' /\ FedNext(candidates[i])
  BY <1>c, <1>f, <1>k DEF CandidatesFed
<1>1. CASE UNCHANGED schedVars
  <2>1. boxLocked' \subseteq boxLocked
    BY <1>1, ElementSteps DEF Takes, Releases, UnlockBox, LoadSingleBox,
      PinInput, PushElement
  <2>2. \A i \in (next..Len(candidates))' : i \in next..Len(candidates)
    BY <1>1
  <2>3. spc \in {"find", "load", "pin", "push"} =>
          \A i \in next..Len(candidates) :
            candidates'[i] \notin boxLocked' /\ FedNext(candidates'[i])
    BY <1>1, <1>f, <2>1
  <2>q. QED
    BY <1>1, <2>2, <2>3 DEF CandidatesFed
<1>2. CASE SchedulerNext
  <2>1. CASE CopyWorkSet
    <3>1. /\ candidates' = <<>> /\ spc' = "find" /\ next' = next /\ next = 1
      BY <2>1 DEF CopyWorkSet, CandidatesFed
    <3>q. QED
      BY <3>1 DEF CandidatesFed, NoRepeat
  <2>2. ASSUME NEW b \in Boxes, TestBox(b)
        PROVE  Ready
    <3>1. /\ spc = "find" /\ spc' = "find" /\ next' = next /\ next = 1
          /\ boxLocked' = boxLocked
          /\ untested' = untested \ {b}
          /\ b \in untested
          /\ \A i \in DOMAIN candidates : candidates[i] # b
      BY <2>2 DEF TestBox, CandidatesFed, Drawn
    <3>2. CASE b \notin boxLocked /\ FullWindow(b)
      <4>1. candidates' = Append(candidates, b)
        BY <2>2, <3>2 DEF TestBox
      <4>2. /\ Len(candidates') = Len(candidates) + 1
            /\ \A i \in 1..Len(candidates) : candidates'[i] = candidates[i]
            /\ candidates'[Len(candidates) + 1] = b
            /\ DOMAIN candidates' = 1..(Len(candidates) + 1)
        BY <1>t, <4>1, AppendProperties
      <4>3. NoRepeat(candidates')
        BY <1>t, <3>1, <4>1, AppendNoRepeat DEF CandidatesFed
      <4>4. \A i \in 1..(Len(candidates) + 1) :
              i \in 1..Len(candidates) \/ i = Len(candidates) + 1
        BY <1>t
      <4>5. FedNext(b) /\ b \notin boxLocked'
        BY <1>k, <3>1, <3>2, WindowFed
      <4>6. ASSUME NEW i \in 1..(Len(candidates) + 1)
            PROVE  /\ candidates'[i] \notin boxLocked'
                   /\ FedNext(candidates'[i])
                   /\ candidates'[i] \notin untested'
        <5>1. CASE i \in 1..Len(candidates)
          <6>1. candidates[i] \notin boxLocked' /\ FedNext(candidates[i])
            BY <1>f, <3>1, <5>1
          <6>2. candidates[i] \notin untested
            BY <1>t, <3>1, <5>1 DEF CandidatesFed
          <6>q. QED
            BY <3>1, <4>2, <5>1, <6>1, <6>2
        <5>2. CASE i = Len(candidates) + 1
          BY <3>1, <4>2, <4>5, <5>2
        <5>q. QED
          BY <4>4, <5>1, <5>2
      <4>q. QED
        BY <3>1, <4>2, <4>3, <4>6 DEF CandidatesFed
    <3>3. CASE ~(b \notin boxLocked /\ FullWindow(b))
      <4>1. candidates' = candidates
        BY <2>2, <3>3 DEF TestBox
      <4>2. \A i \in next..Len(candidates) :
              candidates[i] \notin boxLocked' /\ FedNext(candidates[i])
        BY <1>f, <3>1
      <4>q. QED
        BY <3>1, <4>1, <4>2 DEF CandidatesFed
    <3>q. QED
      BY <3>2, <3>3
  <2>3. CASE OrderCandidates
    <3>1. /\ spc = "find" /\ spc' \in {"event", "load"} /\ next' = next /\ next = 1
          /\ boxLocked' = boxLocked
          /\ candidates' \in Orders
      BY <2>3 DEF OrderCandidates, CandidatesFed
    <3>2. /\ NoRepeat(candidates')
          /\ \A i \in 1..Len(candidates') :
               \E j \in DOMAIN candidates : candidates'[i] = candidates[j]
      BY <1>t, <3>1, OrdersNoRepeat DEF CandidatesFed
    <3>3. ASSUME NEW i \in 1..Len(candidates')
          PROVE  candidates'[i] \notin boxLocked' /\ FedNext(candidates'[i])
      <4>1. PICK j \in 1..Len(candidates) : candidates'[i] = candidates[j]
        BY <1>t, <3>2
      <4>2. candidates[j] \notin boxLocked' /\ FedNext(candidates[j])
        BY <1>f, <3>1
      <4>q. QED
        BY <4>1, <4>2
    <3>q. QED
      BY <3>1, <3>2, <3>3 DEF CandidatesFed
  <2>4. CASE LoadSingleBox
    <3>1. /\ spc = "load" /\ spc' = "pin" /\ next' = next + 1
          /\ boxLocked' = boxLocked \cup {candidates[next]}
          /\ candidates' = candidates
          /\ next <= Len(candidates)
      BY <2>4 DEF LoadSingleBox, LockBoxTry, MoreToLoad
    <3>2. NoRepeat(candidates)
      BY <3>1 DEF CandidatesFed
    <3>3. ASSUME NEW i \in (next + 1)..Len(candidates)
          PROVE  candidates[i] \notin boxLocked' /\ FedNext(candidates[i])
      <4>1. /\ i \in next..Len(candidates) /\ i \in 1..Len(candidates)
            /\ next \in 1..Len(candidates) /\ i # next
        BY <1>t, <3>1
      <4>2. candidates[i] # candidates[next]
        BY <3>2, <4>1 DEF NoRepeat
      <4>3. candidates[i] \notin boxLocked /\ Fed(candidates[i])
        BY <3>1, <4>1 DEF CandidatesFed
      <4>4. FedNext(candidates[i])
        BY <1>c, <1>e, <4>1, <4>3, FreeFed
      <4>q. QED
        BY <3>1, <4>2, <4>3, <4>4
    <3>q. QED
      BY <3>1, <3>2, <3>3 DEF CandidatesFed
  <2>5. CASE SkipLockedBox
    <3>1. next \in next..Len(candidates) /\ spc = "load" /\ candidates[next] \in boxLocked
      BY <1>t, <2>5 DEF SkipLockedBox, MoreToLoad
    <3>q. QED
      BY <3>1 DEF CandidatesFed
  <2>6. CASE PinInput \/ PushElement
    <3>1. /\ UNCHANGED <<candidates, next, boxLocked>>
          /\ spc \in {"pin", "push"} /\ spc' \in {"load", "pin", "push"}
      BY <2>6 DEF PinInput, PushElement
    <3>2. \A i \in next..Len(candidates) :
            candidates[i] \notin boxLocked' /\ FedNext(candidates[i])
      BY <1>f, <3>1
    <3>q. QED
      BY <3>1, <3>2 DEF CandidatesFed
  <2>7. CASE RefillDone
    BY <2>7 DEF RefillDone, CandidatesFed
  <2>8. CASE \/ WaitForEvent \/ SchedulerSleeps \/ SchedulerWoken
             \/ SchedulerTimeout \/ TestForStop \/ ReadSize
             \/ \E w \in Workers : SignalWorker(w)
             \/ JoinWorker(Ended)
    <3>1. /\ next' = next /\ spc \notin {"load", "pin", "push"}
          /\ spc' \notin {"find", "load", "pin", "push"}
      BY <2>8 DEF WaitForEvent, SchedulerSleeps, SchedulerWoken,
        SchedulerTimeout, TestForStop, ReadSize, SignalWorker, JoinWorker
    <3>q. QED
      BY <3>1 DEF CandidatesFed
  <2>q. QED
    BY <1>2, <2>1, <2>2, <2>3, <2>4, <2>5, <2>6, <2>7, <2>8
      DEF SchedulerNext, SchedulerStep
<1>q. QED
  BY <1>1, <1>2 DEF Next, WorkerStep, StreamNext, TimePasses, vars

\* The counts of the inputs that are not pinned yet can only grow, and of one
\* that has tuples at least one is pinned.
LEMMA LoadedStep ==
  ASSUME TypeOK, BoxExclusion, CountsConsistent, ArcSections, PinsAvailable,
         [Next]_vars, StorageTyping', CandidatesFed, LoadedFed
  PROVE  LoadedFed'
<1> USE DEF TypeOK, Typing
<1>1. CASE LoadSingleBox /\ UNCHANGED wqe
  <2> DEFINE b == candidates[next]
             ids == InputQueueIds[b]
  <2>1. /\ spc = "load" /\ spc' = "pin" /\ nextArc' = 1 /\ loaded'.box = b
        /\ b \in Boxes
        /\ UNCHANGED numRecords
    BY <1>1, LoadedElement DEF LoadSingleBox, SchedulerPhases
  <2>2. Fed(b)
    BY <1>1, <2>1 DEF LoadSingleBox, MoreToLoad, CandidatesFed, SchedulerTyping
  <2>3. PICK i \in 1..Len(ids) : numRecords[ids[i]] > 0
    BY <2>2 DEF Fed, InArcs
  <2>4. Len(ids) \in Nat /\ ~(i < 1)
    BY <2>1, ListsNotEmpty
  <2>q. QED
    BY <2>1, <2>3, <2>4 DEF LoadedFed
<1>2. CASE PinInput /\ UNCHANGED wqe
  <2> DEFINE b == loaded.box
             ids == InputQueueIds[b]
             r == ids[nextArc]
  <2>1. /\ r \in Arcs /\ r \in InArcs(b) /\ b \in Boxes
        /\ loaded.pin \in [Arcs -> Int]
        /\ loaded'.box = b
        /\ loaded'.pin = [loaded.pin EXCEPT ![r] = Train(numRecords[r])]
    BY <1>2, PinnedInput DEF QueueElements
  <2>2. /\ spc = "pin" /\ UNCHANGED numRecords
        /\ IF nextArc < Len(ids) THEN nextArc' = nextArc + 1 /\ spc' = "pin"
                                 ELSE nextArc' = 1 /\ spc' = "push"
        /\ nextArc \in Nat \ {0} /\ nextArc <= Len(ids)
    BY <1>2 DEF PinInput, SchedulerTyping, SchedulerPhases
  <2>3. Len(ids) \in Nat
    BY <2>1, ListsNotEmpty
  <2>4. PICK i \in 1..Len(ids) : IF i < nextArc THEN loaded.pin[ids[i]] > 0
                                                ELSE numRecords[ids[i]] > 0
    BY <2>2 DEF LoadedFed
  <2>5. ids[i] \in Arcs /\ ids[i] \in InArcs(b)
    BY <2>1, <2>3, <2>4, InputListArc
  <2>r. r = ids[nextArc]
    OBVIOUS
  <2>d. ids = InputQueueIds[b]
    OBVIOUS
  <2> HIDE DEF r, ids, b
  <2>6. i <= nextArc => loaded'.pin[ids[i]] > 0
    <3>1. CASE ids[i] = r
      <4>1. CASE i = nextArc
        <5>1. numRecords[r] \in Nat /\ numRecords[r] > 0
          BY <2>1, <2>2, <2>4, <2>r, <4>1, CountsWithin
        <5>2. Train(numRecords[r]) > 0
          BY <5>1, TrainTakes
        <5>q. QED
          BY <2>1, <3>1, <5>2
      <4>2. CASE i # nextArc
        <5>1. nextArc \in 1..Len(ids)
          BY <2>2, <2>3
        <5>2. NoRepeat(ids)
          BY <2>1, <2>d, CatalogAssumption
        <5>q. QED
          BY <2>r, <3>1, <4>2, <5>1, <5>2 DEF NoRepeat
      <4>q. QED
        BY <4>1, <4>2
    <3>2. CASE ids[i] # r
      <4>1. i # nextArc
        BY <2>r, <3>2
      <4>2. i <= nextArc => loaded.pin[ids[i]] > 0
        BY <2>2, <2>4, <4>1
      <4>q. QED
        BY <2>1, <2>5, <3>2, <4>2
    <3>q. QED
      BY <3>1, <3>2
  <2>7. CASE nextArc < Len(ids)
    <3>1. nextArc' = nextArc + 1 /\ spc' = "pin"
      BY <2>2, <2>7
    <3>2. IF i < nextArc' THEN loaded'.pin[ids[i]] > 0 ELSE numRecords'[ids[i]] > 0
      BY <2>2, <2>3, <2>4, <2>6, <3>1
    <3>q. QED
      BY <2>1, <2>d, <2>4, <3>1, <3>2 DEF LoadedFed
  <2>8. CASE ~(nextArc < Len(ids))
    <3>1. spc' = "push" /\ i <= nextArc
      BY <2>2, <2>3, <2>4, <2>8
    <3>q. QED
      BY <2>1, <2>5, <2>6, <3>1 DEF LoadedFed, HasInput
  <2>q. QED
    BY <2>7, <2>8
<1>3. CASE PushElement
  BY <1>3 DEF PushElement, LoadedFed
<1>4. CASE UNCHANGED <<spc, loaded, nextArc>>
  <2>1. CASE spc = "pin"
    <3> DEFINE ids == InputQueueIds[loaded.box]
    <3>1. loaded \in QueueElements /\ loaded # NoQE /\ loaded.box \in Boxes
      BY <2>1 DEF SchedulerPhases, SchedulerTyping, QueueElements
    <3>2. \A w \in Busy : wqe[w].box # loaded.box
      BY <3>1 DEF BoxExclusion, LoadedOnce
    <3>3. PICK i \in 1..Len(ids) : IF i < nextArc THEN loaded.pin[ids[i]] > 0
                                                  ELSE numRecords[ids[i]] > 0
      BY <2>1 DEF LoadedFed
    <3>4. ids[i] \in InArcs(loaded.box) /\ ids[i] \in Arcs
      BY <3>1, <3>3, CatalogAssumption DEF InArcs
    <3>5. numRecords'[ids[i]] >= numRecords[ids[i]]
      BY <3>1, <3>2, <3>4, CountStays
    <3>6. numRecords[ids[i]] \in Int /\ numRecords'[ids[i]] \in Int
      BY <3>4 DEF StorageTyping
    <3>7. IF i < nextArc THEN loaded.pin[ids[i]] > 0 ELSE numRecords'[ids[i]] > 0
      BY <3>3, <3>5, <3>6
    <3>q. QED
      BY <1>4, <2>1, <3>7 DEF LoadedFed
  <2>2. CASE spc # "pin"
    BY <1>4, <2>2 DEF LoadedFed
  <2>q. QED
    BY <2>1, <2>2
<1>5. CASE spc' \notin {"pin", "push"}
  BY <1>5 DEF LoadedFed
<1>6. \/ LoadSingleBox /\ UNCHANGED wqe
      \/ PinInput /\ UNCHANGED wqe
      \/ PushElement
      \/ UNCHANGED <<spc, loaded, nextArc>>
      \/ spc' \notin {"pin", "push"}
  BY DEF Next, vars, WorkerStep, StreamNext, TimePasses, SchedulerNext,
    SchedulerStep, WaitForEvent, SchedulerSleeps, SchedulerWoken,
    SchedulerTimeout, TestForStop, ReadSize, CopyWorkSet, TestBox,
    OrderCandidates, SkipLockedBox, RefillDone, SignalWorker, JoinWorker
<1>q. QED
  BY <1>1, <1>2, <1>3, <1>4, <1>5, <1>6

\* What the scheduler builds is what a worker gets, so that the else branch
\* after the call of doBox is never taken.
LEMMA ElementsStep ==
  ASSUME TypeOK, BoxExclusion, CountsConsistent, ArcSections, PinsAvailable,
         [Next]_vars, StorageTyping', ElementsFed, Policy # "BOX_RANDOM_TYPE"
  PROVE  ElementsFed'
<1>1. CandidatesFed' /\ LoadedFed'
  BY CandidatesStep, LoadedStep DEF ElementsFed
<1>2. \A i \in DOMAIN beq : HasInput(beq[i])
  BY DEF ElementsFed
<1>3. \A w \in Busy : HasInput(wqe[w])
  BY DEF ElementsFed
<1>4. /\ \A i \in DOMAIN beq' : HasInput(beq'[i])
      /\ \A w \in Busy' : HasInput(wqe'[w])
  <2>1. CASE UNCHANGED <<beq, wqe, loaded, boxLocked>>
    BY <1>2, <1>3, <2>1 DEF Busy
  <2>2. ASSUME NEW w \in Workers, Takes(w)
        PROVE  /\ \A i \in DOMAIN beq' : HasInput(beq'[i])
               /\ \A v \in Busy' : HasInput(wqe'[v])
    <3>1. \A i \in DOMAIN beq' : HasInput(beq'[i])
      BY <1>2, <2>2, TakesElement
    <3>2. HasInput(wqe'[w])
      BY <1>2, <2>2, TakesElement
    <3>q. QED
      BY <1>3, <2>2, <3>1, <3>2, TakesElement
  <2>3. ASSUME NEW w \in Workers, Releases(w)
        PROVE  /\ \A i \in DOMAIN beq' : HasInput(beq'[i])
               /\ \A v \in Busy' : HasInput(wqe'[v])
    <3>1. /\ beq' = beq
          /\ Busy' \subseteq Busy
          /\ \A v \in Busy' : wqe'[v] = wqe[v]
      BY <2>3 DEF Releases, Busy, TypeOK, Typing, WorkerTyping
    <3>q. QED
      BY <1>2, <1>3, <3>1
  <2>4. CASE (LoadSingleBox \/ PinInput) /\ UNCHANGED wqe
    BY <1>2, <1>3, <2>4 DEF LoadSingleBox, PinInput, Busy
  <2>5. CASE PushElement /\ UNCHANGED wqe
    <3>1. HasInput(loaded)
      BY <2>5 DEF PushElement, ElementsFed, LoadedFed
    <3>2. \A i \in DOMAIN beq' : i \in DOMAIN beq \/ i = Len(beq) + 1
      BY <2>5, PushedElement
    <3>3. \A i \in DOMAIN beq' : HasInput(beq'[i])
      BY <1>2, <2>5, <3>1, <3>2, PushedElement
    <3>4. Busy' = Busy
      BY <2>5, PushedElement
    <3>q. QED
      BY <1>3, <2>5, <3>3, <3>4
  <2>q. QED
    BY <2>1, <2>2, <2>3, <2>4, <2>5, ElementSteps
<1>5. NoEmptyRun'
  <2>0. WorkerTyping /\ NoEmptyRun
    BY DEF TypeOK, Typing, ElementsFed
  <2>1. ASSUME NEW w \in Workers, Worker(w)
        PROVE  NoEmptyRun'
    <3>1. \A u \in Workers \ {w} : wpc'[u] = wpc[u]
      BY <2>0, <2>1, OtherWorkers
    <3>2. CASE DoBox(w)
      <4>1. HasInput(wqe[w])
        BY <1>3, <3>2, ElementHeld DEF DoBox, Busy
      <4>2. wpc'[w] = "deq"
        BY <2>0, <3>2, <4>1 DEF DoBox, GoTo, WorkerTyping
      <4>q. QED
        BY <2>0, <3>1, <4>2 DEF NoEmptyRun
    <3>3. CASE ~DoBox(w)
      <4>1. wpc'[w] # "aborted"
        BY <2>0, <2>1, <3>3 DEF Worker, AtTop, CheckQueue, WaitForWork,
          CheckStop, LoadQueue, RemoveInput, ForgetInput, WriteOutput,
          CountOutput, AnnounceNewAppTuples, ReleaseBox, SignalScheduler,
          Advance, AfterInputs, GoTo, WorkerTyping
      <4>q. QED
        BY <2>0, <3>1, <4>1 DEF NoEmptyRun
    <3>q. QED
      BY <3>2, <3>3
  <2>2. CASE UNCHANGED workerVars
    BY <2>0, <2>2 DEF NoEmptyRun
  <2>q. QED
    BY <2>1, <2>2 DEF Next, WorkerStep, SchedulerNext, StreamNext, TimePasses, vars
<1>q. QED
  BY <1>1, <1>4, <1>5 DEF ElementsFed, HasInput, InArcs

-----------------------------------------------------------------------------
(* The theorems. *)

\* When the threads start, nothing is queued, locked, loaded or counted.
LEMMA InitIInv ==
  ASSUME Init
  PROVE  IInv
<1> USE ThreadAssumption DEF Init, CatalogInit, SMInit, StopInit, BeqInit,
        WorkerInit, SchedulerInit, StreamInit
<1>1. StorageTyping /\ StopTyping /\ QueueTyping /\ StreamTyping
  <2>1. StorageTyping
    BY DEF StorageTyping
  <2>2. StopTyping
    BY DEF StopTyping
  <2>3. QueueTyping
    <3>1. beq = <<>> /\ <<>> \in Seq(QueueElements)
      OBVIOUS
    <3>q. QED
      BY <3>1 DEF QueueTyping
  <2>4. StreamTyping
    BY DEF StreamTyping, StreamLocations
  <2>q. QED
    BY <2>1, <2>2, <2>3, <2>4
<1>2. WorkerTyping
  BY DEF WorkerTyping, WorkerLocations
<1>3. SchedulerTyping
  BY DEF SchedulerTyping, SchedulerLocations
<1>4. WorkerPhases /\ SchedulerPhases /\ StreamPhases
  BY DEF WorkerPhases, WorkerPhase, SchedulerPhases, StreamPhases
<1>5. CountsNatural
  BY DEF CountsNatural
<1>6. Busy = {} /\ loaded = NoQE /\ DOMAIN beq = {} /\ boxLocked = {}
  BY DEF Busy
<1>7. BoxExclusion
  BY <1>6 DEF BoxExclusion, QueuedOnce, BusyOnce, NotBoth, LoadedOnce, LocksHeld
<1>8. CountsConsistent /\ ArcSections
  BY DEF CountsConsistent, ArcSections
<1>9. PinsOwned /\ PinsAvailable
  BY <1>6 DEF PinsOwned, PinsAvailable
<1>10. AppLedger
  <2>1. \A w \in Workers : Stored(w) = {}
    BY DEF Stored
  <2>2. \A a \in AppArcs : a \in Arcs
    BY DEF AppArcs
  <2>q. QED
    BY <2>1, <2>2 DEF AppLedger
<1>11. BuffersEmpty /\ JoinedEnded
  BY DEF BuffersEmpty, JoinedEnded
<1>12. ElementsFed
  BY <1>6 DEF ElementsFed, CandidatesFed, LoadedFed, NoEmptyRun
<1>13. WorkKnown
  BY DEF WorkKnown
<1>14. WrittenLedger
  BY WrittenInit
<1>q. QED
  BY <1>1, <1>2, <1>3, <1>4, <1>5, <1>7, <1>8, <1>9, <1>10, <1>11, <1>12,
    <1>13, <1>14 DEF IInv, TypeOK, Typing

\* The inductive invariant is one: no step of any thread breaks it.
LEMMA IInvStep ==
  ASSUME IInv, [Next]_vars
  PROVE  IInv'
<1> USE DEF IInv
<1>1. Typing'
  BY TypingStep
<1>2. WorkerPhases' /\ SchedulerPhases' /\ StreamPhases'
  BY PhasesStep
<1>3. CountsNatural'
  BY NaturalStep
<1>4. BoxExclusion'
  BY ExclusionStep
<1>5. CountsConsistent' /\ ArcSections'
  BY CountsStep
<1>6. PinsOwned'
  BY PinsOwnedStep
<1>7. PinsAvailable'
  BY <1>1, PinsStep DEF Typing
<1>8. AppLedger'
  BY LedgerStep
<1>9. BuffersEmpty' /\ JoinedEnded'
  BY BuffersStep, JoinedStep
<1>10. Policy # "BOX_RANDOM_TYPE" => ElementsFed'
  BY <1>1, ElementsStep DEF Typing
<1>11. OneInputEach => WorkKnown'
  BY WorkStep
<1>12. WrittenLedger'
  BY WrittenStep
<1>q. QED
  BY <1>1, <1>2, <1>3, <1>4, <1>5, <1>6, <1>7, <1>8, <1>9, <1>10, <1>11, <1>12
    DEF TypeOK, OneInputEach

\* The inductive invariant holds in every state of every behaviour.
THEOREM Inductive == Spec => []IInv
<1>1. Init => IInv
  BY InitIInv
<1>2. IInv /\ [Next]_vars => IInv'
  BY IInvStep
<1>q. QED
  BY <1>1, <1>2, PTL DEF Spec

\* Every variable keeps its type, every thread is where its element, box and
\* arc are in place, and no record count and no pin is ever negative.
THEOREM TypeCorrect == Spec => []TypeOK
<1>1. IInv => TypeOK
  BY DEF IInv
<1>q. QED
  BY <1>1, Inductive, PTL

\* A box is in at most one queue element, wherever that is, and its mutex is
\* held exactly as long: no box is ever run by two workers.
THEOREM ExclusionCorrect == Spec => []BoxExclusion
<1>1. IInv => BoxExclusion
  BY DEF IInv
<1>q. QED
  BY <1>1, Inductive, PTL

\* Outside an arc's critical section, its record count in shared memory is
\* the length of its queue.
THEOREM CountsCorrect == Spec => []CountsConsistent
<1>1. IInv => CountsConsistent
  BY DEF IInv
<1>q. QED
  BY <1>1, Inductive, PTL

\* The tuples a queue element was sized for stay on the arc until the worker
\* removes them: dequeuePin and dequeueUnpin never reach past a queue.
THEOREM PinsCorrect == Spec => []PinsAvailable
<1>1. IInv => PinsAvailable
  BY DEF IInv
<1>q. QED
  BY <1>1, Inductive, PTL

\* No worker gets a box without input, whatever the other threads do between
\* the look at a box and its run, unless the boxes are drawn at random.
THEOREM NoEmptyRunCorrect ==
  ASSUME Policy # "BOX_RANDOM_TYPE"
  PROVE  Spec => []NoEmptyRun
<1>1. IInv => NoEmptyRun
  BY DEF IInv, ElementsFed
<1>q. QED
  BY <1>1, Inductive, PTL

\* Where no box merges arcs, a box with tuples on its arc is in the work set,
\* so that the scheduler will find it.
THEOREM WorkSetCorrect ==
  ASSUME OneInputEach
  PROVE  Spec => []WorkSetComplete
<1>1. IInv => WorkSetComplete
  <2> SUFFICES ASSUME IInv, NEW b \in Boxes, NEW a \in InArcs(b), numRecords[a] > 0
               PROVE  b \in workSet
    BY DEF WorkSetComplete
  <2>1. a \in Arcs \ AppArcs /\ DestId[a] = b
    BY CatalogAssumption DEF AppArcs
  <2>q. QED
    BY <2>1 DEF IInv, WorkKnown
<1>q. QED
  BY <1>1, Inductive, PTL

\* What the application tuple monitor was told is on the application's arc
\* already, whoever was told of it and however the workers interleave.
THEOREM AnnouncedCorrect == Spec => []AnnouncedAvailable
<1>1. IInv => AnnouncedAvailable
  <2> SUFFICES ASSUME IInv, NEW a \in AppArcs
               PROVE  announced[a] <= Len(queue[a])
    BY DEF AnnouncedAvailable
  <2>0. /\ announced[a] \in Nat
        /\ Len(queue[a]) \in Nat
        /\ \A w \in Workers : Len(wout[w]) \in Nat
    BY DEF IInv, TypeOK, Typing, StorageTyping, WorkerTyping, AppArcs
  <2>q. QED
    BY <2>0 DEF IInv, AppLedger
<1>q. QED
  BY <1>1, Inductive, PTL

\* When Scheduler::start returns, every worker has ended with empty buffers
\* and outside every arc, the applications were told of all that is on their
\* arcs, and the tuples counted as written are the tuples announced; an arc
\* that leads from a stream straight to an application, which no box writes,
\* is ruled out.
THEOREM ShutdownCorrect ==
  ASSUME InputArcs \cap AppArcs = {}
  PROVE  Spec => []ShutdownClean
<1>1. IInv => ShutdownClean
  <2> SUFFICES ASSUME IInv, spc = "finished"
               PROVE  /\ \A w \in Workers : wpc[w] = "done" /\ wout[w] = <<>>
                      /\ \A a \in Arcs : arcHolder[a] \notin Workers
                      /\ \A a \in AppArcs : announced[a] = Len(queue[a])
                      /\ written = SumFunction(announced)
    BY DEF ShutdownClean
  <2>1. \A w \in Workers : wpc[w] = "done"
    BY ThreadAssumption DEF IInv, JoinedEnded
  <2>2. \A w \in Workers : wout[w] = <<>>
    BY <2>1 DEF IInv, BuffersEmpty
  <2>3. \A a \in Arcs : arcHolder[a] \notin Workers
    BY <2>1 DEF IInv, ArcSections
  <2>4. ASSUME NEW a \in AppArcs PROVE announced[a] = Len(queue[a])
    <3>1. SrcId[a] # NoBox
      BY DEF InputArcs, AppArcs
    <3>2. \A w \in Workers : Stored(w) = {}
      BY <2>1 DEF Stored
    <3>q. QED
      BY <3>1, <3>2 DEF IInv, AppLedger
  <2>5. written = SumFunction(announced)
    BY <2>1, NothingOwed DEF IInv
  <2>q. QED
    BY <2>1, <2>2, <2>3, <2>4, <2>5
<1>q. QED
  BY <1>1, Inductive, PTL
=============================================================================
