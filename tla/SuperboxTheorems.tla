-------------------------- MODULE SuperboxTheorems --------------------------
(***************************************************************************)
(* The exclusion of superboxes, and what they leave on arcs, for all       *)
(* applications: whatever boxes their trees share, and in whatever order   *)
(* and how often a traversal comes by a box.                               *)
(*                                                                         *)
(* The invariant follows a superbox from place to place: the scheduler     *)
(* builds it, the queue has it, a worker goes along its lists and then     *)
(* unlocks box by box.  Structure says what is in these places; Holds says *)
(* which boxes of it are still its own; FramesHeld, that the callers on    *)
(* the stack of traverse_LoadQueue have theirs, so that what is given back *)
(* is never the box of another one.                                        *)
(*                                                                         *)
(* The actions are first reduced to a few kinds of steps (WorkerKind,      *)
(* SchedulerKind); then each kind is shown to keep each part.              *)
(*                                                                         *)
(* The second part is about tuples: the arcs inside a tree stay empty.     *)
(***************************************************************************)
EXTENDS SuperboxProperties, SequenceTheorems, SumTheorems

LOCAL INSTANCE SequencesExt

\* A sequence, of whatever its elements are.
IsSequence(s) == s \in Seq({s[i] : i \in DOMAIN s})

\* Every sequence over a set is one; its positions are 1 to its length.
LEMMA SeqIsSequence ==
  ASSUME NEW T, NEW s \in Seq(T)
  PROVE  /\ IsSequence(s)
         /\ Len(s) \in Nat /\ DOMAIN s = 1..Len(s)
<1>1. Len(s) \in Nat /\ DOMAIN s = 1..Len(s)
  OBVIOUS
<1> DEFINE U == {s[i] : i \in DOMAIN s}
<1>2. s = [i \in 1..Len(s) |-> s[i]] /\ \A i \in 1..Len(s) : s[i] \in U
  BY <1>1
<1>3. s \in [1..Len(s) -> U]
  <2> HIDE DEF U
  <2> QED BY <1>2
<1>4. s \in Seq(U)
  <2> HIDE DEF U
  <2> QED BY <1>1, <1>3
<1>q. QED
  BY <1>1, <1>4 DEF IsSequence

\* What Append makes of it.
LEMMA AppendIsSequence ==
  ASSUME NEW s, IsSequence(s), NEW e
  PROVE  /\ IsSequence(Append(s, e))
         /\ Len(s) \in Nat /\ DOMAIN s = 1..Len(s)
         /\ DOMAIN Append(s, e) = 1..(Len(s) + 1)
         /\ \A i \in DOMAIN s : Append(s, e)[i] = s[i]
         /\ Append(s, e)[Len(s) + 1] = e
         /\ Append(s, e) # <<>>
<1> DEFINE T == {s[i] : i \in DOMAIN s} \cup {e}
<1>1. {s[i] : i \in DOMAIN s} \subseteq T /\ e \in T
  OBVIOUS
<1>2. s \in Seq({s[i] : i \in DOMAIN s})
  BY DEF IsSequence
<1> HIDE DEF T
<1>3. s \in Seq(T) /\ e \in T
  BY <1>1, <1>2
<1>4. /\ Append(s, e) \in Seq(T)
      /\ Len(Append(s, e)) = Len(s) + 1
      /\ \A i \in 1..Len(s) : Append(s, e)[i] = s[i]
      /\ Append(s, e)[Len(s) + 1] = e
  BY <1>3, AppendProperties
<1>5. IsSequence(Append(s, e))
  BY <1>4, SeqIsSequence
<1>q. QED
  BY <1>3, <1>4, <1>5

\* What Head and Tail make of it.
LEMMA TailIsSequence ==
  ASSUME NEW s, IsSequence(s), s # <<>>
  PROVE  /\ IsSequence(Tail(s))
         /\ Len(s) \in Nat \ {0} /\ DOMAIN s = 1..Len(s)
         /\ Head(s) = s[1]
         /\ DOMAIN Tail(s) = 1..(Len(s) - 1)
         /\ \A i \in DOMAIN Tail(s) : Tail(s)[i] = s[i + 1]
<1> DEFINE T == {s[i] : i \in DOMAIN s}
<1>1. s \in Seq(T)
  BY DEF IsSequence
<1> HIDE DEF T
<1>2. /\ Tail(s) \in Seq(T)
      /\ Len(Tail(s)) = Len(s) - 1
      /\ \A i \in 1..Len(Tail(s)) : Tail(s)[i] = s[i + 1]
  BY <1>1, HeadTailProperties
<1>3. IsSequence(Tail(s))
  BY <1>2, SeqIsSequence
<1>q. QED
  BY <1>1, <1>2, <1>3

\* What Front and Last make of it.
LEMMA FrontIsSequence ==
  ASSUME NEW s, IsSequence(s), s # <<>>
  PROVE  /\ IsSequence(Front(s))
         /\ Len(s) \in Nat \ {0} /\ DOMAIN s = 1..Len(s)
         /\ Last(s) = s[Len(s)]
         /\ DOMAIN Front(s) = 1..(Len(s) - 1)
         /\ \A i \in DOMAIN Front(s) : Front(s)[i] = s[i]
<1> DEFINE T == {s[i] : i \in DOMAIN s}
<1>1. s \in Seq(T)
  BY DEF IsSequence
<1> HIDE DEF T
<1>2. Len(s) \in Nat \ {0} /\ DOMAIN s = 1..Len(s)
  BY <1>1
<1>3. \A i \in 1..(Len(s) - 1) : s[i] \in T
  BY <1>1, <1>2
<1>4. /\ Front(s) \in Seq(T)
      /\ Len(Front(s)) = Len(s) - 1
      /\ \A i \in 1..(Len(s) - 1) : Front(s)[i] = s[i]
  <2>1. Front(s) = SubSeq(s, 1, Len(s) - 1)
    BY DEF Front
  <2>2. Front(s) = [i \in 1..(Len(s) - 1) |-> s[i]]
    BY <2>1, <1>1, <1>2
  <2>q. QED
    BY <2>2, <1>2, <1>3
<1>5. IsSequence(Front(s))
  BY <1>4, SeqIsSequence
<1>q. QED
  BY <1>2, <1>4, <1>5 DEF Last

-----------------------------------------------------------------------------
\* What KeptOf recurses with.
KeptStep(g, s, S, n) ==
  IF n = 0 THEN <<>>
  ELSE IF s[n] \in S THEN Append(g[n - 1], s[n]) ELSE g[n - 1]

\* There is such a function: it is built up from one length to the next.
LEMMA KeptExists ==
  ASSUME NEW s, NEW S, NEW N \in Nat
  PROVE  \E g : g = [n \in 0..N |-> KeptStep(g, s, S, n)]
<1> DEFINE Upto(g, m) == g = [n \in 0..m |-> KeptStep(g, s, S, n)]
           T == {m \in Nat : \E g : Upto(g, m)}
<1>0. ASSUME NEW g, NEW h, NEW n \in Nat, n # 0 => g[n - 1] = h[n - 1]
      PROVE  KeptStep(g, s, S, n) = KeptStep(h, s, S, n)
  BY <1>0 DEF KeptStep
<1>1. 0 \in T
  <2> DEFINE g == [n \in 0..0 |-> <<>>]
  <2>1. \A n \in 0..0 : KeptStep(g, s, S, n) = <<>>
    BY DEF KeptStep
  <2>2. Upto(g, 0)
    BY <2>1
  <2>q. QED
    BY <2>2
<1>2. ASSUME NEW m \in Nat, m \in T PROVE m + 1 \in T
  <2> PICK g : Upto(g, m)
    BY <1>2
  <2> DEFINE h == [n \in 0..(m + 1) |-> KeptStep(g, s, S, n)]
  <2>1. \A n \in 0..m : h[n] = g[n]
    OBVIOUS
  <2> HIDE DEF h
  <2>2. ASSUME NEW n \in 0..(m + 1)
        PROVE  KeptStep(g, s, S, n) = KeptStep(h, s, S, n)
    <3>1. n # 0 => n - 1 \in 0..m
      OBVIOUS
    <3>2. n # 0 => g[n - 1] = h[n - 1]
      BY <3>1, <2>1
    <3>q. QED
      BY <3>2, <1>0
  <2>3. Upto(h, m + 1)
    <3>1. h = [n \in 0..(m + 1) |-> KeptStep(g, s, S, n)]
      BY DEF h
    <3>q. QED
      BY <3>1, <2>2, Zenon
  <2>q. QED
    BY <2>3
<1>3. \A m \in Nat : m \in T
  <2> HIDE DEF T
  <2> QED BY <1>1, <1>2, NatSetInduction
<1>q. QED
  BY <1>3

Entries(s) == {s[i] : i \in DOMAIN s}

\* KeptOf returns a sequence of what is both in the sequence and in the set.
LEMMA KeptOfProperties ==
  ASSUME NEW T, NEW s \in Seq(T), NEW S
  PROVE  KeptOf(s, S) \in Seq(T) /\ Entries(KeptOf(s, S)) = Entries(s) \cap S
<1> DEFINE N == Len(s)
           g == CHOOSE f : f = [n \in 0..N |-> KeptStep(f, s, S, n)]
           Good(m) == /\ g[m] \in Seq(T)
                      /\ {g[m][i] : i \in 1..Len(g[m])} = {s[i] : i \in 1..m} \cap S
           M == {m \in Nat : m <= N => Good(m)}
<1>1. N \in Nat /\ DOMAIN s = 1..N /\ \A n \in 1..N : s[n] \in T
  OBVIOUS
<1>2. g = [n \in 0..N |-> KeptStep(g, s, S, n)]
  BY <1>1, KeptExists
<1>3. KeptOf(s, S) = g[N]
  BY DEF KeptOf, KeptStep
<1> HIDE DEF g, N
<1>4. g[0] = <<>>
  BY <1>1, <1>2 DEF KeptStep
<1>5. \A n \in 1..N : g[n] = IF s[n] \in S THEN Append(g[n - 1], s[n]) ELSE g[n - 1]
  <2> SUFFICES ASSUME NEW n \in 1..N
               PROVE  g[n] = IF s[n] \in S THEN Append(g[n - 1], s[n]) ELSE g[n - 1]
    OBVIOUS
  <2>1. n \in 0..N /\ n # 0
    BY <1>1
  <2>2. g[n] = KeptStep(g, s, S, n)
    BY <2>1, <1>2
  <2>q. QED
    BY <2>1, <2>2 DEF KeptStep
<1>6. 0 \in M
  <2>1. 1..0 = {} /\ Len(<<>>) = 0 /\ <<>> \in Seq(T)
    OBVIOUS
  <2>2. Good(0)
    BY <1>4, <2>1
  <2>q. QED
    BY <2>2
<1>7. ASSUME NEW m \in Nat, m \in M PROVE m + 1 \in M
  <2>1. SUFFICES ASSUME m + 1 <= N PROVE Good(m + 1)
    <3> HIDE DEF Good
    <3> QED OBVIOUS
  <2>r. m + 1 \in 1..N /\ m <= N
    BY <1>1, <2>1
  <2>2. Good(m)
    <3> HIDE DEF Good
    <3> QED BY <1>7, <2>r
  <2>3. g[m + 1] = IF s[m + 1] \in S THEN Append(g[m], s[m + 1]) ELSE g[m]
    BY <2>r, <1>5
  <2>4. {s[i] : i \in 1..(m + 1)} = {s[i] : i \in 1..m} \cup {s[m + 1]}
    <3>1. 1..(m + 1) = (1..m) \cup {m + 1}
      OBVIOUS
    <3>q. QED
      BY <3>1
  <2>5. CASE s[m + 1] \in S
    <3> DEFINE k == g[m]
               e == s[m + 1]
    <3>1. k \in Seq(T) /\ e \in T
      BY <2>r, <2>2, <1>1
    <3>2. g[m + 1] = Append(k, e)
      BY <2>3, <2>5
    <3> HIDE DEF k, e
    <3>3. /\ Append(k, e) \in Seq(T)
          /\ Len(Append(k, e)) = Len(k) + 1
          /\ \A i \in 1..Len(k) : Append(k, e)[i] = k[i]
          /\ Append(k, e)[Len(k) + 1] = e
          /\ Len(k) \in Nat
      BY <3>1, AppendProperties
    <3>4. {Append(k, e)[i] : i \in 1..(Len(k) + 1)} = {k[i] : i \in 1..Len(k)} \cup {e}
      <4>1. 1..(Len(k) + 1) = (1..Len(k)) \cup {Len(k) + 1}
        BY <3>3
      <4>2. Len(k) + 1 \notin 1..Len(k)
        BY <3>3
      <4>q. QED
        BY <4>1, <3>3
    <3>5. {k[i] : i \in 1..Len(k)} = {s[i] : i \in 1..m} \cap S
      BY <2>2 DEF k
    <3>6. {s[i] : i \in 1..(m + 1)} \cap S = ({s[i] : i \in 1..m} \cap S) \cup {e}
      BY <2>4, <2>5 DEF e
    <3>q. QED
      BY <3>2, <3>3, <3>4, <3>5, <3>6
  <2>6. CASE s[m + 1] \notin S
    BY <2>2, <2>3, <2>4, <2>6
  <2>q. QED
    BY <2>5, <2>6
<1>8. \A m \in Nat : m \in M
  <2> HIDE DEF M
  <2> QED BY <1>6, <1>7, NatSetInduction
<1>9. Good(N)
  <2> HIDE DEF Good
  <2> QED BY <1>1, <1>8
<1>10. DOMAIN g[N] = 1..Len(g[N])
  BY <1>9
<1>q. QED
  BY <1>1, <1>3, <1>9, <1>10 DEF Entries

-----------------------------------------------------------------------------
(***************************************************************************)
(* The inductive invariant: what elements are, where the threads are, and  *)
(* that the callers of traverse_LoadQueue hold their boxes.                *)
(***************************************************************************)
IsElement(qe) ==
  /\ {"app", "boxes", "locked", "unfed"} \subseteq DOMAIN qe
  /\ qe.app \in Apps
  /\ qe.locked \subseteq InTree(qe.app)

\* The list of a superbox has the boxes that were locked, however often.
IsSuperbox(qe) ==
  /\ IsElement(qe)
  /\ qe.boxes \in Seq(Boxes)
  /\ qe.boxes # <<>>
  /\ {qe.boxes[i] : i \in DOMAIN qe.boxes} = qe.locked

Elements ==
  /\ IsSequence(beq)
  /\ \A i \in DOMAIN beq : IsSuperbox(beq[i])
  /\ DOMAIN wqe = Workers
  /\ \A w \in Busy : IsSuperbox(wqe[w])
  /\ loaded # NoQE => IsElement(loaded)
  /\ spc = "push" => IsSuperbox(loaded)

WorkerPlace(w) ==
  /\ wpc[w] \in {"top", "queue", "nowork", "signal"} => w \notin Busy
  /\ w \notin Busy => \/ wpc[w] \in {"top", "queue", "nowork", "signal", "done"}
                      \/ wpc[w] = "popped" /\ stop
  /\ wpc[w] \in {"top", "queue", "nowork", "popped", "announce", "unlockapp", "signal"}
       => warc[w] = 1
  /\ wpc[w] = "unlock" => warc[w] \in 1..Len(wqe[w].boxes)

WorkerPlaces ==
  /\ DOMAIN wpc = Workers
  /\ warc \in [Workers -> Nat]
  /\ \A w \in Workers : WorkerPlace(w)

\* The places where the scheduler has an element.
Building == {"visit", "finish", "list", "push"}

SchedulerPlace ==
  /\ spc \in Building => loaded # NoQE
  /\ loaded # NoQE => spc \in Building \cup {"aborted"}
  /\ spc \notin {"visit", "finish"} => stack = <<>>
  /\ spc = "finish" => stack # <<>>
  /\ spc = "visit" => visit.box \in InTree(loaded.app) \cup {NoBox}

\* Callers of traverse_LoadQueue for boxes of application k.
Callers(frames, k) ==
  /\ IsSequence(frames)
  /\ \A n \in DOMAIN frames :
       /\ {"box", "i"} \subseteq DOMAIN frames[n]
       /\ frames[n].box \in InTree(k)
       /\ frames[n].i \in Nat \ {0}

Frames == Callers(stack, loaded.app)

Plans ==
  /\ traversalType \in TraversalTypes
  /\ \A k \in Apps : traversal[k] \in Traversals[traversalType][k]

Structure == Elements /\ WorkerPlaces /\ SchedulerPlace /\ Frames /\ Plans

\* Every caller of traverse_LoadQueue has a box of its own, which it holds.
FramesHeld ==
  \A n \in DOMAIN stack : stack[n].box \notin strayed =>
    /\ stack[n].box \in Locked(loaded)
    /\ \A m \in DOMAIN stack : stack[m].box = stack[n].box => m = n

-----------------------------------------------------------------------------
\* A tree has boxes only, and a node has as many inputs as its box.
LEMMA TreeFacts ==
  ASSUME NEW k \in Apps
  PROVE  /\ InTree(k) \subseteq Boxes
         /\ RootBox(k) \in InTree(k)
         /\ \A b \in InTree(k) :
              /\ 1 <= Len(InputQueueIds[b])
              /\ \A i \in Nat \ {0} : i <= Len(InputQueueIds[b]) =>
                   Trees[k][b].inputs[i] \in InTree(k) \cup {NoBox}
<1>1. InTree(k) \subseteq Boxes /\ RootBox(k) \in InTree(k)
  BY ApplicationsAssumption
<1>2. ASSUME NEW b \in InTree(k)
      PROVE  1 <= Len(InputQueueIds[b])
  <2>1. InputQueueIds[b] \in Seq(Arcs) /\ InArcs(b) # {}
    BY <1>1, CatalogAssumption
  <2>2. 1..Len(InputQueueIds[b]) # {}
    BY <2>1 DEF InArcs
  <2>q. QED
    BY <2>1, <2>2
<1>3. ASSUME NEW b \in InTree(k), NEW i \in Nat \ {0}, i <= Len(InputQueueIds[b])
      PROVE  Trees[k][b].inputs[i] \in InTree(k) \cup {NoBox}
  <2> DEFINE s == Trees[k][b].inputs
             T == InTree(k) \cup {NoBox}
  <2>1. s \in Seq(T) /\ Len(s) = Len(InputQueueIds[b])
    BY ApplicationsAssumption
  <2>2. SUFFICES s[i] \in T
    OBVIOUS
  <2> HIDE DEF s, T
  <2>3. Len(s) \in Nat /\ i \in 1..Len(s)
    BY <2>1, <1>3
  <2>q. QED
    BY <2>1, <2>3
<1>q. QED
  BY <1>1, <1>2, <1>3

\* An element is not NULL.
LEMMA ElementNotNull ==
  ASSUME NEW qe, IsElement(qe)
  PROVE  qe # NoQE
BY NoQEAssumption DEF IsElement

\* The list of a superbox has a first entry; its entries are its boxes.
LEMMA ListFacts ==
  ASSUME NEW qe, IsSuperbox(qe)
  PROVE  /\ Len(qe.boxes) \in Nat /\ 1 <= Len(qe.boxes)
         /\ DOMAIN qe.boxes = 1..Len(qe.boxes)
         /\ qe.locked \subseteq InTree(qe.app)
         /\ qe.app \in Apps
         /\ {qe.boxes[i] : i \in 1..Len(qe.boxes)} = qe.locked
<1> DEFINE s == qe.boxes
<1>1. s \in Seq(Boxes) /\ s # <<>>
  BY DEF IsSuperbox
<1>2. Len(s) \in Nat /\ 1 <= Len(s) /\ DOMAIN s = 1..Len(s)
  <2> HIDE DEF s
  <2> QED BY <1>1
<1>q. QED
  BY <1>2 DEF IsSuperbox, IsElement

-----------------------------------------------------------------------------
(* The kinds of steps. *)

schedView == <<loaded, spc, stack, visit, traversal, traversalType>>
workView  == <<wpc, warc, wqe, strayed>>

\* The places where a worker goes through a list of its element.
ListPlaces == {"load", "run", "deq", "forget", "enq", "count", "both"}

\* A worker goes on, with its element and its boxes.
Moves(w) ==
  /\ UNCHANGED <<beq, wqe, boxLocked, appLocked, strayed>>
  /\ DOMAIN wpc' = Workers /\ warc' \in [Workers -> Nat]
  /\ \A u \in Workers \ {w} : wpc'[u] = wpc[u] /\ warc'[u] = warc[u]
  /\ wpc[w] \notin {"unlock", "unlockapp"}
  /\ wpc'[w] # "unlockapp"
  /\ wpc'[w] = "unlock" => warc'[w] = 1
  /\ WorkerPlace(w)'

\* A worker takes the first element of the queue.
Takes(w) ==
  /\ wpc[w] = "queue"
  /\ beq # <<>>
  /\ beq' = Tail(beq)
  /\ wqe' = [wqe EXCEPT ![w] = Head(beq)]
  /\ wpc' = [wpc EXCEPT ![w] = "popped"]
  /\ UNCHANGED <<warc, boxLocked, appLocked, strayed>>

WorkerKind(w) == Moves(w) \/ Takes(w) \/ ReleaseNextBox(w) \/ ReleaseApp(w)

\* What a worker does with its element takes it along the lists.
LEMMA InnerMoves ==
  ASSUME Elements, WorkerPlaces, NEW w \in Workers,
         UNCHANGED <<beq, wqe, boxLocked, appLocked, strayed>>,
         wpc[w] \in ListPlaces \cup {"announce"},
         NEW loc, GoTo(w, loc),
         NEW n \in Nat, warc' = [warc EXCEPT ![w] = n],
         \/ loc \in ListPlaces
         \/ loc \in {"announce", "unlock"} /\ n = 1
         \/ loc = "aborted"
  PROVE  Moves(w)
<1>1. /\ wpc' = [wpc EXCEPT ![w] = loc]
      /\ DOMAIN wpc = Workers /\ warc \in [Workers -> Nat]
      /\ WorkerPlace(w)
  BY DEF GoTo, WorkerPlaces
<1>2. /\ wpc'[w] = loc /\ warc'[w] = n
      /\ DOMAIN wpc' = Workers /\ warc' \in [Workers -> Nat]
      /\ \A u \in Workers \ {w} : wpc'[u] = wpc[u] /\ warc'[u] = warc[u]
  BY <1>1
<1>3. w \in Busy /\ w \in Busy'
  <2>1. w \in Busy
    BY <1>1 DEF WorkerPlace, ListPlaces
  <2>q. QED
    BY <2>1 DEF Busy
<1>4. Len(wqe[w].boxes) \in Nat /\ 1 <= Len(wqe[w].boxes)
  BY <1>3, ListFacts DEF Elements
<1>5. WorkerPlace(w)'
  <2>1. (loc = "unlock") => n \in 1..Len(wqe'[w].boxes)
    BY <1>4 DEF ListPlaces
  <2>q. QED
    BY <1>2, <1>3, <2>1 DEF WorkerPlace, ListPlaces
<1>q. QED
  BY <1>2, <1>5 DEF Moves, ListPlaces

\* Going through a list, by Step.
LEMMA StepMoves ==
  ASSUME Elements, WorkerPlaces, NEW w \in Workers,
         UNCHANGED <<beq, wqe, boxLocked, appLocked, strayed>>,
         wpc[w] \in ListPlaces,
         NEW len, NEW again \in ListPlaces,
         NEW following \in ListPlaces \cup {"announce"},
         Step(w, len, again, following)
  PROVE  Moves(w)
<1>1. warc[w] \in Nat /\ warc \in [Workers -> Nat]
  BY DEF WorkerPlaces
<1>2. CASE warc[w] < len
  <2>1. GoTo(w, again) /\ warc' = [warc EXCEPT ![w] = warc[w] + 1]
    BY <1>2 DEF Step
  <2>2. warc[w] + 1 \in Nat
    BY <1>1
  <2>q. QED
    BY <2>1, <2>2, InnerMoves
<1>3. CASE ~(warc[w] < len)
  <2>1. GoTo(w, following) /\ warc' = [warc EXCEPT ![w] = 1]
    BY <1>3 DEF Step
  <2>q. QED
    BY <2>1, InnerMoves
<1>q. QED
  BY <1>2, <1>3

\* Staying where it is in a list.
LEMMA StayMoves ==
  ASSUME Elements, WorkerPlaces, NEW w \in Workers,
         UNCHANGED <<beq, wqe, boxLocked, appLocked, strayed>>,
         wpc[w] \in ListPlaces,
         NEW loc \in ListPlaces \cup {"aborted"}, GoTo(w, loc),
         UNCHANGED warc
  PROVE  Moves(w)
<1>1. warc[w] \in Nat /\ warc \in [Workers -> Nat]
  BY DEF WorkerPlaces
<1>2. warc' = [warc EXCEPT ![w] = warc[w]]
  BY <1>1
<1>q. QED
  BY <1>1, <1>2, InnerMoves

\* Where the lists end.
LEMMA ListEnds ==
  ASSUME NEW w \in Workers
  PROVE  /\ AfterRun(w) \in ListPlaces \cup {"announce"}
         /\ AfterDeq(w) \in ListPlaces \cup {"announce"}
         /\ AfterEnq(w) \in ListPlaces \cup {"announce"}
BY DEF AfterRun, AfterDeq, AfterEnq, ListPlaces

\* The steps in which a worker loads, runs and unloads its superbox.
LEMMA SuperboxMoves ==
  ASSUME Elements, WorkerPlaces, NEW w \in Workers,
         \/ LoadDequeuePin(w) \/ LoadEnqueuePin(w) \/ LoadDequeueEnqueuePin(w)
         \/ RunBox(w) \/ UnloadDequeuePin(w) \/ UnloadForget(w)
         \/ UnloadEnqueuePin(w) \/ UnloadCount(w) \/ UnloadDequeueEnqueuePin(w)
         \/ AnnounceSuperbox(w)
  PROVE  Moves(w)
<1>p. /\ "load" \in ListPlaces /\ "run" \in ListPlaces /\ "deq" \in ListPlaces
      /\ "forget" \in ListPlaces /\ "enq" \in ListPlaces
      /\ "count" \in ListPlaces /\ "both" \in ListPlaces
  BY DEF ListPlaces
<1>1. CASE LoadDequeuePin(w)
  BY <1>1, <1>p, StepMoves DEF LoadDequeuePin, LoadNext, workerIdle, beqVars
<1>2. CASE LoadEnqueuePin(w)
  BY <1>2, <1>p, StepMoves DEF LoadEnqueuePin, LoadNext, workerIdle, beqVars
<1>3. CASE LoadDequeueEnqueuePin(w)
  BY <1>3, <1>p, StepMoves DEF LoadDequeueEnqueuePin, LoadNext, workerIdle, beqVars
<1>4. CASE RunBox(w)
  <2>1. /\ wpc[w] = "run"
        /\ UNCHANGED <<beq, wqe, boxLocked, appLocked, strayed>>
    BY <1>4 DEF RunBox, beqVars
  <2>2. \/ GoTo(w, "aborted") /\ UNCHANGED warc
        \/ Step(w, Len(wqe[w].boxes), "run", AfterRun(w))
    BY <1>4 DEF RunBox
  <2>3. CASE GoTo(w, "aborted") /\ UNCHANGED warc
    BY <2>1, <2>3, <1>p, StayMoves
  <2>4. CASE Step(w, Len(wqe[w].boxes), "run", AfterRun(w))
    BY <2>1, <2>4, <1>p, ListEnds, StepMoves
  <2>q. QED
    BY <2>2, <2>3, <2>4
<1>5. CASE UnloadDequeuePin(w)
  <2>1. /\ wpc[w] = "deq"
        /\ UNCHANGED <<beq, wqe, boxLocked, appLocked, strayed>>
    BY <1>5 DEF UnloadDequeuePin, workerIdle, beqVars
  <2>2. \/ GoTo(w, "forget") /\ UNCHANGED warc
        \/ DeqNext(w)
    BY <1>5 DEF UnloadDequeuePin
  <2>3. CASE GoTo(w, "forget") /\ UNCHANGED warc
    BY <2>1, <2>3, <1>p, StayMoves
  <2>4. CASE DeqNext(w)
    BY <2>1, <2>4, <1>p, ListEnds, StepMoves DEF DeqNext
  <2>q. QED
    BY <2>2, <2>3, <2>4
<1>6. CASE UnloadForget(w)
  BY <1>6, <1>p, ListEnds, StepMoves DEF UnloadForget, DeqNext, workerIdle, beqVars
<1>7. CASE UnloadEnqueuePin(w)
  <2>1. /\ wpc[w] = "enq"
        /\ UNCHANGED <<beq, wqe, boxLocked, appLocked, strayed>>
    BY <1>7 DEF UnloadEnqueuePin, workerIdle, beqVars
  <2>2. \/ GoTo(w, "count") /\ UNCHANGED warc
        \/ EnqNext(w)
    BY <1>7 DEF UnloadEnqueuePin
  <2>3. CASE GoTo(w, "count") /\ UNCHANGED warc
    BY <2>1, <2>3, <1>p, StayMoves
  <2>4. CASE EnqNext(w)
    BY <2>1, <2>4, <1>p, ListEnds, StepMoves DEF EnqNext
  <2>q. QED
    BY <2>2, <2>3, <2>4
<1>8. CASE UnloadCount(w)
  BY <1>8, <1>p, ListEnds, StepMoves DEF UnloadCount, EnqNext, workerIdle, beqVars
<1>9. CASE UnloadDequeueEnqueuePin(w)
  BY <1>9, <1>p, StepMoves DEF UnloadDequeueEnqueuePin, workerIdle, beqVars
<1>10. CASE AnnounceSuperbox(w)
  <2>1. /\ wpc[w] = "announce" /\ GoTo(w, "unlock") /\ UNCHANGED warc
        /\ UNCHANGED <<beq, wqe, boxLocked, appLocked, strayed>>
    BY <1>10 DEF AnnounceSuperbox, beqVars
  <2>2. warc[w] = 1 /\ warc \in [Workers -> Nat]
    BY <2>1 DEF WorkerPlaces, WorkerPlace
  <2>3. warc' = [warc EXCEPT ![w] = 1]
    BY <2>1, <2>2
  <2>q. QED
    BY <2>1, <2>3, InnerMoves
<1>q. QED
  BY <1>1, <1>2, <1>3, <1>4, <1>5, <1>6, <1>7, <1>8, <1>9, <1>10

\* The steps a worker shares with those of SCHED_BY_BOX.
LEMMA SharedMoves ==
  ASSUME Elements, WorkerPlaces, NEW w \in Workers, SharedWorkerStep(w)
  PROVE  Moves(w) \/ Takes(w)
<1>1. /\ DOMAIN wpc = Workers /\ warc \in [Workers -> Nat]
      /\ WorkerPlace(w)
      /\ UNCHANGED <<appLocked, strayed>>
  BY DEF WorkerPlaces, SharedWorkerStep
<1>2. ASSUME NEW loc, GoTo(w, loc), UNCHANGED <<beq, wqe, boxLocked, warc>>,
             wpc[w] \notin {"unlock", "unlockapp"},
             loc \notin {"unlock", "unlockapp"}, WorkerPlace(w)'
      PROVE  Moves(w)
  <2>1. /\ wpc'[w] = loc /\ DOMAIN wpc' = Workers
        /\ \A u \in Workers \ {w} : wpc'[u] = wpc[u] /\ warc'[u] = warc[u]
    BY <1>1, <1>2 DEF GoTo
  <2>q. QED
    BY <1>1, <1>2, <2>1 DEF Moves
<1>3. ASSUME NEW loc, GoTo(w, loc)
      PROVE  wpc'[w] = loc
  BY <1>1, <1>3 DEF GoTo
<1>4. CASE AtTop(w)
  <2>1. /\ wpc[w] = "top" /\ UNCHANGED <<beq, wqe, boxLocked, warc>>
        /\ GoTo(w, "done") \/ GoTo(w, "queue")
    BY <1>4 DEF AtTop, beqVars
  <2>2. w \notin Busy' /\ warc'[w] = 1
    BY <2>1, <1>1 DEF WorkerPlace, Busy
  <2>3. WorkerPlace(w)'
    BY <2>1, <2>2, <1>3 DEF WorkerPlace
  <2>q. QED
    BY <2>1, <2>3, <1>2
<1>5. CASE CheckQueue(w)
  <2>1. wpc[w] = "queue" /\ UNCHANGED <<boxLocked, warc>>
    BY <1>5 DEF CheckQueue
  <2>2. CASE StopSeen /\ GoTo(w, "popped") /\ UNCHANGED <<wqe, beqVars>>
    <3>1. stop'
      BY <1>5, <2>2 DEF CheckQueue, TestStop
    <3>2. w \notin Busy' /\ warc'[w] = 1 /\ wpc'[w] = "popped"
      BY <2>1, <2>2, <1>1, <1>3 DEF WorkerPlace, Busy
    <3>3. WorkerPlace(w)'
      BY <3>1, <3>2 DEF WorkerPlace
    <3>q. QED
      BY <2>1, <2>2, <3>3, <1>2 DEF beqVars
  <2>3. CASE Pop /\ wqe' = [wqe EXCEPT ![w] = Head(beq)] /\ GoTo(w, "popped")
    BY <2>1, <2>3, <1>1 DEF Pop, GoTo, Takes
  <2>4. CASE SignalIfEmpty(w) /\ GoTo(w, "nowork") /\ UNCHANGED wqe
    <3>1. w \notin Busy' /\ warc'[w] = 1 /\ wpc'[w] = "nowork"
      BY <2>1, <2>4, <1>1, <1>3 DEF WorkerPlace, Busy
    <3>2. WorkerPlace(w)'
      BY <3>1 DEF WorkerPlace
    <3>q. QED
      BY <2>1, <2>4, <3>2, <1>2 DEF SignalIfEmpty
  <2>q. QED
    BY <1>5, <2>2, <2>3, <2>4 DEF CheckQueue
<1>6. CASE WaitForWork(w)
  <2>1. /\ wpc[w] = "nowork" /\ UNCHANGED <<beq, wqe, boxLocked, warc>>
        /\ GoTo(w, "queue")
    BY <1>6 DEF WaitForWork, Wait
  <2>2. w \notin Busy' /\ warc'[w] = 1
    BY <2>1, <1>1 DEF WorkerPlace, Busy
  <2>3. WorkerPlace(w)'
    BY <2>1, <2>2, <1>3 DEF WorkerPlace
  <2>q. QED
    BY <2>1, <2>3, <1>2
<1>7. CASE CheckStop(w)
  <2>1. /\ wpc[w] = "popped" /\ UNCHANGED <<beq, wqe, boxLocked, warc>>
    BY <1>7 DEF CheckStop
  <2>2. w \in Busy' <=> w \in Busy
    BY <2>1 DEF Busy
  <2>3. CASE StopSeen
    <3>1. GoTo(w, "done")
      BY <1>7, <2>3 DEF CheckStop
    <3>2. WorkerPlace(w)'
      BY <2>1, <3>1, <1>3 DEF WorkerPlace
    <3>q. QED
      BY <2>1, <3>1, <3>2, <1>2
  <2>4. CASE ~StopSeen
    <3>1. GoTo(w, "load")
      BY <1>7, <2>4 DEF CheckStop
    <3>2. ~stop
      BY <2>4 DEF StopSeen
    <3>3. w \in Busy'
      BY <2>1, <2>2, <3>2, <1>1 DEF WorkerPlace
    <3>4. WorkerPlace(w)'
      BY <3>1, <3>3, <1>3 DEF WorkerPlace
    <3>q. QED
      BY <2>1, <3>1, <3>4, <1>2
  <2>q. QED
    BY <2>3, <2>4
<1>8. CASE SignalScheduler(w)
  <2>1. /\ wpc[w] = "signal" /\ UNCHANGED <<beq, wqe, boxLocked, warc>>
        /\ GoTo(w, "top")
    BY <1>8 DEF SignalScheduler
  <2>2. w \notin Busy' /\ warc'[w] = 1
    BY <2>1, <1>1 DEF WorkerPlace, Busy
  <2>3. WorkerPlace(w)'
    BY <2>1, <2>2, <1>3 DEF WorkerPlace
  <2>q. QED
    BY <2>1, <2>3, <1>2
<1>q. QED
  BY <1>4, <1>5, <1>6, <1>7, <1>8 DEF SharedWorkerStep

\* A worker does one of four things with what it holds.
LEMMA WorkerKinds ==
  ASSUME Elements, WorkerPlaces, NEW w \in Workers, SuperboxStep(w)
  PROVE  WorkerKind(w)
BY SharedMoves, SuperboxMoves DEF SuperboxStep, WorkerKind

\* The scheduler does something else than building an element.
Idles ==
  /\ spc \notin Building \cup {"aborted"} /\ spc' \notin Building
  /\ UNCHANGED <<beq, boxLocked, appLocked, loaded, stack, traversal, traversalType>>

\* It starts a superbox for application k.
Starts(k) ==
  /\ spc = "apps" /\ spc' = "visit"
  /\ k \notin appLocked
  /\ appLocked' = appLocked \cup {k}
  /\ loaded' = NewElement(k)
  /\ visit' = [box |-> RootBox(k), arc |-> AppV[k]]
  /\ UNCHANGED <<beq, boxLocked, stack, traversal, traversalType>>

SchedulerKind ==
  \/ Idles \/ (\E k \in Apps : Starts(k))
  \/ VisitArc \/ VisitBox \/ GiveBack \/ PinOutputs \/ CreateBoxList \/ PushSuperbox

\* The scheduler idles, starts a superbox, or builds it, action by action.
LEMMA SchedulerKinds ==
  ASSUME SchedulerNext
  PROVE  SchedulerKind
<1> USE DEF Building, beqVars, stopVars, smVars, planVars, loadVars, joinVars, findVars,
            appVars, idleVars
<1>1. CASE SharedStep
  <2>1. UNCHANGED <<appLocked, stack, visit, traversal, traversalType>>
    BY <1>1 DEF SharedStep
  <2>2. /\ UNCHANGED <<beq, boxLocked, loaded>>
        /\ spc \notin Building \cup {"aborted"} /\ spc' \notin Building
    BY <1>1 DEF SharedStep, WaitForEvent, SchedulerSleeps, SchedulerWoken,
      SchedulerTimeout, TestForStop, SignalWorker, Signal
  <2>q. QED
    BY <2>1, <2>2 DEF SchedulerKind, Idles
<1>2. CASE AppReadSize
  BY <1>2 DEF AppReadSize, SchedulerKind, Idles
<1>3. CASE StartSearch
  BY <1>3 DEF StartSearch, SchedulerKind, Idles
<1>4. CASE SearchByBox
  BY <1>4 DEF SearchByBox, SchedulerKind, Idles
<1>5. ASSUME NEW k \in Apps, TryApp(k)
      PROVE  SchedulerKind
  BY <1>5 DEF TryApp, SchedulerKind, Idles, Starts
<1>6. CASE NoAppFound
  BY <1>6 DEF NoAppFound, SchedulerKind, Idles
<1>7. CASE AppRefillDone
  BY <1>7 DEF AppRefillDone, SchedulerKind, Idles
<1>8. CASE JoinWorker(Ended) /\ UNCHANGED appVars
  BY <1>8 DEF JoinWorker, SchedulerKind, Idles
<1>q. QED
  BY <1>1, <1>2, <1>3, <1>4, <1>5, <1>6, <1>7, <1>8
  DEF SchedulerNext, AppSchedulerStep, SchedulerKind

\* Nothing that matters here changes.
Still == UNCHANGED <<beq, boxLocked, appLocked, schedView, workView>>

\* A step is of the scheduler, of one worker, or of neither of them.
LEMMA NextKinds ==
  ASSUME Elements, WorkerPlaces, [Next]_vars
  PROVE  \/ Still
         \/ UNCHANGED schedView /\ \E w \in Workers : WorkerKind(w)
         \/ UNCHANGED workView /\ SchedulerKind
<1>1. CASE \E w \in Workers : WorkerStep(w)
  <2> PICK w \in Workers : WorkerStep(w)
    BY <1>1
  <2>1. SuperboxStep(w) /\ UNCHANGED schedView
    BY DEF WorkerStep, schedView, schedVars, idleSearch, planVars
  <2>q. QED
    BY <2>1, WorkerKinds
<1>2. CASE SchedulerNext
  <2>1. UNCHANGED workView
    BY <1>2 DEF SchedulerNext, workView, workerVars
  <2>q. QED
    BY <1>2, <2>1, SchedulerKinds
<1>3. CASE StreamNext
  BY <1>3 DEF StreamNext, Still, GenerateTuple, StoreTuple, CountTuple, WakeScheduler,
    schedView, workView, schedVars, workerVars, appVars, planVars, beqVars
<1>4. CASE UNCHANGED vars
  BY <1>4 DEF vars, Still, schedView, workView, schedVars, workerVars, appVars, planVars, beqVars
<1>q. QED
  BY <1>1, <1>2, <1>3, <1>4 DEF Next

\* The stop flag is never taken back.
LEMMA StopRemains ==
  ASSUME [Next]_vars, stop
  PROVE  stop'
<1> USE DEF TestStop, StopSeen, CountWritten, stopVars
<1>1. CASE \E w \in Workers : WorkerStep(w)
  <2> PICK w \in Workers : SuperboxStep(w)
    BY <1>1 DEF WorkerStep
  <2>1. CASE SharedWorkerStep(w)
    BY <2>1 DEF SharedWorkerStep, AtTop, CheckQueue, WaitForWork, CheckStop, SignalScheduler
  <2>2. CASE RunBox(w)
    BY <2>2 DEF RunBox
  <2>3. CASE LoadDequeuePin(w) \/ LoadEnqueuePin(w) \/ LoadDequeueEnqueuePin(w)
    BY <2>3 DEF LoadDequeuePin, LoadEnqueuePin, LoadDequeueEnqueuePin, workerIdle
  <2>4. CASE UnloadDequeuePin(w) \/ UnloadForget(w) \/ UnloadEnqueuePin(w)
             \/ UnloadCount(w) \/ UnloadDequeueEnqueuePin(w)
    BY <2>4 DEF UnloadDequeuePin, UnloadForget, UnloadEnqueuePin, UnloadCount,
      UnloadDequeueEnqueuePin, workerIdle
  <2>5. CASE AnnounceSuperbox(w) \/ ReleaseNextBox(w) \/ ReleaseApp(w)
    BY <2>5 DEF AnnounceSuperbox, ReleaseNextBox, ReleaseApp
  <2>q. QED
    BY <2>1, <2>2, <2>3, <2>4, <2>5 DEF SuperboxStep
<1>2. CASE SchedulerNext
  <2>1. UNCHANGED stop \/ TestForStop
    BY <1>2 DEF SchedulerNext, AppSchedulerStep, SharedStep, WaitForEvent, SchedulerSleeps,
      SchedulerWoken, SchedulerTimeout, SignalWorker, JoinWorker, AppReadSize, StartSearch,
      SearchByBox, TryApp, NoAppFound, AppRefillDone, VisitArc, VisitBox, GiveBack,
      PinOutputs, CreateBoxList, PushSuperbox, idleVars, searchVars
  <2>q. QED
    BY <2>1 DEF TestForStop
<1>3. CASE StreamNext
  BY <1>3 DEF StreamNext, GenerateTuple, StoreTuple, CountTuple, WakeScheduler
<1>4. CASE UNCHANGED vars
  BY <1>4 DEF vars
<1>q. QED
  BY <1>1, <1>2, <1>3, <1>4 DEF Next

-----------------------------------------------------------------------------
(* What traverse_LoadQueue does to its element and its callers. *)

\* The callers after a return to frames.
LEMMA ReturnEffect ==
  ASSUME NEW k \in Apps, loaded.app = k, NEW frames, Callers(frames, k), NEW n,
         Return(frames, n)
  PROVE  /\ Callers(stack', k)
         /\ DOMAIN stack' = DOMAIN frames
         /\ \A m \in DOMAIN frames : stack'[m].box = frames[m].box
         /\ spc' \in {"aborted", "list", "visit", "finish"}
         /\ spc' \notin {"visit", "finish"} => stack' = <<>>
         /\ spc' = "finish" => stack' # <<>>
         /\ spc' = "visit" => visit'.box \in InTree(k) \cup {NoBox}
<1>1. CASE frames = <<>>
  BY <1>1 DEF Return, Callers
<1>2. CASE frames # <<>>
  <2> DEFINE top == Last(frames)
             i == top.i + 1
             arcs == InputQueueIds[top.box]
             f == [top EXCEPT !.i = i, !.total = @ + n]
  <2>1. /\ stack' = Front(frames) \o <<f>>
        /\ IF i <= Len(arcs)
           THEN visit' = [box |-> Trees[k][top.box].inputs[i], arc |-> arcs[i]] /\ spc' = "visit"
           ELSE visit' = NoVisit /\ spc' = "finish"
    BY <1>2 DEF Return
  <2>2. /\ IsSequence(Front(frames))
        /\ Len(frames) \in Nat \ {0} /\ DOMAIN frames = 1..Len(frames)
        /\ top = frames[Len(frames)]
        /\ DOMAIN Front(frames) = 1..(Len(frames) - 1)
        /\ \A m \in DOMAIN Front(frames) : Front(frames)[m] = frames[m]
    BY <1>2, FrontIsSequence DEF Callers
  <2>3. {"box", "i"} \subseteq DOMAIN top /\ top.box \in InTree(k) /\ top.i \in Nat \ {0}
    BY <2>2 DEF Callers
  <2>4. /\ {"box", "i"} \subseteq DOMAIN f
        /\ f.box = top.box
        /\ f.i = i
    <3> HIDE DEF top
    <3> QED BY <2>3
  <2>5. i \in Nat \ {0}
    BY <2>3
  <2>6. i <= Len(arcs) => Trees[k][top.box].inputs[i] \in InTree(k) \cup {NoBox}
    BY <2>3, <2>5, TreeFacts
  <2> DEFINE s == Front(frames)
             L == Len(frames)
  <2>s. /\ IsSequence(s) /\ L \in Nat \ {0}
        /\ DOMAIN frames = 1..L
        /\ DOMAIN s = 1..(L - 1)
        /\ \A m \in DOMAIN s : s[m] = frames[m]
        /\ stack' = s \o <<f>>
        /\ top = frames[L]
    BY <2>1, <2>2
  <2> HIDE DEF f, top, i, s, L
  <2>7. stack' = Append(s, f)
    <3>1. s \in Seq({s[m] : m \in DOMAIN s})
      BY <2>s DEF IsSequence
    <3>q. QED
      BY <2>s, <3>1
  <2>8. /\ IsSequence(stack') /\ stack' # <<>>
        /\ DOMAIN stack' = 1..L
        /\ \A m \in 1..(L - 1) : stack'[m] = frames[m]
        /\ stack'[L] = f
    <3>1. Len(s) \in Nat /\ DOMAIN s = 1..Len(s)
      BY <2>s, AppendIsSequence
    <3>2. Len(s) = L - 1
      BY <3>1, <2>s
    <3>3. /\ IsSequence(Append(s, f))
          /\ DOMAIN Append(s, f) = 1..(Len(s) + 1)
          /\ \A m \in DOMAIN s : Append(s, f)[m] = s[m]
          /\ Append(s, f)[Len(s) + 1] = f
          /\ Append(s, f) # <<>>
      BY <2>s, AppendIsSequence
    <3>4. (L - 1) + 1 = L
      BY <2>s
    <3>q. QED
      BY <3>2, <3>3, <3>4, <2>s, <2>7
  <2>9. \A m \in 1..L : m \in 1..(L - 1) \/ m = L
    BY <2>s
  <2>10. \A m \in DOMAIN frames : stack'[m].box = frames[m].box
    BY <2>4, <2>8, <2>9, <2>s
  <2>11. Callers(stack', k)
    BY <2>3, <2>4, <2>5, <2>8, <2>9, <2>s DEF Callers
  <2>q. QED
    BY <2>1, <2>6, <2>8, <2>10, <2>11, <2>s
<1>q. QED
  BY <1>1, <1>2

\* An element keeps its application and its boxes.
Keeps(before, after) ==
  /\ DOMAIN after = DOMAIN before
  /\ after.app = before.app
  /\ after.locked = before.locked
  /\ after.unfed = before.unfed

\* The scheduler's element and callers, wherever it goes on with them.
GoesOn ==
  /\ IsElement(loaded') /\ loaded'.app = loaded.app
  /\ Callers(stack', loaded.app)
  /\ spc' \in Building \cup {"aborted"}
  /\ spc' = "push" => IsSuperbox(loaded')
  /\ spc' \notin {"visit", "finish"} => stack' = <<>>
  /\ spc' = "finish" => stack' # <<>>
  /\ spc' = "visit" => visit'.box \in InTree(loaded.app) \cup {NoBox}
  /\ UNCHANGED <<beq, appLocked, traversal, traversalType>>

\* While a superbox is built the scheduler has an element, and callers.
LEMMA InHand ==
  ASSUME Structure, spc \in Building
  PROVE  /\ loaded # NoQE /\ IsElement(loaded) /\ loaded.app \in Apps
         /\ {"app", "boxes", "locked", "unfed"} \subseteq DOMAIN loaded
         /\ Callers(stack, loaded.app)
BY DEF Structure, Elements, SchedulerPlace, Frames, IsElement

\* An arc is visited.
LEMMA VisitArcEffect ==
  ASSUME Structure, VisitArc
  PROVE  /\ GoesOn /\ Keeps(loaded, loaded') /\ UNCHANGED boxLocked
         /\ DOMAIN stack' = DOMAIN stack
         /\ \A m \in DOMAIN stack : stack'[m].box = stack[m].box
<1>1. /\ spc = "visit" /\ UNCHANGED <<boxLocked, beq, appLocked, traversal, traversalType>>
      /\ Return(stack, numRecords[visit.arc])
      /\ loaded' = [loaded EXCEPT !.deq = Append(@, [arc |-> visit.arc, n |-> numRecords[visit.arc]])]
  BY DEF VisitArc, searchVars, idleVars, planVars, beqVars
<1>2. /\ IsElement(loaded) /\ loaded.app \in Apps /\ Callers(stack, loaded.app)
      /\ {"app", "boxes", "locked", "unfed"} \subseteq DOMAIN loaded
  BY <1>1, InHand DEF Building
<1>3. Keeps(loaded, loaded') /\ loaded'.boxes = loaded.boxes
  BY <1>1, <1>2 DEF Keeps
<1>4. IsElement(loaded')
  BY <1>2, <1>3 DEF IsElement, Keeps
<1>5. /\ Callers(stack', loaded.app)
      /\ DOMAIN stack' = DOMAIN stack
      /\ \A m \in DOMAIN stack : stack'[m].box = stack[m].box
      /\ spc' \in {"aborted", "list", "visit", "finish"}
      /\ spc' \notin {"visit", "finish"} => stack' = <<>>
      /\ spc' = "finish" => stack' # <<>>
      /\ spc' = "visit" => visit'.box \in InTree(loaded.app) \cup {NoBox}
  BY <1>1, <1>2, ReturnEffect
<1>q. QED
  BY <1>1, <1>3, <1>4, <1>5 DEF GoesOn, Keeps, Building

\* A box is locked and becomes the last caller.
LEMMA VisitBoxEffect ==
  ASSUME Structure, VisitBox
  PROVE  /\ GoesOn
         /\ visit.box \in InTree(loaded.app)
         /\ visit.box \notin boxLocked
         /\ boxLocked' = boxLocked \cup {visit.box}
         /\ loaded'.locked = loaded.locked \cup {visit.box}
         /\ loaded'.unfed = loaded.unfed \ {visit.box}
         /\ DOMAIN stack = 1..Len(stack) /\ Len(stack) \in Nat
         /\ DOMAIN stack' = 1..(Len(stack) + 1)
         /\ \A m \in DOMAIN stack : stack'[m] = stack[m]
         /\ stack'[Len(stack) + 1].box = visit.box
<1> DEFINE b == visit.box
           f == [box |-> b, arc |-> visit.arc, i |-> 1, total |-> 0]
<1>1. /\ spc = "visit" /\ spc' = "visit"
      /\ b # NoBox /\ b \notin boxLocked /\ boxLocked' = boxLocked \cup {b}
      /\ UNCHANGED <<beq, appLocked, traversal, traversalType>>
      /\ loaded' = [loaded EXCEPT !.locked = @ \cup {b}, !.unfed = @ \ {b}]
      /\ stack' = Append(stack, f)
      /\ visit' = [box |-> Trees[loaded.app][b].inputs[1], arc |-> InputQueueIds[b][1]]
  BY DEF VisitBox, LockBoxTry, searchVars, idleVars, planVars, beqVars
<1>2. /\ IsElement(loaded) /\ loaded.app \in Apps /\ Callers(stack, loaded.app)
      /\ {"app", "boxes", "locked", "unfed"} \subseteq DOMAIN loaded
  BY <1>1, InHand DEF Building
<1>3. b \in InTree(loaded.app)
  BY <1>1 DEF Structure, SchedulerPlace
<1>4. visit'.box \in InTree(loaded.app) \cup {NoBox}
  <2>1. 1 <= Len(InputQueueIds[b]) => Trees[loaded.app][b].inputs[1] \in InTree(loaded.app) \cup {NoBox}
    BY <1>2, <1>3, TreeFacts
  <2>2. 1 <= Len(InputQueueIds[b])
    BY <1>2, <1>3, TreeFacts
  <2>q. QED
    BY <1>1, <2>1, <2>2
<1> HIDE DEF b
<1>5. /\ DOMAIN loaded' = DOMAIN loaded /\ loaded'.app = loaded.app
      /\ loaded'.locked = loaded.locked \cup {b}
      /\ loaded'.unfed = loaded.unfed \ {b}
  BY <1>1, <1>2
<1>6. IsElement(loaded')
  BY <1>2, <1>3, <1>5 DEF IsElement
<1>7. {"box", "i"} \subseteq DOMAIN f /\ f.box = b /\ f.i = 1
  OBVIOUS
<1> HIDE DEF f
<1>8. /\ IsSequence(stack') /\ Len(stack) \in Nat /\ DOMAIN stack = 1..Len(stack)
      /\ DOMAIN stack' = 1..(Len(stack) + 1)
      /\ \A m \in DOMAIN stack : stack'[m] = stack[m]
      /\ stack'[Len(stack) + 1] = f
  BY <1>1, <1>2, AppendIsSequence DEF Callers
<1>9. \A m \in DOMAIN stack' : m \in DOMAIN stack \/ m = Len(stack) + 1
  BY <1>8
<1>10. Callers(stack', loaded.app)
  BY <1>2, <1>3, <1>7, <1>8, <1>9 DEF Callers
<1>q. QED
  BY <1>1, <1>3, <1>4, <1>5, <1>6, <1>7, <1>8, <1>10 DEF GoesOn, Building, b

\* The last caller and those before it.
LEMMA LastCaller ==
  ASSUME Structure, spc = "finish"
  PROVE  /\ Callers(Front(stack), loaded.app)
         /\ Len(stack) \in Nat \ {0} /\ DOMAIN stack = 1..Len(stack)
         /\ Last(stack) = stack[Len(stack)]
         /\ DOMAIN Front(stack) = 1..(Len(stack) - 1)
         /\ \A m \in DOMAIN Front(stack) : Front(stack)[m] = stack[m]
<1>1. stack # <<>> /\ Callers(stack, loaded.app)
  BY InHand DEF Structure, SchedulerPlace, Building
<1>2. /\ IsSequence(Front(stack))
      /\ Len(stack) \in Nat \ {0} /\ DOMAIN stack = 1..Len(stack)
      /\ Last(stack) = stack[Len(stack)]
      /\ DOMAIN Front(stack) = 1..(Len(stack) - 1)
      /\ \A m \in DOMAIN Front(stack) : Front(stack)[m] = stack[m]
  BY <1>1, FrontIsSequence DEF Callers
<1>3. DOMAIN Front(stack) \subseteq DOMAIN stack
  BY <1>2
<1>q. QED
  BY <1>1, <1>2, <1>3 DEF Callers

\* A caller returns; what it pins does not matter here.
LEMMA GiveBackEffect ==
  ASSUME Structure, GiveBack
  PROVE  /\ GoesOn
         /\ Len(stack) \in Nat \ {0} /\ DOMAIN stack = 1..Len(stack)
         /\ boxLocked' = boxLocked \ {stack[Len(stack)].box}
         /\ loaded'.locked = loaded.locked
         /\ loaded'.unfed = loaded.unfed \cup {stack[Len(stack)].box}
         /\ DOMAIN stack' = 1..(Len(stack) - 1)
         /\ \A m \in DOMAIN stack' : stack'[m].box = stack[m].box
<1> DEFINE b == Last(stack).box
<1>1. /\ spc = "finish" /\ boxLocked' = boxLocked \ {b}
      /\ UNCHANGED <<beq, appLocked, traversal, traversalType>>
      /\ loaded' = [loaded EXCEPT !.unfed = @ \cup {b}]
      /\ Return(Front(stack), 0)
  BY DEF GiveBack, UnlockBox, searchVars, idleVars, planVars, beqVars
<1>2. /\ IsElement(loaded) /\ loaded.app \in Apps
      /\ {"app", "boxes", "locked", "unfed"} \subseteq DOMAIN loaded
  BY <1>1, InHand DEF Building
<1>3. /\ Callers(Front(stack), loaded.app)
      /\ Len(stack) \in Nat \ {0} /\ DOMAIN stack = 1..Len(stack)
      /\ b = stack[Len(stack)].box
      /\ DOMAIN Front(stack) = 1..(Len(stack) - 1)
      /\ \A m \in DOMAIN Front(stack) : Front(stack)[m] = stack[m]
  BY <1>1, LastCaller
<1> HIDE DEF b
<1>4. /\ DOMAIN loaded' = DOMAIN loaded /\ loaded'.app = loaded.app
      /\ loaded'.locked = loaded.locked
      /\ loaded'.unfed = loaded.unfed \cup {b}
  BY <1>1, <1>2
<1>5. IsElement(loaded')
  BY <1>2, <1>4 DEF IsElement
<1>6. /\ Callers(stack', loaded.app)
      /\ DOMAIN stack' = DOMAIN Front(stack)
      /\ \A m \in DOMAIN Front(stack) : stack'[m].box = Front(stack)[m].box
      /\ spc' \in {"aborted", "list", "visit", "finish"}
      /\ spc' \notin {"visit", "finish"} => stack' = <<>>
      /\ spc' = "finish" => stack' # <<>>
      /\ spc' = "visit" => visit'.box \in InTree(loaded.app) \cup {NoBox}
  BY <1>1, <1>2, <1>3, ReturnEffect
<1>q. QED
  BY <1>1, <1>3, <1>4, <1>5, <1>6 DEF GoesOn, Building

\* A caller that pins its other outputs returns, and gives nothing back.
LEMMA PinOutputsEffect ==
  ASSUME Structure, PinOutputs
  PROVE  /\ GoesOn /\ Keeps(loaded, loaded') /\ UNCHANGED boxLocked
         /\ DOMAIN stack' \subseteq DOMAIN stack
         /\ \A m \in DOMAIN stack' : stack'[m].box = stack[m].box
<1>1. /\ spc = "finish"
      /\ UNCHANGED <<boxLocked, beq, appLocked, traversal, traversalType>>
      /\ Return(Front(stack), Last(stack).total + numRecords[Last(stack).arc])
  BY DEF PinOutputs, searchVars, idleVars, planVars, beqVars
<1>2. /\ IsElement(loaded) /\ loaded.app \in Apps
      /\ {"app", "boxes", "locked", "unfed"} \subseteq DOMAIN loaded
  BY <1>1, InHand DEF Building
<1>3. \E enq, both : loaded' = [loaded EXCEPT !.enq = enq, !.both = both]
  BY DEF PinOutputs
<1>4. Keeps(loaded, loaded') /\ loaded'.boxes = loaded.boxes
  BY <1>2, <1>3 DEF Keeps
<1>5. IsElement(loaded')
  BY <1>2, <1>4 DEF IsElement, Keeps
<1>6. /\ Callers(Front(stack), loaded.app)
      /\ Len(stack) \in Nat \ {0} /\ DOMAIN stack = 1..Len(stack)
      /\ DOMAIN Front(stack) = 1..(Len(stack) - 1)
      /\ \A m \in DOMAIN Front(stack) : Front(stack)[m] = stack[m]
  BY <1>1, LastCaller
<1>7. /\ Callers(stack', loaded.app)
      /\ DOMAIN stack' = DOMAIN Front(stack)
      /\ \A m \in DOMAIN Front(stack) : stack'[m].box = Front(stack)[m].box
      /\ spc' \in {"aborted", "list", "visit", "finish"}
      /\ spc' \notin {"visit", "finish"} => stack' = <<>>
      /\ spc' = "finish" => stack' # <<>>
      /\ spc' = "visit" => visit'.box \in InTree(loaded.app) \cup {NoBox}
  BY <1>1, <1>2, <1>6, ReturnEffect
<1>8. DOMAIN stack' \subseteq DOMAIN stack
  BY <1>6, <1>7
<1>q. QED
  BY <1>1, <1>4, <1>5, <1>6, <1>7, <1>8 DEF GoesOn, Keeps, Building

\* The list of the superbox has the boxes that were locked.
LEMMA CreateBoxListEffect ==
  ASSUME Structure, CreateBoxList
  PROVE  GoesOn /\ Keeps(loaded, loaded') /\ UNCHANGED <<boxLocked, stack>>
<1> DEFINE s == traversal[loaded.app]
           list == KeptOf(s, loaded.locked)
<1>1. /\ spc = "list"
      /\ UNCHANGED <<boxLocked, stack, beq, appLocked, traversal, traversalType>>
      /\ loaded' = [loaded EXCEPT !.boxes = list]
      /\ spc' = IF list = <<>> THEN "aborted" ELSE "push"
  BY DEF CreateBoxList, searchVars, idleVars, planVars, beqVars
<1>2. /\ IsElement(loaded) /\ loaded.app \in Apps /\ loaded.locked \subseteq InTree(loaded.app)
      /\ {"app", "boxes", "locked", "unfed"} \subseteq DOMAIN loaded
      /\ Callers(stack, loaded.app)
  BY <1>1, InHand DEF Building, IsElement
<1>3. s \in Seq(Boxes) /\ {s[i] : i \in DOMAIN s} = InTree(loaded.app)
  BY <1>2, ApplicationsAssumption DEF Structure, Plans
<1>4. /\ list \in Seq(Boxes)
      /\ {list[i] : i \in DOMAIN list} = loaded.locked
  <2>1. /\ KeptOf(s, loaded.locked) \in Seq(Boxes)
        /\ {KeptOf(s, loaded.locked)[i] : i \in DOMAIN KeptOf(s, loaded.locked)}
             = {s[i] : i \in DOMAIN s} \cap loaded.locked
    <3>1. s \in Seq(Boxes)
      BY <1>3
    <3>2. /\ KeptOf(s, loaded.locked) \in Seq(Boxes)
          /\ Entries(KeptOf(s, loaded.locked)) = Entries(s) \cap loaded.locked
      <4> HIDE DEF s
      <4> QED BY <3>1, KeptOfProperties
    <3>q. QED
      BY <3>2 DEF Entries
  <2>2. InTree(loaded.app) \cap loaded.locked = loaded.locked
    BY <1>2
  <2> HIDE DEF s
  <2>q. QED
    BY <2>1, <2>2, <1>3, Zenon
<1>5. Keeps(loaded, loaded') /\ loaded'.boxes = list
  <2> HIDE DEF list
  <2> QED BY <1>1, <1>2 DEF Keeps
<1>6. IsElement(loaded')
  BY <1>2, <1>5 DEF IsElement, Keeps
<1>7. spc' = "push" => IsSuperbox(loaded')
  <2> HIDE DEF list
  <2> QED BY <1>1, <1>4, <1>5, <1>6 DEF IsSuperbox, Keeps
<1>8. stack = <<>>
  BY <1>1 DEF Structure, SchedulerPlace
<1>9. spc' \in {"push", "aborted"}
  BY <1>1
<1>q. QED
  BY <1>1, <1>2, <1>5, <1>6, <1>7, <1>8, <1>9 DEF GoesOn, Keeps, Building

-----------------------------------------------------------------------------
(* Structure is inductive. *)

\* A worker that does nothing stays where it may be.
LEMMA WorkerStays ==
  ASSUME NEW u \in Workers, WorkerPlace(u), stop => stop',
         wpc'[u] = wpc[u], warc'[u] = warc[u], wqe'[u] = wqe[u]
  PROVE  WorkerPlace(u)'
<1>1. u \in Busy' <=> u \in Busy
  BY DEF Busy
<1>q. QED
  BY <1>1 DEF WorkerPlace

\* Structure, kind of step by kind of step.
LEMMA StructureStill ==
  ASSUME Structure, Still, stop => stop'
  PROVE  Structure'
<1>1. UNCHANGED <<beq, loaded, spc, stack, visit, traversal, traversalType, wpc, warc, wqe>>
  BY DEF Still, schedView, workView
<1>2. Busy' = Busy
  BY <1>1 DEF Busy
<1>3. Elements'
  BY <1>1, <1>2 DEF Structure, Elements
<1>4. WorkerPlaces'
  BY <1>1, WorkerStays DEF Structure, WorkerPlaces
<1>5. SchedulerPlace' /\ Frames' /\ Plans'
  BY <1>1 DEF Structure, SchedulerPlace, Frames, Plans
<1>q. QED
  BY <1>3, <1>4, <1>5 DEF Structure

\* A worker goes along the lists of its superbox.
LEMMA StructureMoves ==
  ASSUME Structure, NEW w \in Workers, Moves(w), UNCHANGED schedView, stop => stop'
  PROVE  Structure'
<1>1. /\ UNCHANGED <<beq, loaded, spc, stack, visit, traversal, traversalType, wqe>>
      /\ DOMAIN wpc' = Workers /\ warc' \in [Workers -> Nat]
      /\ \A u \in Workers \ {w} : wpc'[u] = wpc[u] /\ warc'[u] = warc[u]
      /\ WorkerPlace(w)'
  BY DEF Moves, schedView
<1>2. Busy' = Busy
  BY <1>1 DEF Busy
<1>3. Elements'
  BY <1>1, <1>2 DEF Structure, Elements
<1>4. \A u \in Workers \ {w} : WorkerPlace(u)'
  BY <1>1, WorkerStays DEF Structure, WorkerPlaces
<1>5. SchedulerPlace' /\ Frames' /\ Plans'
  BY <1>1 DEF Structure, SchedulerPlace, Frames, Plans
<1>q. QED
  BY <1>1, <1>3, <1>4, <1>5 DEF Structure, WorkerPlaces

\* What a worker takes is a superbox, and the queue moves up.
LEMMA TakesEffect ==
  ASSUME Structure, NEW w \in Workers, Takes(w)
  PROVE  /\ w \notin Busy /\ warc[w] = 1
         /\ Busy' = Busy \cup {w}
         /\ Len(beq) \in Nat \ {0} /\ DOMAIN beq = 1..Len(beq)
         /\ wqe'[w] = beq[1] /\ IsSuperbox(beq[1])
         /\ \A u \in Workers \ {w} : wqe'[u] = wqe[u]
         /\ DOMAIN wqe' = Workers
         /\ IsSequence(beq')
         /\ DOMAIN beq' = 1..(Len(beq) - 1)
         /\ \A i \in DOMAIN beq' : beq'[i] = beq[i + 1]
<1>1. /\ IsSequence(beq) /\ beq # <<>> /\ DOMAIN wqe = Workers
      /\ \A i \in DOMAIN beq : IsSuperbox(beq[i])
      /\ WorkerPlace(w)
      /\ wqe' = [wqe EXCEPT ![w] = Head(beq)]
      /\ wpc[w] = "queue" /\ beq' = Tail(beq)
  BY DEF Structure, Elements, WorkerPlaces, Takes
<1>2. /\ IsSequence(Tail(beq))
      /\ Len(beq) \in Nat \ {0} /\ DOMAIN beq = 1..Len(beq)
      /\ Head(beq) = beq[1]
      /\ DOMAIN Tail(beq) = 1..(Len(beq) - 1)
      /\ \A i \in DOMAIN Tail(beq) : Tail(beq)[i] = beq[i + 1]
  BY <1>1, TailIsSequence
<1>3. IsSuperbox(beq[1])
  BY <1>1, <1>2
<1>4. wqe'[w] = beq[1] /\ \A u \in Workers \ {w} : wqe'[u] = wqe[u]
  BY <1>1, <1>2
<1>5. beq[1] # NoQE
  BY <1>3, ElementNotNull DEF IsSuperbox
<1>6. Busy' = Busy \cup {w}
  BY <1>4, <1>5 DEF Busy
<1>q. QED
  BY <1>1, <1>2, <1>3, <1>4, <1>6 DEF WorkerPlace

\* A worker takes a superbox from the queue.
LEMMA StructureTakes ==
  ASSUME Structure, NEW w \in Workers, Takes(w), UNCHANGED schedView, stop => stop'
  PROVE  Structure'
<1>1. /\ UNCHANGED <<loaded, spc, stack, visit, traversal, traversalType, warc>>
      /\ DOMAIN wpc = Workers /\ warc \in [Workers -> Nat]
      /\ wpc' = [wpc EXCEPT ![w] = "popped"]
  BY DEF Takes, schedView, Structure, WorkerPlaces
<1>2. /\ w \notin Busy /\ warc[w] = 1
      /\ Busy' = Busy \cup {w}
      /\ Len(beq) \in Nat \ {0} /\ DOMAIN beq = 1..Len(beq)
      /\ wqe'[w] = beq[1] /\ IsSuperbox(beq[1])
      /\ \A u \in Workers \ {w} : wqe'[u] = wqe[u]
      /\ DOMAIN wqe' = Workers
      /\ IsSequence(beq')
      /\ DOMAIN beq' = 1..(Len(beq) - 1)
      /\ \A i \in DOMAIN beq' : beq'[i] = beq[i + 1]
  BY TakesEffect
<1>3. Elements'
  <2>1. \A i \in DOMAIN beq' : IsSuperbox(beq'[i])
    <3>1. \A i \in 1..(Len(beq) - 1) : i + 1 \in DOMAIN beq
      BY <1>2
    <3>q. QED
      BY <1>2, <3>1 DEF Structure, Elements
  <2>2. \A u \in Busy' : IsSuperbox(wqe'[u])
    <3>1. \A u \in Busy \ {w} : u \in Workers
      BY DEF Busy
    <3>q. QED
      BY <1>2, <3>1 DEF Structure, Elements
  <2>q. QED
    BY <1>1, <1>2, <2>1, <2>2 DEF Structure, Elements
<1>4. WorkerPlaces'
  <2>1. \A u \in Workers \ {w} : WorkerPlace(u)'
    BY <1>1, <1>2, WorkerStays DEF Structure, WorkerPlaces
  <2>2. WorkerPlace(w)'
    BY <1>1, <1>2 DEF WorkerPlace
  <2>q. QED
    BY <1>1, <2>1, <2>2 DEF WorkerPlaces
<1>5. SchedulerPlace' /\ Frames' /\ Plans'
  BY <1>1 DEF Structure, SchedulerPlace, Frames, Plans
<1>q. QED
  BY <1>3, <1>4, <1>5 DEF Structure

\* The next box of the list is unlocked; after the last the worker holds none.
LEMMA ReleaseNextBoxEffect ==
  ASSUME Structure, NEW w \in Workers, ReleaseNextBox(w)
  PROVE  /\ UNCHANGED <<beq, wqe, appLocked>>
         /\ w \in Busy /\ IsSuperbox(wqe[w])
         /\ wpc[w] = "unlock" /\ warc[w] \in 1..Len(wqe[w].boxes)
         /\ DOMAIN wpc' = Workers /\ warc' \in [Workers -> Nat]
         /\ \A u \in Workers \ {w} : wpc'[u] = wpc[u] /\ warc'[u] = warc[u]
         /\ boxLocked' = boxLocked \ {wqe[w].boxes[warc[w]]}
         /\ IF warc[w] < Len(wqe[w].boxes)
            THEN wpc'[w] = "unlock" /\ warc'[w] = warc[w] + 1
            ELSE wpc'[w] = "unlockapp" /\ warc'[w] = 1
<1>1. /\ DOMAIN wpc = Workers /\ warc \in [Workers -> Nat] /\ WorkerPlace(w)
      /\ wpc[w] = "unlock"
      /\ UNCHANGED <<beq, wqe, appLocked>>
      /\ boxLocked' = boxLocked \ {wqe[w].boxes[warc[w]]}
      /\ Step(w, Len(wqe[w].boxes), "unlock", "unlockapp")
  BY DEF Structure, WorkerPlaces, ReleaseNextBox, UnlockBox, beqVars
<1>2. w \in Busy /\ warc[w] \in 1..Len(wqe[w].boxes)
  BY <1>1 DEF WorkerPlace
<1>3. IsSuperbox(wqe[w])
  BY <1>2 DEF Structure, Elements
<1>4. CASE warc[w] < Len(wqe[w].boxes)
  <2>1. wpc' = [wpc EXCEPT ![w] = "unlock"] /\ warc' = [warc EXCEPT ![w] = warc[w] + 1]
    BY <1>1, <1>4 DEF Step, GoTo
  <2>2. warc[w] + 1 \in Nat
    BY <1>1
  <2>q. QED
    BY <1>1, <1>2, <1>3, <1>4, <2>1, <2>2
<1>5. CASE ~(warc[w] < Len(wqe[w].boxes))
  <2>1. wpc' = [wpc EXCEPT ![w] = "unlockapp"] /\ warc' = [warc EXCEPT ![w] = 1]
    BY <1>1, <1>5 DEF Step, GoTo
  <2>q. QED
    BY <1>1, <1>2, <1>3, <1>5, <2>1
<1>q. QED
  BY <1>4, <1>5

\* It unlocks the next box of the list, ...
LEMMA StructureReleaseNextBox ==
  ASSUME Structure, NEW w \in Workers, ReleaseNextBox(w), UNCHANGED schedView, stop => stop'
  PROVE  Structure'
<1>1. UNCHANGED <<loaded, spc, stack, visit, traversal, traversalType>>
  BY DEF schedView
<1>2. /\ UNCHANGED <<beq, wqe>>
      /\ w \in Busy /\ IsSuperbox(wqe[w])
      /\ warc[w] \in 1..Len(wqe[w].boxes)
      /\ DOMAIN wpc' = Workers /\ warc' \in [Workers -> Nat]
      /\ \A u \in Workers \ {w} : wpc'[u] = wpc[u] /\ warc'[u] = warc[u]
      /\ IF warc[w] < Len(wqe[w].boxes)
         THEN wpc'[w] = "unlock" /\ warc'[w] = warc[w] + 1
         ELSE wpc'[w] = "unlockapp" /\ warc'[w] = 1
  BY ReleaseNextBoxEffect
<1>3. Busy' = Busy
  BY <1>2 DEF Busy
<1>4. Elements'
  BY <1>1, <1>2, <1>3 DEF Structure, Elements
<1>5. Len(wqe[w].boxes) \in Nat
  BY <1>2, ListFacts
<1>6. WorkerPlace(w)'
  BY <1>2, <1>3, <1>5 DEF WorkerPlace
<1>7. \A u \in Workers \ {w} : WorkerPlace(u)'
  BY <1>2, WorkerStays DEF Structure, WorkerPlaces
<1>8. SchedulerPlace' /\ Frames' /\ Plans'
  BY <1>1 DEF Structure, SchedulerPlace, Frames, Plans
<1>q. QED
  BY <1>2, <1>4, <1>6, <1>7, <1>8 DEF Structure, WorkerPlaces

\* The superbox is gone.
LEMMA ReleaseAppEffect ==
  ASSUME Structure, NEW w \in Workers, ReleaseApp(w)
  PROVE  /\ UNCHANGED <<beq, warc, boxLocked, strayed>>
         /\ w \in Busy /\ IsSuperbox(wqe[w]) /\ wpc[w] = "unlockapp" /\ warc[w] = 1
         /\ appLocked' = appLocked \ {wqe[w].app}
         /\ Busy' = Busy \ {w} /\ DOMAIN wqe' = Workers
         /\ \A u \in Workers \ {w} : wqe'[u] = wqe[u] /\ wpc'[u] = wpc[u]
         /\ wpc'[w] = "signal" /\ DOMAIN wpc' = Workers
<1>1. /\ DOMAIN wpc = Workers /\ WorkerPlace(w) /\ DOMAIN wqe = Workers
      /\ wpc[w] = "unlockapp"
      /\ appLocked' = appLocked \ {wqe[w].app}
      /\ UNCHANGED <<beq, warc, boxLocked, strayed>>
      /\ wqe' = [wqe EXCEPT ![w] = NoQE]
      /\ wpc' = [wpc EXCEPT ![w] = "signal"]
  BY DEF Structure, Elements, WorkerPlaces, ReleaseApp, GoTo, beqVars
<1>2. w \in Busy /\ warc[w] = 1
  BY <1>1 DEF WorkerPlace
<1>3. IsSuperbox(wqe[w])
  BY <1>2 DEF Structure, Elements
<1>4. Busy' = Busy \ {w}
  BY <1>1 DEF Busy
<1>q. QED
  BY <1>1, <1>2, <1>3, <1>4

\* ... and after the boxes the application.
LEMMA StructureReleaseApp ==
  ASSUME Structure, NEW w \in Workers, ReleaseApp(w), UNCHANGED schedView, stop => stop'
  PROVE  Structure'
<1>1. UNCHANGED <<loaded, spc, stack, visit, traversal, traversalType>>
  BY DEF schedView
<1>2. /\ UNCHANGED <<beq, warc>> /\ warc[w] = 1
      /\ Busy' = Busy \ {w} /\ DOMAIN wqe' = Workers
      /\ \A u \in Workers \ {w} : wqe'[u] = wqe[u] /\ wpc'[u] = wpc[u]
      /\ wpc'[w] = "signal" /\ DOMAIN wpc' = Workers
  BY ReleaseAppEffect
<1>3. \A u \in Busy : u \in Workers
  BY DEF Busy
<1>4. Elements'
  BY <1>1, <1>2, <1>3 DEF Structure, Elements
<1>5. WorkerPlace(w)'
  BY <1>2 DEF WorkerPlace
<1>6. \A u \in Workers \ {w} : WorkerPlace(u)'
  BY <1>2, WorkerStays DEF Structure, WorkerPlaces
<1>7. SchedulerPlace' /\ Frames' /\ Plans'
  BY <1>1 DEF Structure, SchedulerPlace, Frames, Plans
<1>q. QED
  BY <1>2, <1>4, <1>5, <1>6, <1>7 DEF Structure, WorkerPlaces

\* A step of the scheduler: the workers and what they have stay.
LEMMA WorkersStay ==
  ASSUME Structure, UNCHANGED workView, stop => stop'
  PROVE  /\ UNCHANGED <<wpc, warc, wqe, strayed>>
         /\ Busy' = Busy
         /\ WorkerPlaces'
         /\ DOMAIN wqe' = Workers
         /\ \A u \in Busy' : IsSuperbox(wqe'[u])
<1>1. UNCHANGED <<wpc, warc, wqe, strayed>>
  BY DEF workView
<1>2. Busy' = Busy
  BY <1>1 DEF Busy
<1>3. WorkerPlaces'
  BY <1>1, WorkerStays DEF Structure, WorkerPlaces
<1>q. QED
  BY <1>1, <1>2, <1>3 DEF Structure, Elements

\* The scheduler has no element, before and after.
LEMMA StructureIdles ==
  ASSUME Structure, Idles, UNCHANGED workView, stop => stop'
  PROVE  Structure'
<1>1. /\ spc \notin Building \cup {"aborted"} /\ spc' \notin Building
      /\ UNCHANGED <<beq, loaded, stack, traversal, traversalType>>
  BY DEF Idles
<1>2. loaded = NoQE /\ stack = <<>>
  BY <1>1 DEF Structure, SchedulerPlace, Building
<1>3. Elements'
  BY <1>1, <1>2, WorkersStay DEF Structure, Elements, Building
<1>4. SchedulerPlace'
  BY <1>1, <1>2 DEF SchedulerPlace, Building
<1>5. Frames' /\ Plans'
  BY <1>1 DEF Structure, Frames, Plans
<1>q. QED
  BY <1>3, <1>4, <1>5, WorkersStay DEF Structure

\* A new element has no box yet.
LEMMA StartsEffect ==
  ASSUME Structure, NEW k \in Apps, Starts(k)
  PROVE  /\ loaded = NoQE /\ stack = <<>>
         /\ IsElement(loaded') /\ loaded' # NoQE /\ loaded'.app = k
         /\ Locked(loaded') = {}
<1>1. loaded' = NewElement(k) /\ spc = "apps"
  BY DEF Starts
<1>2. loaded = NoQE /\ stack = <<>>
  BY <1>1 DEF Structure, SchedulerPlace, Building
<1>3. IsElement(loaded') /\ loaded'.app = k /\ Locked(loaded') = {}
  BY <1>1 DEF NewElement, IsElement, Locked
<1>q. QED
  BY <1>2, <1>3, ElementNotNull

\* It starts with the root of a tree.
LEMMA StructureStarts ==
  ASSUME Structure, NEW k \in Apps, Starts(k), UNCHANGED workView, stop => stop'
  PROVE  Structure'
<1>1. /\ spc' = "visit" /\ visit'.box = RootBox(k)
      /\ UNCHANGED <<beq, stack, traversal, traversalType>>
  BY DEF Starts
<1>2. /\ loaded = NoQE /\ stack = <<>>
      /\ IsElement(loaded') /\ loaded' # NoQE /\ loaded'.app = k
  BY StartsEffect
<1>3. Elements'
  BY <1>1, <1>2, WorkersStay DEF Structure, Elements
<1>4. visit'.box \in InTree(loaded'.app)
  BY <1>1, <1>2, TreeFacts
<1>5. SchedulerPlace'
  BY <1>1, <1>2, <1>4 DEF SchedulerPlace, Building
<1>6. Frames'
  BY <1>1, <1>2 DEF Frames, Callers, Structure
<1>7. Plans'
  BY <1>1 DEF Structure, Plans
<1>q. QED
  BY <1>3, <1>5, <1>6, <1>7, WorkersStay DEF Structure

\* It goes on with its element.
LEMMA StructureGoesOn ==
  ASSUME Structure, GoesOn, UNCHANGED workView, stop => stop'
  PROVE  Structure' /\ loaded' # NoQE
<1>1. loaded' # NoQE
  BY ElementNotNull DEF GoesOn
<1>2. Elements'
  BY <1>1, WorkersStay DEF GoesOn, Structure, Elements
<1>3. SchedulerPlace'
  BY <1>1 DEF GoesOn, SchedulerPlace, Building
<1>4. Frames' /\ Plans'
  BY DEF GoesOn, Frames, Structure, Plans
<1>q. QED
  BY <1>1, <1>2, <1>3, <1>4, WorkersStay DEF Structure

\* The superbox is at the end of the queue.
LEMMA PushEffect ==
  ASSUME Structure, PushSuperbox
  PROVE  /\ loaded # NoQE /\ IsSuperbox(loaded) /\ loaded' = NoQE
         /\ stack = <<>> /\ stack' = <<>>
         /\ spc' = "refill"
         /\ UNCHANGED <<boxLocked, appLocked, traversal, traversalType>>
         /\ IsSequence(beq')
         /\ Len(beq) \in Nat /\ DOMAIN beq = 1..Len(beq)
         /\ DOMAIN beq' = 1..(Len(beq) + 1)
         /\ \A i \in DOMAIN beq : beq'[i] = beq[i]
         /\ beq'[Len(beq) + 1] = loaded
<1>1. /\ spc = "push" /\ spc' = "refill" /\ loaded' = NoQE
      /\ beq' = Append(beq, loaded)
      /\ UNCHANGED <<stack, boxLocked, appLocked, traversal, traversalType>>
  BY DEF PushSuperbox, Push, idleVars, planVars
<1>2. /\ IsSuperbox(loaded) /\ IsSequence(beq)
      /\ stack = <<>> /\ loaded # NoQE
  BY <1>1 DEF Structure, Elements, SchedulerPlace, Building
<1>q. QED
  BY <1>1, <1>2, AppendIsSequence

\* It pushes the element.
LEMMA StructurePush ==
  ASSUME Structure, PushSuperbox, UNCHANGED workView, stop => stop'
  PROVE  Structure'
<1>1. /\ IsSuperbox(loaded) /\ loaded' = NoQE /\ stack' = <<>> /\ spc' = "refill"
      /\ UNCHANGED <<traversal, traversalType>>
      /\ IsSequence(beq')
      /\ Len(beq) \in Nat /\ DOMAIN beq = 1..Len(beq)
      /\ DOMAIN beq' = 1..(Len(beq) + 1)
      /\ \A i \in DOMAIN beq : beq'[i] = beq[i]
      /\ beq'[Len(beq) + 1] = loaded
  BY PushEffect
<1>2. \A i \in DOMAIN beq' : IsSuperbox(beq'[i])
  <2>1. \A i \in DOMAIN beq' : i \in DOMAIN beq \/ i = Len(beq) + 1
    BY <1>1
  <2>q. QED
    BY <1>1, <2>1 DEF Structure, Elements
<1>3. Elements'
  BY <1>1, <1>2, WorkersStay DEF Elements
<1>4. SchedulerPlace'
  BY <1>1 DEF SchedulerPlace, Building
<1>5. Frames'
  <2>1. IsSequence(<<>>) /\ DOMAIN <<>> = {}
    BY DEF IsSequence
  <2>q. QED
    BY <1>1, <2>1 DEF Frames, Callers
<1>6. Plans'
  BY <1>1 DEF Structure, Plans
<1>q. QED
  BY <1>3, <1>4, <1>5, <1>6, WorkersStay DEF Structure

\* Together: every step keeps Structure.
LEMMA StructureStep ==
  ASSUME Structure, [Next]_vars
  PROVE  Structure'
<1>1. stop => stop'
  BY StopRemains
<1>2. \/ Still
      \/ UNCHANGED schedView /\ \E w \in Workers : WorkerKind(w)
      \/ UNCHANGED workView /\ SchedulerKind
  BY NextKinds DEF Structure
<1>3. CASE Still
  BY <1>1, <1>3, StructureStill
<1>4. CASE UNCHANGED schedView /\ \E w \in Workers : WorkerKind(w)
  BY <1>1, <1>4, StructureMoves, StructureTakes, StructureReleaseNextBox, StructureReleaseApp
  DEF WorkerKind
<1>5. CASE UNCHANGED workView /\ SchedulerKind
  <2>1. ASSUME VisitArc \/ VisitBox \/ GiveBack \/ PinOutputs \/ CreateBoxList
        PROVE  GoesOn
    BY <2>1, VisitArcEffect, VisitBoxEffect, GiveBackEffect, PinOutputsEffect, CreateBoxListEffect
  <2>q. QED
    BY <1>1, <1>5, <2>1, StructureIdles, StructureStarts, StructureGoesOn, StructurePush
    DEF SchedulerKind
<1>q. QED
  BY <1>2, <1>3, <1>4, <1>5

-----------------------------------------------------------------------------
(* One superbox per application. *)

\* The elements under way are of different applications.
Apart ==
  /\ \A i, j \in DOMAIN beq : beq[i].app = beq[j].app => i = j
  /\ \A v, w \in Busy : wqe[v].app = wqe[w].app => v = w
  /\ \A i \in DOMAIN beq, w \in Busy : beq[i].app # wqe[w].app
  /\ loaded # NoQE => /\ \A i \in DOMAIN beq : beq[i].app # loaded.app
                      /\ \A w \in Busy : wqe[w].app # loaded.app

\* Theirs are the applications whose mutex is held.
UnderWay(k) ==
  \/ \E i \in DOMAIN beq : beq[i].app = k
  \/ \E w \in Busy : wqe[w].app = k
  \/ loaded # NoQE /\ loaded.app = k

\* OneSuperbox in these two parts.
LEMMA OneSuperboxParts ==
  /\ OneSuperbox => Apart /\ \A k : k \in appLocked <=> UnderWay(k)
  /\ Apart' /\ (\A k : k \in appLocked' <=> UnderWay(k)') => OneSuperbox'
<1>1. ASSUME OneSuperbox PROVE Apart /\ \A k : k \in appLocked <=> UnderWay(k)
  BY <1>1 DEF OneSuperbox, Apart, UnderWay
<1>2. ASSUME Apart', \A k : k \in appLocked' <=> UnderWay(k)'
      PROVE  OneSuperbox'
  <2> DEFINE S == {beq'[i].app : i \in DOMAIN beq'} \cup {wqe'[w].app : w \in Busy'}
                  \cup (IF loaded' # NoQE THEN {loaded'.app} ELSE {})
  <2>1. \A k : k \in S <=> UnderWay(k)'
    BY DEF UnderWay
  <2>2. appLocked' = S
    <3> HIDE DEF S
    <3> QED BY <2>1, <1>2
  <2>q. QED
    BY <2>2, <1>2 DEF OneSuperbox, Apart
<1>q. QED
  BY <1>1, <1>2

\* Elements that stay where they are stay of different applications, ...
LEMMA OneSuperboxKept ==
  ASSUME OneSuperbox, UNCHANGED <<beq, wqe, appLocked>>,
         loaded' # NoQE <=> loaded # NoQE,
         loaded # NoQE => loaded'.app = loaded.app
  PROVE  OneSuperbox'
<1>1. Busy' = Busy
  BY DEF Busy
<1>2. Apart'
  BY <1>1, OneSuperboxParts DEF Apart
<1>3. \A k : UnderWay(k)' <=> UnderWay(k)
  BY <1>1 DEF UnderWay
<1>q. QED
  BY <1>2, <1>3, OneSuperboxParts

\* ... those that a worker takes do, ...
LEMMA OneSuperboxTakes ==
  ASSUME Structure, OneSuperbox, NEW w \in Workers, Takes(w), UNCHANGED schedView
  PROVE  OneSuperbox'
<1>1. /\ w \notin Busy
      /\ Busy' = Busy \cup {w}
      /\ Len(beq) \in Nat \ {0} /\ DOMAIN beq = 1..Len(beq)
      /\ wqe'[w] = beq[1]
      /\ \A u \in Workers \ {w} : wqe'[u] = wqe[u]
      /\ DOMAIN beq' = 1..(Len(beq) - 1)
      /\ \A i \in DOMAIN beq' : beq'[i] = beq[i + 1]
  BY TakesEffect
<1>2. UNCHANGED <<loaded, appLocked>>
  BY DEF schedView, Takes
<1>3. \A u \in Busy : u \in Workers \ {w}
  BY <1>1 DEF Busy
<1>4. /\ \A i \in DOMAIN beq' : i + 1 \in DOMAIN beq /\ i + 1 # 1 /\ beq'[i] = beq[i + 1]
      /\ \A i \in DOMAIN beq : i = 1 \/ (i - 1 \in DOMAIN beq' /\ beq'[i - 1] = beq[i])
      /\ 1 \in DOMAIN beq
      /\ \A i, j \in DOMAIN beq' : i + 1 = j + 1 => i = j
  <2>1. \A i \in 2..Len(beq) : i - 1 \in 1..(Len(beq) - 1) /\ (i - 1) + 1 = i
    BY <1>1
  <2>2. \A i \in 1..Len(beq) : i = 1 \/ i \in 2..Len(beq)
    BY <1>1
  <2>3. \A i \in 1..(Len(beq) - 1) : i + 1 \in 1..Len(beq) /\ i + 1 # 1
    BY <1>1
  <2>q. QED
    BY <1>1, <2>1, <2>2, <2>3
<1>5. Apart
  BY OneSuperboxParts
<1>6. Apart'
  <2>1. \A i, j \in DOMAIN beq' : beq'[i].app = beq'[j].app => i = j
    BY <1>4, <1>5 DEF Apart
  <2>2. \A v, u \in Busy' : wqe'[v].app = wqe'[u].app => v = u
    <3>1. \A u \in Busy : wqe'[u] = wqe[u] /\ beq[1].app # wqe'[u].app
      BY <1>1, <1>3, <1>4, <1>5 DEF Apart
    <3>2. \A v, u \in Busy : wqe'[v].app = wqe'[u].app => v = u
      BY <3>1, <1>5 DEF Apart
    <3>q. QED
      BY <1>1, <3>1, <3>2
  <2>3. \A i \in DOMAIN beq', u \in Busy' : beq'[i].app # wqe'[u].app
    BY <1>1, <1>3, <1>4, <1>5 DEF Apart
  <2>4. loaded' # NoQE => /\ \A i \in DOMAIN beq' : beq'[i].app # loaded'.app
                          /\ \A u \in Busy' : wqe'[u].app # loaded'.app
    BY <1>1, <1>2, <1>3, <1>4, <1>5 DEF Apart
  <2>q. QED
    BY <2>1, <2>2, <2>3, <2>4 DEF Apart
<1>7. \A k : UnderWay(k)' <=> UnderWay(k)
  <2> SUFFICES ASSUME NEW k PROVE UnderWay(k)' <=> UnderWay(k)
    OBVIOUS
  <2>1. (\E u \in Busy' : wqe'[u].app = k) <=> (\E u \in Busy : wqe[u].app = k) \/ beq[1].app = k
    BY <1>1, <1>3
  <2>2. (\E i \in DOMAIN beq : beq[i].app = k) <=>
          (\E i \in DOMAIN beq' : beq'[i].app = k) \/ beq[1].app = k
    BY <1>4
  <2>q. QED
    BY <2>1, <2>2, <1>2 DEF UnderWay
<1>q. QED
  BY <1>2, <1>6, <1>7, OneSuperboxParts

\* ... a new one is of an application that had none, ...
LEMMA OneSuperboxStarts ==
  ASSUME Structure, OneSuperbox, NEW k \in Apps, Starts(k), UNCHANGED workView
  PROVE  OneSuperbox'
<1>1. /\ loaded = NoQE /\ loaded' # NoQE /\ loaded'.app = k
  BY StartsEffect
<1>2. k \notin appLocked /\ appLocked' = appLocked \cup {k} /\ UNCHANGED <<beq, wqe>>
  BY DEF Starts, workView
<1>3. Busy' = Busy
  BY <1>2 DEF Busy
<1>4. ~UnderWay(k) /\ Apart
  BY <1>2, OneSuperboxParts
<1>5. Apart'
  BY <1>1, <1>2, <1>3, <1>4 DEF Apart, UnderWay
<1>6. \A j : UnderWay(j)' <=> UnderWay(j) \/ j = k
  BY <1>1, <1>2, <1>3 DEF UnderWay
<1>q. QED
  BY <1>2, <1>5, <1>6, OneSuperboxParts

\* ... a finished one goes to the queue, ...
LEMMA OneSuperboxPush ==
  ASSUME Structure, OneSuperbox, PushSuperbox, UNCHANGED workView
  PROVE  OneSuperbox'
<1>1. /\ loaded # NoQE /\ loaded' = NoQE
      /\ UNCHANGED appLocked
      /\ Len(beq) \in Nat /\ DOMAIN beq = 1..Len(beq)
      /\ DOMAIN beq' = 1..(Len(beq) + 1)
      /\ \A i \in DOMAIN beq : beq'[i] = beq[i]
      /\ beq'[Len(beq) + 1] = loaded
  BY PushEffect
<1>2. UNCHANGED wqe /\ Busy' = Busy
  BY DEF workView, Busy
<1>3. /\ DOMAIN beq' = DOMAIN beq \cup {Len(beq) + 1}
      /\ Len(beq) + 1 \notin DOMAIN beq
  BY <1>1
<1>4. Apart
  BY OneSuperboxParts
<1>5. Apart'
  BY <1>1, <1>2, <1>3, <1>4 DEF Apart
<1>6. \A k : UnderWay(k)' <=> UnderWay(k)
  BY <1>1, <1>2, <1>3 DEF UnderWay
<1>q. QED
  BY <1>1, <1>5, <1>6, OneSuperboxParts

\* ... and one that is through leaves its application free.
LEMMA OneSuperboxReleaseApp ==
  ASSUME Structure, OneSuperbox, NEW w \in Workers, ReleaseApp(w), UNCHANGED schedView
  PROVE  OneSuperbox'
<1>1. /\ w \in Busy /\ UNCHANGED beq
      /\ appLocked' = appLocked \ {wqe[w].app}
      /\ Busy' = Busy \ {w}
      /\ \A u \in Workers \ {w} : wqe'[u] = wqe[u]
  BY ReleaseAppEffect
<1>2. UNCHANGED loaded
  BY DEF schedView
<1>3. \A u \in Busy' : u \in Busy /\ wqe'[u] = wqe[u]
  BY <1>1 DEF Busy
<1>4. Apart
  BY OneSuperboxParts
<1>5. Apart'
  BY <1>1, <1>2, <1>3, <1>4 DEF Apart
<1>6. \A k : UnderWay(k)' <=> UnderWay(k) /\ k # wqe[w].app
  <2> SUFFICES ASSUME NEW k PROVE UnderWay(k)' <=> UnderWay(k) /\ k # wqe[w].app
    OBVIOUS
  <2>1. CASE k = wqe[w].app
    BY <2>1, <1>1, <1>2, <1>3, <1>4 DEF UnderWay, Apart
  <2>2. CASE k # wqe[w].app
    BY <2>2, <1>1, <1>2, <1>3 DEF UnderWay
  <2>q. QED
    BY <2>1, <2>2
<1>q. QED
  BY <1>1, <1>5, <1>6, OneSuperboxParts

-----------------------------------------------------------------------------
(* Who holds a box, and how a step changes it. *)

\* The three places where an application can hold a box.
Builds(k, b)      == loaded # NoQE /\ loaded.app = k /\ b \in Locked(loaded)
Queued(k, b)      == \E i \in DOMAIN beq : beq[i].app = k /\ b \in Locked(beq[i])
WorksWith(k, b)   == \E w \in Busy : wqe[w].app = k /\ b \in HeldBy(w)

\* Together they are Holds.
LEMMA HoldsParts ==
  ASSUME NEW k, NEW b
  PROVE  /\ Holds(k, b) <=> Builds(k, b) \/ Queued(k, b) \/ WorksWith(k, b)
         /\ Holds(k, b)' <=> Builds(k, b)' \/ Queued(k, b)' \/ WorksWith(k, b)'
BY DEF Holds, Builds, Queued, WorksWith

\* What a worker holds stays with it, and before it unlocks it has all.
LEMMA HeldStays ==
  ASSUME NEW w, wqe'[w] = wqe[w], wpc'[w] = wpc[w], warc'[w] = warc[w]
  PROVE  HeldBy(w)' = HeldBy(w)
BY DEF HeldBy

\* Outside the loop that unlocks, a worker holds all boxes of its superbox.
LEMMA HeldAll ==
  ASSUME NEW w
  PROVE  /\ wpc[w] \notin {"unlock", "unlockapp"} => HeldBy(w) = Locked(wqe[w])
         /\ wpc'[w] \notin {"unlock", "unlockapp"} => HeldBy(w)' = Locked(wqe'[w])
         /\ wpc'[w] = "unlock" /\ warc'[w] = 1 => HeldBy(w)' = Locked(wqe'[w])
<1>1. 1..(1 - 1) = {}
  OBVIOUS
<1>q. QED
  BY <1>1 DEF HeldBy, Locked

\* The part of the workers is the same when they have the same.
LEMMA WorksWithStays ==
  ASSUME UNCHANGED <<wpc, warc, wqe>>, NEW k, NEW b
  PROVE  WorksWith(k, b)' <=> WorksWith(k, b)
<1>1. Busy' = Busy /\ \A w : HeldBy(w)' = HeldBy(w)
  BY DEF Busy, HeldBy
<1>q. QED
  BY <1>1 DEF WorksWith

\* A worker's application holds what the worker does.
LEMMA WorkersHold ==
  ASSUME OneSuperbox, NEW w \in Busy, NEW b
  PROVE  Holds(wqe[w].app, b) <=> b \in HeldBy(w)
<1>1. /\ \A u \in Busy : wqe[u].app = wqe[w].app => u = w
      /\ \A i \in DOMAIN beq : beq[i].app # wqe[w].app
      /\ loaded # NoQE => wqe[w].app # loaded.app
  BY OneSuperboxParts DEF Apart
<1>q. QED
  BY <1>1 DEF Holds

\* The scheduler's application holds what its element has.
LEMMA SchedulerHolds ==
  ASSUME OneSuperbox, loaded # NoQE, NEW b
  PROVE  Holds(loaded.app, b) <=> b \in Locked(loaded)
<1>1. /\ \A u \in Busy : wqe[u].app # loaded.app
      /\ \A i \in DOMAIN beq : beq[i].app # loaded.app
  BY OneSuperboxParts DEF Apart
<1>q. QED
  BY <1>1 DEF Holds

\* A box belongs to the tree of the application that holds it.
LEMMA HeldInTree ==
  ASSUME Structure, NEW k, NEW b, Holds(k, b)
  PROVE  k \in Apps /\ b \in InTree(k) /\ b \in Boxes
<1>1. \A qe : IsElement(qe) => qe.app \in Apps /\ Locked(qe) \subseteq InTree(qe.app)
  BY DEF IsElement, Locked
<1>2. \A w : HeldBy(w) \subseteq Locked(wqe[w])
  BY DEF HeldBy, Locked
<1>3. k \in Apps /\ b \in InTree(k)
  BY <1>1, <1>2 DEF Structure, Elements, IsSuperbox, Holds
<1>q. QED
  BY <1>3, TreeFacts

HeldSame == \A k, b : Holds(k, b)' <=> Holds(k, b)

\* What a worker does before it unlocks changes no holder, ...
LEMMA MovesHeld ==
  ASSUME NEW w \in Workers, Moves(w), UNCHANGED schedView
  PROVE  HeldSame
<1>1. /\ UNCHANGED <<beq, wqe, loaded>>
      /\ \A u \in Workers \ {w} : wpc'[u] = wpc[u] /\ warc'[u] = warc[u]
      /\ wpc[w] \notin {"unlock", "unlockapp"}
      /\ wpc'[w] # "unlockapp"
      /\ wpc'[w] = "unlock" => warc'[w] = 1
  BY DEF Moves, schedView
<1>2. \A u \in Workers : HeldBy(u)' = HeldBy(u)
  <2>1. HeldBy(w)' = HeldBy(w)
    BY <1>1, HeldAll
  <2>q. QED
    BY <1>1, <2>1, HeldStays
<1>3. Busy' = Busy /\ \A u \in Busy : u \in Workers
  BY <1>1 DEF Busy
<1>q. QED
  BY <1>1, <1>2, <1>3 DEF HeldSame, Holds

\* ... neither does taking a superbox from the queue ...
LEMMA TakesHeld ==
  ASSUME Structure, NEW w \in Workers, Takes(w), UNCHANGED schedView
  PROVE  HeldSame
<1>1. /\ w \notin Busy
      /\ Busy' = Busy \cup {w}
      /\ Len(beq) \in Nat \ {0} /\ DOMAIN beq = 1..Len(beq)
      /\ wqe'[w] = beq[1]
      /\ \A u \in Workers \ {w} : wqe'[u] = wqe[u]
      /\ DOMAIN beq' = 1..(Len(beq) - 1)
      /\ \A i \in DOMAIN beq' : beq'[i] = beq[i + 1]
  BY TakesEffect
<1>2. UNCHANGED <<loaded, warc>> /\ wpc' = [wpc EXCEPT ![w] = "popped"] /\ DOMAIN wpc = Workers
  BY DEF schedView, Takes, Structure, WorkerPlaces
<1>3. HeldBy(w)' = Locked(beq[1])
  BY <1>1, <1>2, HeldAll
<1>4. \A u \in Busy : u # w /\ wqe'[u] = wqe[u] /\ HeldBy(u)' = HeldBy(u)
  BY <1>1, <1>2, HeldStays DEF Busy
<1>5. SUFFICES ASSUME NEW k, NEW b PROVE Holds(k, b)' <=> Holds(k, b)
  BY DEF HeldSame
<1>6. Builds(k, b)' <=> Builds(k, b)
  BY <1>2 DEF Builds
<1> DEFINE First == beq[1].app = k /\ b \in Locked(beq[1])
<1>7. WorksWith(k, b)' <=> WorksWith(k, b) \/ First
  BY <1>1, <1>3, <1>4 DEF WorksWith
<1>8. Queued(k, b) <=> Queued(k, b)' \/ First
  <2>1. \A i \in DOMAIN beq' : i + 1 \in DOMAIN beq
    BY <1>1
  <2>2. \A i \in DOMAIN beq : i = 1 \/ (i - 1 \in DOMAIN beq' /\ (i - 1) + 1 = i)
    BY <1>1
  <2>3. 1 \in DOMAIN beq
    BY <1>1
  <2>q. QED
    BY <1>1, <2>1, <2>2, <2>3 DEF Queued
<1>q. QED
  BY <1>6, <1>7, <1>8, HoldsParts

\* After the last entry of the list nothing is held.
LEMMA LastReleased ==
  ASSUME NEW w, wpc[w] = "unlockapp"
  PROVE  HeldBy(w) = {}
BY DEF HeldBy

\* ... nor releasing the application.
LEMMA ReleaseAppHeld ==
  ASSUME Structure, NEW w \in Workers, ReleaseApp(w), UNCHANGED schedView
  PROVE  HeldSame
<1>1. /\ UNCHANGED <<beq, warc>>
      /\ w \in Busy /\ wpc[w] = "unlockapp"
      /\ Busy' = Busy \ {w}
      /\ \A u \in Workers \ {w} : wqe'[u] = wqe[u] /\ wpc'[u] = wpc[u]
  BY ReleaseAppEffect
<1>2. UNCHANGED loaded
  BY DEF schedView
<1>3. HeldBy(w) = {}
  BY <1>1, LastReleased
<1>4. \A u \in Busy' : u \in Busy /\ wqe'[u] = wqe[u] /\ HeldBy(u)' = HeldBy(u)
  BY <1>1, HeldStays DEF Busy
<1>q. QED
  BY <1>1, <1>2, <1>3, <1>4 DEF HeldSame, Holds

\* An entry of the list is released.
LEMMA ReleaseNextBoxHeld ==
  ASSUME Structure, OneSuperbox, NEW w \in Workers, ReleaseNextBox(w), UNCHANGED schedView
  PROVE  \A k, b : Holds(k, b)' <=>
           Holds(k, b) /\ ~(k = wqe[w].app /\ b = wqe[w].boxes[warc[w]])
<1> DEFINE c == wqe[w].boxes[warc[w]]
           qe == wqe[w]
<1>1. /\ UNCHANGED <<beq, wqe>>
      /\ w \in Busy /\ IsSuperbox(qe)
      /\ wpc[w] = "unlock" /\ warc[w] \in 1..Len(qe.boxes)
      /\ \A u \in Workers \ {w} : wpc'[u] = wpc[u] /\ warc'[u] = warc[u]
      /\ IF warc[w] < Len(qe.boxes)
         THEN wpc'[w] = "unlock" /\ warc'[w] = warc[w] + 1
         ELSE wpc'[w] = "unlockapp" /\ warc'[w] = 1
  BY ReleaseNextBoxEffect
<1>2. UNCHANGED loaded /\ Busy' = Busy
  BY <1>1 DEF schedView, Busy
<1>3. Len(qe.boxes) \in Nat /\ {qe.boxes[i] : i \in 1..Len(qe.boxes)} = qe.locked
  BY <1>1, ListFacts
<1>4. HeldBy(w) = (qe.locked \ qe.unfed) \ {qe.boxes[i] : i \in 1..(warc[w] - 1)}
  BY <1>1 DEF HeldBy
<1>5. HeldBy(w)' = HeldBy(w) \ {c}
  <2>1. {qe.boxes[i] : i \in 1..warc[w]} = {qe.boxes[i] : i \in 1..(warc[w] - 1)} \cup {c}
    <3>1. 1..warc[w] = 1..(warc[w] - 1) \cup {warc[w]}
      BY <1>1
    <3>q. QED
      BY <3>1
  <2>2. CASE warc[w] < Len(qe.boxes)
    <3>1. (warc[w] + 1) - 1 = warc[w]
      BY <1>1
    <3>2. HeldBy(w)' = (qe.locked \ qe.unfed) \ {qe.boxes[i] : i \in 1..warc[w]}
      BY <1>1, <2>2, <3>1 DEF HeldBy
    <3> HIDE DEF c, qe
    <3>q. QED
      BY <3>2, <2>1, <1>4
  <2>3. CASE ~(warc[w] < Len(qe.boxes))
    <3>1. warc[w] = Len(qe.boxes)
      BY <1>1, <1>3, <2>3
    <3>2. HeldBy(w)' = {}
      BY <1>1, <2>3 DEF HeldBy
    <3> HIDE DEF c, qe
    <3>q. QED
      BY <3>1, <3>2, <2>1, <1>3, <1>4
  <2>q. QED
    BY <2>2, <2>3
<1>6. \A u \in Busy : u # w => HeldBy(u)' = HeldBy(u)
  BY <1>1, HeldStays DEF Busy
<1>7. /\ \A u \in Busy : wqe[u].app = qe.app => u = w
      /\ \A i \in DOMAIN beq : beq[i].app # qe.app
      /\ loaded # NoQE => loaded.app # qe.app
  BY <1>1, OneSuperboxParts DEF Apart
<1> SUFFICES ASSUME NEW k, NEW b
             PROVE  Holds(k, b)' <=> Holds(k, b) /\ ~(k = qe.app /\ b = c)
  OBVIOUS
<1>8. WorksWith(k, b)' <=> WorksWith(k, b) /\ ~(k = qe.app /\ b = c)
  <2> HIDE DEF c
  <2> QED BY <1>1, <1>2, <1>5, <1>6, <1>7 DEF WorksWith
<1>9. /\ Builds(k, b)' <=> Builds(k, b)
      /\ Queued(k, b)' <=> Queued(k, b)
      /\ Builds(k, b) => k # qe.app
      /\ Queued(k, b) => k # qe.app
  BY <1>1, <1>2, <1>7 DEF Builds, Queued
<1> HIDE DEF qe, c
<1>q. QED
  BY <1>8, <1>9, HoldsParts

\* The scheduler's element keeps its boxes, or has none.
LEMMA SchedulerHeldSame ==
  ASSUME UNCHANGED beq, UNCHANGED workView,
         \A k, b : Builds(k, b)' <=> Builds(k, b)
  PROVE  HeldSame
<1>1. UNCHANGED <<wpc, warc, wqe>>
  BY DEF workView
<1>2. \A k, b : Queued(k, b)' <=> Queued(k, b)
  BY DEF Queued
<1>3. \A k, b : WorksWith(k, b)' <=> WorksWith(k, b)
  BY <1>1, WorksWithStays
<1>q. QED
  BY <1>2, <1>3, HoldsParts DEF HeldSame

\* Going on with the same boxes changes no holder, ...
LEMMA KeepsHeld ==
  ASSUME Structure, spc \in Building, GoesOn, Keeps(loaded, loaded'), UNCHANGED workView
  PROVE  HeldSame
<1>1. loaded # NoQE /\ loaded' # NoQE /\ UNCHANGED beq
  BY InHand, ElementNotNull DEF GoesOn
<1>2. \A k, b : Builds(k, b)' <=> Builds(k, b)
  BY <1>1 DEF Builds, Keeps, Locked
<1>q. QED
  BY <1>1, <1>2, SchedulerHeldSame

\* ... neither does starting without any ...
LEMMA StartsHeld ==
  ASSUME Structure, NEW k \in Apps, Starts(k), UNCHANGED workView
  PROVE  HeldSame
<1>1. loaded = NoQE /\ Locked(loaded') = {} /\ UNCHANGED beq
  BY StartsEffect DEF Starts
<1>2. \A j, b : Builds(j, b)' <=> Builds(j, b)
  BY <1>1 DEF Builds
<1>q. QED
  BY <1>1, <1>2, SchedulerHeldSame

\* ... nor pushing the element.
LEMMA PushHeld ==
  ASSUME Structure, PushSuperbox, UNCHANGED workView
  PROVE  HeldSame
<1>1. /\ loaded # NoQE /\ loaded' = NoQE
      /\ Len(beq) \in Nat /\ DOMAIN beq = 1..Len(beq)
      /\ DOMAIN beq' = 1..(Len(beq) + 1)
      /\ \A i \in DOMAIN beq : beq'[i] = beq[i]
      /\ beq'[Len(beq) + 1] = loaded
  BY PushEffect
<1>2. DOMAIN beq' = DOMAIN beq \cup {Len(beq) + 1}
  BY <1>1
<1>3. SUFFICES ASSUME NEW k, NEW b PROVE Holds(k, b)' <=> Holds(k, b)
  BY DEF HeldSame
<1>4. Queued(k, b)' <=> Queued(k, b) \/ Builds(k, b)
  BY <1>1, <1>2 DEF Queued, Builds
<1>5. ~Builds(k, b)'
  BY <1>1 DEF Builds
<1>6. WorksWith(k, b)' <=> WorksWith(k, b)
  BY WorksWithStays DEF workView
<1>q. QED
  BY <1>4, <1>5, <1>6, HoldsParts

\* A box that is locked is held by the application being visited; ...
LEMMA VisitBoxHeld ==
  ASSUME Structure, VisitBox, UNCHANGED workView
  PROVE  \A k, b : Holds(k, b)' <=> Holds(k, b) \/ (k = loaded.app /\ b = visit.box)
<1>1. /\ GoesOn
      /\ loaded'.locked = loaded.locked \cup {visit.box}
      /\ loaded'.unfed = loaded.unfed \ {visit.box}
  BY VisitBoxEffect
<1>2. loaded # NoQE /\ loaded' # NoQE /\ loaded'.app = loaded.app /\ UNCHANGED beq
  BY <1>1, InHand, ElementNotNull DEF GoesOn, VisitBox, Building
<1>3. Locked(loaded') = Locked(loaded) \cup {visit.box}
  BY <1>1 DEF Locked
<1> SUFFICES ASSUME NEW k, NEW b
             PROVE  Holds(k, b)' <=> Holds(k, b) \/ (k = loaded.app /\ b = visit.box)
  OBVIOUS
<1>4. Builds(k, b)' <=> Builds(k, b) \/ (k = loaded.app /\ b = visit.box)
  BY <1>2, <1>3 DEF Builds
<1>5. Queued(k, b)' <=> Queued(k, b)
  BY <1>2 DEF Queued
<1>6. WorksWith(k, b)' <=> WorksWith(k, b)
  BY WorksWithStays DEF workView
<1>q. QED
  BY <1>4, <1>5, <1>6, HoldsParts

\* ... one given back no longer is.
LEMMA GiveBackHeld ==
  ASSUME Structure, OneSuperbox, GiveBack, UNCHANGED workView
  PROVE  \A k, b : Holds(k, b)' <=>
           Holds(k, b) /\ ~(k = loaded.app /\ b = stack[Len(stack)].box)
<1> DEFINE c == stack[Len(stack)].box
<1>1. /\ GoesOn
      /\ loaded'.locked = loaded.locked
      /\ loaded'.unfed = loaded.unfed \cup {c}
  BY GiveBackEffect
<1>2. loaded # NoQE /\ loaded' # NoQE /\ loaded'.app = loaded.app /\ UNCHANGED beq
  BY <1>1, InHand, ElementNotNull DEF GoesOn, GiveBack, Building
<1>3. Locked(loaded') = Locked(loaded) \ {c}
  BY <1>1 DEF Locked
<1>4. /\ \A u \in Busy : wqe[u].app # loaded.app
      /\ \A i \in DOMAIN beq : beq[i].app # loaded.app
  BY <1>2, OneSuperboxParts DEF Apart
<1> SUFFICES ASSUME NEW k, NEW b
             PROVE  Holds(k, b)' <=> Holds(k, b) /\ ~(k = loaded.app /\ b = c)
  OBVIOUS
<1> HIDE DEF c
<1>5. Builds(k, b)' <=> Builds(k, b) /\ ~(k = loaded.app /\ b = c)
  BY <1>2, <1>3 DEF Builds
<1>6. (Queued(k, b)' <=> Queued(k, b)) /\ (Queued(k, b) => k # loaded.app)
  BY <1>2, <1>4 DEF Queued
<1>7. (WorksWith(k, b)' <=> WorksWith(k, b)) /\ (WorksWith(k, b) => k # loaded.app)
  BY <1>4, WorksWithStays DEF workView, WorksWith
<1>q. QED
  BY <1>5, <1>6, <1>7, HoldsParts

-----------------------------------------------------------------------------
(* One application per box. *)

\* A box that never strayed is locked exactly when some application holds it,
\* and one only does.
Owned(b) ==
  /\ b \in boxLocked <=> \E k \in Apps : Holds(k, b)
  /\ \A j, k \in Apps : Holds(j, b) /\ Holds(k, b) => j = k

\* OneHolder, box by box.
LEMMA OneHolderOwned ==
  /\ OneHolder => \A b \in Boxes \ strayed : Owned(b)
  /\ (\A b \in Boxes \ strayed' : Owned(b)') => OneHolder'
<1>1. ASSUME OneHolder, NEW b \in Boxes \ strayed PROVE Owned(b)
  BY <1>1 DEF OneHolder, Owned
<1>2. ASSUME \A b \in Boxes \ strayed' : Owned(b)' PROVE OneHolder'
  BY <1>2 DEF OneHolder, Owned
<1>q. QED
  BY <1>1, <1>2

\* The same holders and the same locked boxes.
LEMMA OneHolderSame ==
  ASSUME OneHolder, HeldSame, UNCHANGED <<boxLocked, strayed>>
  PROVE  OneHolder'
BY OneHolderOwned DEF Owned, HeldSame

\* A box that was free is locked for an application.
LEMMA OneHolderLocks ==
  ASSUME OneHolder, UNCHANGED strayed, NEW a \in Apps, NEW c, c \notin boxLocked,
         boxLocked' = boxLocked \cup {c},
         \A k, b : Holds(k, b)' <=> Holds(k, b) \/ (k = a /\ b = c)
  PROVE  OneHolder'
<1>1. ASSUME NEW b \in Boxes \ strayed PROVE Owned(b)'
  <2>1. Owned(b)
    BY <1>1, OneHolderOwned
  <2>2. CASE b = c
    BY <2>1, <2>2 DEF Owned
  <2>3. CASE b # c
    BY <2>1, <2>3 DEF Owned
  <2>q. QED
    BY <2>2, <2>3
<1>q. QED
  BY <1>1, OneHolderOwned

\* An application unlocks a box: its own, or one that is free, or it strays.
LEMMA OneHolderUnlocks ==
  ASSUME OneHolder, strayed \subseteq strayed', NEW a \in Apps, NEW c,
         Holds(a, c) \/ c \notin boxLocked \/ c \in strayed',
         boxLocked' = boxLocked \ {c},
         \A k, b : Holds(k, b)' <=> Holds(k, b) /\ ~(k = a /\ b = c)
  PROVE  OneHolder'
<1>1. ASSUME NEW b \in Boxes \ strayed' PROVE Owned(b)'
  <2>1. Owned(b)
    BY <1>1, OneHolderOwned
  <2>2. CASE b = c
    BY <2>1, <2>2, <1>1 DEF Owned
  <2>3. CASE b # c
    BY <2>1, <2>3 DEF Owned
  <2>q. QED
    BY <2>2, <2>3
<1>q. QED
  BY <1>1, OneHolderOwned

-----------------------------------------------------------------------------
\* The invariant.

HoldingInv == Structure /\ SuperboxExclusion /\ FramesHeld

\* Callers that have returned leave the others with their boxes.
LEMMA FramesKept ==
  ASSUME FramesHeld, strayed \subseteq strayed', Locked(loaded') = Locked(loaded),
         DOMAIN stack' \subseteq DOMAIN stack,
         \A m \in DOMAIN stack' : stack'[m].box = stack[m].box
  PROVE  FramesHeld'
BY DEF FramesHeld, Locked

\* A step of neither.
LEMMA HoldingStill ==
  ASSUME HoldingInv, Structure', Still
  PROVE  HoldingInv'
<1>1. UNCHANGED <<beq, boxLocked, appLocked, loaded, stack, wqe, wpc, warc, strayed>>
  BY DEF Still, schedView, workView
<1>2. Busy' = Busy /\ \A w : HeldBy(w)' = HeldBy(w)
  BY <1>1 DEF Busy, HeldBy
<1>3. HeldSame
  BY <1>1, <1>2 DEF HeldSame, Holds
<1>4. OneSuperbox'
  BY <1>1, OneSuperboxKept DEF HoldingInv, SuperboxExclusion
<1>5. OneHolder'
  BY <1>1, <1>3, OneHolderSame DEF HoldingInv, SuperboxExclusion
<1>6. FramesHeld'
  BY <1>1, FramesKept DEF HoldingInv
<1>q. QED
  BY <1>1, <1>4, <1>5, <1>6 DEF HoldingInv, SuperboxExclusion

\* A worker's step that releases no box.
LEMMA HoldingWorker ==
  ASSUME HoldingInv, Structure', NEW w \in Workers, UNCHANGED schedView,
         Moves(w) \/ Takes(w) \/ ReleaseApp(w)
  PROVE  HoldingInv'
<1>1. UNCHANGED <<loaded, stack, strayed, boxLocked>>
  BY DEF schedView, Moves, Takes, ReleaseApp
<1>2. HeldSame
  BY MovesHeld, TakesHeld, ReleaseAppHeld DEF HoldingInv
<1>3. OneSuperbox'
  <2>1. ASSUME Moves(w) PROVE OneSuperbox'
    <3>1. UNCHANGED <<beq, wqe, appLocked, loaded>>
      BY <2>1, <1>1 DEF Moves
    <3>q. QED
      BY <3>1, OneSuperboxKept DEF HoldingInv, SuperboxExclusion
  <2>q. QED
    BY <2>1, OneSuperboxTakes, OneSuperboxReleaseApp DEF HoldingInv, SuperboxExclusion
<1>4. OneHolder'
  BY <1>1, <1>2, OneHolderSame DEF HoldingInv, SuperboxExclusion
<1>5. FramesHeld'
  BY <1>1, FramesKept DEF HoldingInv
<1>q. QED
  BY <1>1, <1>3, <1>4, <1>5 DEF HoldingInv, SuperboxExclusion

\* A worker unlocks the next box of its list.  If another superbox has it by
\* now, it is a box of two applications.
LEMMA HoldingReleaseNextBox ==
  ASSUME HoldingInv, Structure', NEW w \in Workers, UNCHANGED schedView, ReleaseNextBox(w)
  PROVE  HoldingInv'
<1> DEFINE c == wqe[w].boxes[warc[w]]
           a == wqe[w].app
<1>1. /\ UNCHANGED <<beq, wqe, appLocked, loaded, stack>>
      /\ w \in Busy /\ IsSuperbox(wqe[w])
      /\ warc[w] \in 1..Len(wqe[w].boxes)
      /\ boxLocked' = boxLocked \ {c}
  BY ReleaseNextBoxEffect DEF schedView, HoldingInv
<1>2. strayed' = IF c \in boxLocked \ HeldBy(w) THEN strayed \cup {c} ELSE strayed
  BY DEF ReleaseNextBox
<1>3. OneSuperbox /\ OneHolder /\ strayed \subseteq SharedBoxes /\ Structure /\ FramesHeld
  BY DEF HoldingInv, SuperboxExclusion
<1>4. a \in Apps /\ c \in InTree(a)
  BY <1>1, ListFacts
<1>5. \A k, b : Holds(k, b)' <=> Holds(k, b) /\ ~(k = a /\ b = c)
  BY <1>3, ReleaseNextBoxHeld
<1>6. Holds(a, c) <=> c \in HeldBy(w)
  BY <1>1, <1>3, WorkersHold
<1> HIDE DEF a, c
<1>7. OneSuperbox'
  BY <1>1, <1>3, OneSuperboxKept
<1>8. strayed \subseteq strayed'
  BY <1>2
<1>9. Holds(a, c) \/ c \notin boxLocked \/ c \in strayed'
  BY <1>2, <1>6
<1>10. OneHolder'
  BY <1>1, <1>3, <1>4, <1>5, <1>8, <1>9, OneHolderUnlocks
<1>11. strayed' \subseteq SharedBoxes
  <2>1. CASE c \in boxLocked \ HeldBy(w) /\ c \notin strayed
    <3>1. c \in Boxes
      BY <1>4, TreeFacts
    <3>2. PICK j \in Apps : Holds(j, c)
      BY <2>1, <3>1, <1>3, OneHolderOwned DEF Owned
    <3>3. j # a
      BY <2>1, <3>2, <1>6
    <3>4. c \in InTree(j)
      BY <3>2, <1>3, HeldInTree
    <3>5. c \in SharedBoxes
      BY <3>1, <3>3, <3>4, <1>4 DEF SharedBoxes
    <3>q. QED
      BY <3>5, <1>2, <1>3
  <2>2. CASE ~(c \in boxLocked \ HeldBy(w) /\ c \notin strayed)
    BY <2>2, <1>2, <1>3
  <2>q. QED
    BY <2>1, <2>2
<1>12. FramesHeld'
  BY <1>1, <1>3, <1>8, FramesKept
<1>q. QED
  BY <1>7, <1>10, <1>11, <1>12 DEF HoldingInv, SuperboxExclusion

\* The scheduler's steps that lock and unlock no box.
LEMMA HoldingScheduler ==
  ASSUME HoldingInv, Structure', UNCHANGED workView,
         Idles \/ (\E k \in Apps : Starts(k)) \/ VisitArc \/ PinOutputs \/ CreateBoxList
           \/ PushSuperbox
  PROVE  HoldingInv'
<1>1. OneSuperbox /\ OneHolder /\ Structure /\ FramesHeld /\ strayed \subseteq SharedBoxes
  BY DEF HoldingInv, SuperboxExclusion
<1>2. UNCHANGED <<strayed, wqe>>
  BY DEF workView
<1>3. SUFFICES HeldSame /\ OneSuperbox' /\ FramesHeld' /\ UNCHANGED boxLocked
  BY <1>1, <1>2, OneHolderSame DEF HoldingInv, SuperboxExclusion
<1>4. CASE Idles
  <2>1. UNCHANGED <<beq, boxLocked, appLocked, loaded, stack>>
    BY <1>4 DEF Idles
  <2>2. \A k, b : Builds(k, b)' <=> Builds(k, b)
    BY <2>1 DEF Builds
  <2>q. QED
    BY <2>1, <2>2, <1>1, <1>2, SchedulerHeldSame, OneSuperboxKept, FramesKept
<1>5. ASSUME NEW k \in Apps, Starts(k)
      PROVE  HeldSame /\ OneSuperbox' /\ FramesHeld' /\ UNCHANGED boxLocked
  <2>1. stack' = <<>> /\ UNCHANGED boxLocked
    BY <1>1, <1>5, StartsEffect DEF Starts
  <2>2. FramesHeld'
    BY <2>1 DEF FramesHeld
  <2>q. QED
    BY <2>1, <2>2, <1>1, <1>5, StartsHeld, OneSuperboxStarts
<1>6. CASE VisitArc \/ PinOutputs \/ CreateBoxList
  <2>1. /\ GoesOn /\ Keeps(loaded, loaded') /\ UNCHANGED boxLocked
        /\ DOMAIN stack' \subseteq DOMAIN stack
        /\ \A m \in DOMAIN stack' : stack'[m].box = stack[m].box
    BY <1>1, <1>6, VisitArcEffect, PinOutputsEffect, CreateBoxListEffect
  <2>2. spc \in Building
    BY <1>6 DEF VisitArc, PinOutputs, CreateBoxList, Building
  <2>3. /\ loaded # NoQE /\ loaded' # NoQE /\ loaded'.app = loaded.app
        /\ UNCHANGED <<beq, appLocked>>
    BY <1>1, <2>1, <2>2, InHand, ElementNotNull DEF GoesOn
  <2>4. Locked(loaded') = Locked(loaded)
    BY <2>1 DEF Keeps, Locked
  <2>5. HeldSame
    BY <1>1, <2>1, <2>2, KeepsHeld
  <2>6. OneSuperbox'
    BY <1>1, <1>2, <2>3, OneSuperboxKept
  <2>7. FramesHeld'
    BY <1>1, <1>2, <2>1, <2>4, FramesKept
  <2>q. QED
    BY <2>1, <2>5, <2>6, <2>7
<1>7. CASE PushSuperbox
  <2>1. stack' = <<>> /\ UNCHANGED boxLocked
    BY <1>1, <1>7, PushEffect
  <2>2. FramesHeld'
    BY <2>1 DEF FramesHeld
  <2>q. QED
    BY <2>1, <2>2, <1>1, <1>7, PushHeld, OneSuperboxPush
<1>q. QED
  BY <1>4, <1>5, <1>6, <1>7

\* A box is locked: it was free, so no caller had it.
LEMMA HoldingVisitBox ==
  ASSUME HoldingInv, Structure', UNCHANGED workView, VisitBox
  PROVE  HoldingInv'
<1> DEFINE c == visit.box
           L == Len(stack)
<1>1. OneSuperbox /\ OneHolder /\ Structure /\ FramesHeld /\ strayed \subseteq SharedBoxes
  BY DEF HoldingInv, SuperboxExclusion
<1>2. UNCHANGED <<strayed, wqe>>
  BY DEF workView
<1>3. /\ GoesOn
      /\ c \in InTree(loaded.app) /\ c \notin boxLocked
      /\ boxLocked' = boxLocked \cup {c}
      /\ loaded'.locked = loaded.locked \cup {c}
      /\ loaded'.unfed = loaded.unfed \ {c}
      /\ DOMAIN stack = 1..L /\ L \in Nat
      /\ DOMAIN stack' = 1..(L + 1)
      /\ \A m \in DOMAIN stack : stack'[m] = stack[m]
      /\ stack'[L + 1].box = c
  BY <1>1, VisitBoxEffect
<1>4. /\ loaded # NoQE /\ loaded' # NoQE /\ loaded'.app = loaded.app
      /\ UNCHANGED <<beq, appLocked>>
      /\ loaded.app \in Apps /\ Callers(stack, loaded.app)
  BY <1>1, <1>3, InHand, ElementNotNull DEF GoesOn, VisitBox, Building
<1>5. \A k, b : Holds(k, b)' <=> Holds(k, b) \/ (k = loaded.app /\ b = c)
  BY <1>1, VisitBoxHeld
<1> HIDE DEF c, L
<1>6. OneSuperbox'
  BY <1>1, <1>2, <1>4, OneSuperboxKept
<1>7. OneHolder'
  BY <1>1, <1>2, <1>3, <1>4, <1>5, OneHolderLocks
<1>8. Locked(loaded') = Locked(loaded) \cup {c}
  BY <1>3 DEF Locked
<1>9. \A m \in DOMAIN stack : stack[m].box \notin strayed => stack[m].box # c
  <2> SUFFICES ASSUME NEW m \in DOMAIN stack, stack[m].box \notin strayed
               PROVE  stack[m].box \in boxLocked
    BY <1>3
  <2>1. Holds(loaded.app, stack[m].box)
    BY <1>1, <1>4, SchedulerHolds DEF FramesHeld
  <2>2. stack[m].box \in Boxes
    BY <1>1, <2>1, HeldInTree
  <2>q. QED
    BY <2>1, <2>2, <1>1, <1>4, OneHolderOwned DEF Owned
<1>10. FramesHeld'
  <2>1. \A m \in DOMAIN stack' : m \in DOMAIN stack \/ m = L + 1
    BY <1>3
  <2>2. \A m \in DOMAIN stack' : stack'[m].box \notin strayed =>
          /\ stack'[m].box \in Locked(loaded')
          /\ \A n \in DOMAIN stack' : stack'[n].box = stack'[m].box => n = m
    BY <2>1, <1>1, <1>3, <1>8, <1>9 DEF FramesHeld
  <2>q. QED
    BY <2>2, <1>2 DEF FramesHeld, Locked
<1>q. QED
  BY <1>1, <1>2, <1>6, <1>7, <1>10 DEF HoldingInv, SuperboxExclusion

\* A box without input is given back by the caller that locked it.
LEMMA HoldingGiveBack ==
  ASSUME HoldingInv, Structure', UNCHANGED workView, GiveBack
  PROVE  HoldingInv'
<1> DEFINE L == Len(stack)
           c == stack[L].box
<1>1. OneSuperbox /\ OneHolder /\ Structure /\ FramesHeld /\ strayed \subseteq SharedBoxes
  BY DEF HoldingInv, SuperboxExclusion
<1>2. UNCHANGED <<strayed, wqe>>
  BY DEF workView
<1>3. /\ GoesOn
      /\ L \in Nat \ {0} /\ DOMAIN stack = 1..L
      /\ boxLocked' = boxLocked \ {c}
      /\ loaded'.locked = loaded.locked
      /\ loaded'.unfed = loaded.unfed \cup {c}
      /\ DOMAIN stack' = 1..(L - 1)
      /\ \A m \in DOMAIN stack' : stack'[m].box = stack[m].box
  BY <1>1, GiveBackEffect
<1>4. /\ loaded # NoQE /\ loaded' # NoQE /\ loaded'.app = loaded.app
      /\ UNCHANGED <<beq, appLocked>>
      /\ loaded.app \in Apps
  BY <1>1, <1>3, InHand, ElementNotNull DEF GoesOn, GiveBack, Building
<1>5. \A k, b : Holds(k, b)' <=> Holds(k, b) /\ ~(k = loaded.app /\ b = c)
  BY <1>1, GiveBackHeld
<1>6. L \in DOMAIN stack
  BY <1>3
<1>7. OneSuperbox'
  BY <1>1, <1>2, <1>4, OneSuperboxKept
<1>8. c \notin strayed => Holds(loaded.app, c)
  BY <1>1, <1>4, <1>6, SchedulerHolds DEF FramesHeld
<1> HIDE DEF c
<1>9. OneHolder'
  BY <1>1, <1>2, <1>3, <1>4, <1>5, <1>8, OneHolderUnlocks
<1>10. Locked(loaded') = Locked(loaded) \ {c}
  BY <1>3 DEF Locked
<1>11. FramesHeld'
  <2>1. \A m \in DOMAIN stack' : m \in DOMAIN stack /\ m # L
    BY <1>3
  <2>2. \A m \in DOMAIN stack' : stack[m].box \notin strayed => stack[m].box # c
    BY <2>1, <1>1, <1>6 DEF FramesHeld, c
  <2>3. \A m \in DOMAIN stack' : stack'[m].box \notin strayed =>
          /\ stack'[m].box \in Locked(loaded')
          /\ \A n \in DOMAIN stack' : stack'[n].box = stack'[m].box => n = m
    BY <2>1, <2>2, <1>1, <1>3, <1>10 DEF FramesHeld
  <2>q. QED
    BY <2>3, <1>2 DEF FramesHeld, Locked
<1>q. QED
  BY <1>1, <1>2, <1>7, <1>9, <1>11 DEF HoldingInv, SuperboxExclusion

\* Every step keeps the invariant.
LEMMA HoldingStep ==
  ASSUME HoldingInv, [Next]_vars
  PROVE  HoldingInv'
<1>1. Structure'
  BY StructureStep DEF HoldingInv
<1>2. \/ Still
      \/ UNCHANGED schedView /\ \E w \in Workers : WorkerKind(w)
      \/ UNCHANGED workView /\ SchedulerKind
  BY NextKinds DEF HoldingInv, Structure
<1>3. CASE Still
  BY <1>1, <1>3, HoldingStill
<1>4. CASE UNCHANGED schedView /\ \E w \in Workers : WorkerKind(w)
  BY <1>1, <1>4, HoldingWorker, HoldingReleaseNextBox DEF WorkerKind
<1>5. CASE UNCHANGED workView /\ SchedulerKind
  BY <1>1, <1>5, HoldingScheduler, HoldingVisitBox, HoldingGiveBack DEF SchedulerKind
<1>q. QED
  BY <1>2, <1>3, <1>4, <1>5

\* Initially nothing is locked and nothing is under way.
LEMMA HoldingInit ==
  ASSUME Init
  PROVE  HoldingInv
<1>1. /\ beq = <<>> /\ loaded = NoQE /\ spc = "event" /\ stack = <<>>
      /\ boxLocked = {} /\ appLocked = {} /\ strayed = {}
      /\ wpc = [w \in Workers |-> "top"] /\ wqe = [w \in Workers |-> NoQE]
      /\ warc = [w \in Workers |-> 1]
  BY DEF Init, CatalogInit, BeqInit, WorkerInit, AppSchedulerInit, SchedulerInit
<1>2. Busy = {}
  BY <1>1 DEF Busy
<1>3. IsSequence(<<>>) /\ DOMAIN <<>> = {}
  BY DEF IsSequence
<1>4. Elements
  BY <1>1, <1>2, <1>3 DEF Elements
<1>5. WorkerPlaces
  <2>1. ASSUME NEW w \in Workers PROVE WorkerPlace(w)
    BY <1>1, <1>2 DEF WorkerPlace
  <2>2. warc \in [Workers -> Nat] /\ DOMAIN wpc = Workers
    BY <1>1
  <2>q. QED
    BY <2>1, <2>2 DEF WorkerPlaces
<1>6. SchedulerPlace
  BY <1>1 DEF SchedulerPlace, Building
<1>7. Frames
  BY <1>1, <1>3 DEF Frames, Callers
<1>8. Plans
  <2>1. \A k \in Apps : traversal[k] \in Traversals[traversalType][k]
    BY DEF Init, AppSchedulerInit
  <2>2. traversalType \in TraversalTypes
    <3>1. PICK plan \in AppPlans : traversalType = plan[2]
      BY DEF Init, AppSchedulerInit
    <3>q. QED
      BY <3>1, AppSchedulerAssumption
  <2>q. QED
    BY <2>1, <2>2 DEF Plans
<1>9. OneSuperbox
  BY <1>1, <1>2, <1>3 DEF OneSuperbox
<1>10. \A k, b : ~Holds(k, b)
  BY <1>1, <1>2, <1>3 DEF Holds
<1>11. OneHolder
  BY <1>1, <1>10 DEF OneHolder
<1>12. FramesHeld
  BY <1>1, <1>3 DEF FramesHeld
<1>q. QED
  BY <1>1, <1>4, <1>5, <1>6, <1>7, <1>8, <1>9, <1>11, <1>12
  DEF HoldingInv, Structure, SuperboxExclusion

(***************************************************************************)
(* However many applications, workers and boxes there are, and however the *)
(* trees of the applications overlap: an application has one superbox at a *)
(* time and its mutex is held as long; a box is locked exactly when one    *)
(* application's superbox holds it, unless a worker unlocked it once for a *)
(* superbox that did not hold it; and that happens only to a box which two *)
(* applications share.  The locks are those of traverse_LoadQueue, of the  *)
(* superbox in the queue, and of the loop at the end of WorkerThread::run. *)
(***************************************************************************)
THEOREM SuperboxesExclusive == Spec => []SuperboxExclusion
<1>1. Init => HoldingInv
  BY HoldingInit
<1>2. HoldingInv /\ [Next]_vars => HoldingInv'
  BY HoldingStep
<1>3. HoldingInv => SuperboxExclusion
  BY DEF HoldingInv
<1>q. QED
  BY <1>1, <1>2, <1>3, PTL DEF Spec

(***************************************************************************)
(* Where no two applications share a box, every lock is undone by the      *)
(* superbox that took it, and by no other.                                 *)
(***************************************************************************)
COROLLARY NothingStrays ==
  ASSUME Unshared = Apps
  PROVE  Spec => [](strayed = {})
<1>1. SharedBoxes = {}
  BY DEF SharedBoxes, Unshared
<1>2. SuperboxExclusion => strayed = {}
  BY <1>1 DEF SuperboxExclusion
<1>q. QED
  BY <1>2, SuperboxesExclusive, PTL

-----------------------------------------------------------------------------
(***************************************************************************)
(* What is on the arcs of a tree that shares no box.  Three facts together *)
(* are inductive.  Walk: traverse_LoadQueue comes by a box only after the  *)
(* one above it and not twice, so an arc of the tree is pinned for reading *)
(* and for writing at once or not at all (Pinned).  Upwards: the list of a *)
(* superbox comes by the box above later, as the traversal does.  Residue: *)
(* hence what a box wrote to a buffer is read before the list ends, and    *)
(* nothing goes back to the arc.                                           *)
(***************************************************************************)

\* The box above a box, on the way to the root.
Above(k, b) == DestId[Trees[k][b].out]

\* The tree arcs of the applications that share nothing.
Quiet == UNION {TreeArcs(k) : k \in Unshared}

\* A tree that has an end of a quiet arc has the arc.
LEMMA QuietArc ==
  ASSUME NEW a \in Quiet
  PROVE  /\ a \in Arcs /\ a \notin InputArcs /\ a \notin AppArcs
         /\ SrcId[a] \in Boxes
         /\ \A k \in Apps : SrcId[a] \in InTree(k) \/ DestId[a] \in InTree(k) =>
              /\ k \in Unshared /\ a \in TreeArcs(k)
              /\ SrcId[a] \in InTree(k) \ {RootBox(k)}
              /\ a = Trees[k][SrcId[a]].out
              /\ DestId[a] = Above(k, SrcId[a])
<1>1. PICK j \in Unshared : a \in TreeArcs(j)
  BY DEF Quiet
<1>2. j \in Apps /\ InTree(j) \subseteq Boxes
  BY <1>1, TreeFacts DEF Unshared
<1>3. PICK b \in InTree(j) \ {RootBox(j)} : a = Trees[j][b].out
  BY <1>1 DEF TreeArcs
<1>4. b \in Boxes /\ a \in OutArcs(b) /\ DestId[a] \in InTree(j)
  BY <1>2, <1>3, TreesAssumption
<1>5. a \in Arcs /\ SrcId[a] = b
  BY <1>4, CatalogAssumption
<1>6. NoBox \notin Boxes
  BY CatalogAssumption
<1>7. a \notin InputArcs /\ a \notin AppArcs
  BY <1>2, <1>4, <1>5, <1>6 DEF InputArcs, AppArcs
<1>8. ASSUME NEW k \in Apps, SrcId[a] \in InTree(k) \/ DestId[a] \in InTree(k)
      PROVE  k = j
  BY <1>1, <1>3, <1>4, <1>5, <1>8 DEF Unshared
<1>q. QED
  BY <1>1, <1>3, <1>4, <1>5, <1>7, <1>8 DEF Above

\* The other side of an input of a box of a tree.
LEMMA InputFacts ==
  ASSUME NEW k \in Apps, NEW b \in InTree(k), NEW i \in 1..Len(InputQueueIds[b]),
         NEW a, a = InputQueueIds[b][i], NEW c, c = Trees[k][b].inputs[i]
  PROVE  /\ a \in Arcs /\ DestId[a] = b
         /\ a \in TreeArcs(k) => c = SrcId[a]
         /\ c # NoBox => /\ c \in InTree(k) \ {RootBox(k)}
                         /\ a = Trees[k][c].out /\ Above(k, c) = b
<1>1. b \in Boxes
  BY TreeFacts
<1>2. a \in InArcs(b)
  BY DEF InArcs
<1>3. a \in Arcs /\ DestId[a] = b
  BY <1>1, <1>2, CatalogAssumption
<1>4. c = IF a \in TreeArcs(k) THEN SrcId[a] ELSE NoBox
  BY TreesAssumption
<1>5. ASSUME a \in TreeArcs(k)
      PROVE  /\ SrcId[a] \in InTree(k) \ {RootBox(k)}
             /\ a = Trees[k][SrcId[a]].out
  <2>1. PICK d \in InTree(k) \ {RootBox(k)} : a = Trees[k][d].out
    BY <1>5 DEF TreeArcs
  <2>2. d \in Boxes /\ a \in OutArcs(d)
    BY <2>1, TreeFacts, TreesAssumption
  <2>3. SrcId[a] = d
    BY <2>2, CatalogAssumption
  <2>q. QED
    BY <2>1, <2>3
<1>q. QED
  BY <1>3, <1>4, <1>5 DEF Above

\* KeptOf keeps the order: what comes after an entry comes after it still.
LEMMA KeptOfOrder ==
  ASSUME NEW T, NEW s \in Seq(T), NEW S, NEW m \in DOMAIN KeptOf(s, S)
  PROVE  \E p \in DOMAIN s :
           /\ s[p] = KeptOf(s, S)[m]
           /\ \A q \in DOMAIN s : p < q /\ s[q] \in S =>
                \E n \in DOMAIN KeptOf(s, S) : m < n /\ KeptOf(s, S)[n] = s[q]
<1> DEFINE N == Len(s)
           g == CHOOSE f : f = [n \in 0..N |-> KeptStep(f, s, S, n)]
           From(l, k, p) ==
             /\ s[p] = g[l][k]
             /\ \A q \in 1..l : p < q /\ s[q] \in S =>
                  \E n \in 1..Len(g[l]) : k < n /\ g[l][n] = s[q]
           Good(l) == /\ g[l] \in Seq(T)
                      /\ \A k \in 1..Len(g[l]) : \E p \in 1..l : From(l, k, p)
           M == {l \in Nat : l <= N => Good(l)}
<1>1. N \in Nat /\ DOMAIN s = 1..N /\ \A n \in 1..N : s[n] \in T
  OBVIOUS
<1>2. g = [n \in 0..N |-> KeptStep(g, s, S, n)]
  BY <1>1, KeptExists
<1>3. KeptOf(s, S) = g[N]
  BY DEF KeptOf, KeptStep
<1> HIDE DEF g, N
<1>4. g[0] = <<>>
  BY <1>1, <1>2 DEF KeptStep
<1>5. \A n \in 1..N : g[n] = IF s[n] \in S THEN Append(g[n - 1], s[n]) ELSE g[n - 1]
  <2> SUFFICES ASSUME NEW n \in 1..N
               PROVE  g[n] = IF s[n] \in S THEN Append(g[n - 1], s[n]) ELSE g[n - 1]
    OBVIOUS
  <2>1. n \in 0..N /\ n # 0
    BY <1>1
  <2>2. g[n] = KeptStep(g, s, S, n)
    BY <2>1, <1>2
  <2>q. QED
    BY <2>1, <2>2 DEF KeptStep
<1>6. 0 \in M
  <2>1. 1..0 = {} /\ Len(<<>>) = 0 /\ <<>> \in Seq(T)
    OBVIOUS
  <2>2. Good(0)
    BY <1>4, <2>1
  <2>q. QED
    BY <2>2
<1>7. ASSUME NEW l \in Nat, l \in M PROVE l + 1 \in M
  <2>1. SUFFICES ASSUME l + 1 <= N PROVE Good(l + 1)
    <3> HIDE DEF Good
    <3> QED OBVIOUS
  <2>r. l + 1 \in 1..N /\ l <= N
    BY <1>1, <2>1
  <2>2. Good(l)
    <3> HIDE DEF Good
    <3> QED BY <1>7, <2>r
  <2>3. g[l + 1] = IF s[l + 1] \in S THEN Append(g[l], s[l + 1]) ELSE g[l]
    BY <2>r, <1>5
  <2>4. \A q \in 1..(l + 1) : q \in 1..l \/ q = l + 1
    OBVIOUS
  <2>5. CASE s[l + 1] \in S
    <3> DEFINE t == g[l]
               e == s[l + 1]
    <3>1. t \in Seq(T) /\ e \in T
      BY <2>r, <2>2, <1>1
    <3>2. g[l + 1] = Append(t, e)
      BY <2>3, <2>5
    <3> HIDE DEF t, e
    <3>3. /\ Append(t, e) \in Seq(T)
          /\ Len(Append(t, e)) = Len(t) + 1
          /\ \A i \in 1..Len(t) : Append(t, e)[i] = t[i]
          /\ Append(t, e)[Len(t) + 1] = e
          /\ Len(t) \in Nat
      BY <3>1, AppendProperties
    <3>4. ASSUME NEW k \in 1..(Len(t) + 1)
          PROVE  \E p \in 1..(l + 1) : From(l + 1, k, p)
      <4>1. CASE k = Len(t) + 1
        <5>1. s[l + 1] = g[l + 1][k]
          BY <3>2, <3>3, <4>1 DEF e
        <5>2. \A q \in 1..(l + 1) : ~(l + 1 < q)
          OBVIOUS
        <5>3. From(l + 1, k, l + 1)
          BY <5>1, <5>2
        <5>q. QED
          <6> HIDE DEF From
          <6> QED BY <5>3
      <4>2. CASE k \in 1..Len(t)
        <5>1. PICK p \in 1..l : From(l, k, p)
          <6> HIDE DEF From
          <6> QED BY <2>2, <4>2 DEF t
        <5>2. s[p] = g[l + 1][k]
          BY <5>1, <3>2, <3>3, <4>2 DEF t
        <5>3. ASSUME NEW q \in 1..(l + 1), p < q, s[q] \in S
              PROVE  \E n \in 1..Len(g[l + 1]) : k < n /\ g[l + 1][n] = s[q]
          <6>1. CASE q = l + 1
            <7>1. Len(t) + 1 \in 1..Len(g[l + 1]) /\ k < Len(t) + 1
              BY <3>2, <3>3, <4>2
            <7>q. QED
              BY <6>1, <7>1, <3>2, <3>3 DEF e
          <6>2. CASE q \in 1..l
            <7>1. PICK n \in 1..Len(t) : k < n /\ t[n] = s[q]
              BY <5>1, <5>3, <6>2 DEF t
            <7>2. n \in 1..Len(g[l + 1]) /\ g[l + 1][n] = s[q]
              BY <7>1, <3>2, <3>3
            <7>q. QED
              BY <7>1, <7>2
          <6>q. QED
            BY <6>1, <6>2, <2>4
        <5>4. From(l + 1, k, p)
          BY <5>2, <5>3
        <5>5. p \in 1..(l + 1)
          OBVIOUS
        <5>q. QED
          <6> HIDE DEF From
          <6> QED BY <5>4, <5>5
      <4>q. QED
        BY <4>1, <4>2, <3>3
    <3>q. QED
      <4> HIDE DEF From
      <4> QED BY <3>2, <3>3, <3>4
  <2>6. CASE s[l + 1] \notin S
    <3>1. g[l + 1] = g[l]
      BY <2>3, <2>6
    <3>2. ASSUME NEW k \in 1..Len(g[l + 1])
          PROVE  \E p \in 1..(l + 1) : From(l + 1, k, p)
      <4>1. PICK p \in 1..l : From(l, k, p)
        <5> HIDE DEF From
        <5> QED BY <2>2, <3>1
      <4>2. From(l + 1, k, p)
        BY <4>1, <3>1, <2>4, <2>6
      <4>3. p \in 1..(l + 1)
        OBVIOUS
      <4>q. QED
        <5> HIDE DEF From
        <5> QED BY <4>2, <4>3
    <3>q. QED
      <4> HIDE DEF From
      <4> QED BY <2>2, <3>1, <3>2
  <2>q. QED
    BY <2>5, <2>6
<1>8. \A l \in Nat : l \in M
  <2> HIDE DEF M
  <2> QED BY <1>6, <1>7, NatSetInduction
<1>9. Good(N)
  <2> HIDE DEF Good
  <2> QED BY <1>1, <1>8
<1>10. DOMAIN g[N] = 1..Len(g[N])
  BY <1>9
<1>11. PICK p \in 1..N : From(N, m, p)
  <2> HIDE DEF From
  <2> QED BY <1>3, <1>9, <1>10
<1>q. QED
  BY <1>1, <1>3, <1>10, <1>11

\* A caller has what Return reads of it.
IsFrame(f) == {"box", "arc", "i", "total"} \subseteq DOMAIN f

\* A box of the tree that was locked came after the one above it, by the
\* input of it that is the arc between them: it is not visited again.
Walk ==
  LET k == loaded.app IN
  /\ \A m \in DOMAIN stack :
       /\ IsFrame(stack[m])
       /\ stack[m].arc = Trees[k][stack[m].box].out
       /\ stack[m].box \in loaded.locked
       /\ \A n \in DOMAIN stack : stack[n].box = stack[m].box => n = m
  /\ \A c \in loaded.locked \ {RootBox(k)} :
       /\ Above(k, c) \in loaded.locked
       /\ \A m \in DOMAIN stack : stack[m].box = Above(k, c) =>
            \E i \in 1..stack[m].i :
              /\ InputQueueIds[Above(k, c)][i] = Trees[k][c].out
              /\ i = stack[m].i => m < Len(stack)
  /\ spc = "visit" =>
       IF stack = <<>>
       THEN visit.box = RootBox(k) /\ visit.arc = AppV[k] /\ loaded.locked = {}
       ELSE LET top == stack[Len(stack)] IN
            /\ top.i <= Len(InputQueueIds[top.box])
            /\ visit.box = Trees[k][top.box].inputs[top.i]
            /\ visit.arc = InputQueueIds[top.box][top.i]

\* What traverse_LoadQueue pins for reading or for writing only.
Pinned(qe) ==
  /\ {"deq", "enq", "both"} \subseteq DOMAIN qe
  /\ IsSequence(qe.deq) /\ IsSequence(qe.enq) /\ IsSequence(qe.both)
  /\ \A i \in DOMAIN qe.deq : qe.deq[i].arc \notin Quiet
  /\ \A i \in DOMAIN qe.enq : qe.enq[i].arc \notin Quiet

\* Wherever a list comes by a box, it comes by the one above it later.
Upwards(qe) ==
  \A m \in DOMAIN qe.boxes : qe.boxes[m] # RootBox(qe.app) =>
    \E n \in DOMAIN qe.boxes : m < n /\ qe.boxes[n] = Above(qe.app, qe.boxes[m])

\* A caller goes on with its next input, or is done with them.
GoesUp(len) ==
  /\ DOMAIN stack' = 1..len /\ Len(stack') = len
  /\ 1..len \subseteq DOMAIN stack
  /\ \A m \in 1..len :
       /\ IsFrame(stack'[m])
       /\ stack'[m].box = stack[m].box /\ stack'[m].arc = stack[m].arc
       /\ stack'[m].i = IF m = len THEN stack[m].i + 1 ELSE stack[m].i
  /\ spc' = "visit" =>
       /\ len # 0
       /\ stack'[len].i <= Len(InputQueueIds[stack'[len].box])
       /\ visit'.box = Trees[loaded.app][stack'[len].box].inputs[stack'[len].i]
       /\ visit'.arc = InputQueueIds[stack'[len].box][stack'[len].i]

\* A call returns to frames, the callers that are left.
LEMMA ReturnGoesUp ==
  ASSUME NEW k \in Apps, loaded.app = k, NEW frames, Callers(frames, k),
         DOMAIN frames \subseteq DOMAIN stack,
         \A m \in DOMAIN frames : frames[m] = stack[m] /\ IsFrame(stack[m]),
         NEW n, Return(frames, n)
  PROVE  Len(frames) \in Nat /\ GoesUp(Len(frames))
<1>1. CASE frames = <<>>
  <2>1. stack' = <<>> /\ spc' # "visit"
    BY <1>1 DEF Return
  <2>2. DOMAIN <<>> = 1..0 /\ Len(<<>>) = 0 /\ 1..0 = {}
    OBVIOUS
  <2>q. QED
    BY <1>1, <2>1, <2>2 DEF GoesUp
<1>2. CASE frames # <<>>
  <2> DEFINE top == Last(frames)
             i == top.i + 1
             arcs == InputQueueIds[top.box]
             f == [top EXCEPT !.i = i, !.total = @ + n]
             s == Front(frames)
             L == Len(frames)
  <2>1. /\ stack' = s \o <<f>>
        /\ spc' = "visit" =>
             /\ i <= Len(arcs)
             /\ visit' = [box |-> Trees[k][top.box].inputs[i], arc |-> arcs[i]]
    BY <1>2 DEF Return
  <2>2. /\ IsSequence(s)
        /\ L \in Nat \ {0} /\ DOMAIN frames = 1..L
        /\ top = frames[L]
        /\ DOMAIN s = 1..(L - 1)
        /\ \A m \in DOMAIN s : s[m] = frames[m]
    BY <1>2, FrontIsSequence DEF Callers
  <2>3. top = stack[L] /\ IsFrame(top) /\ top.i \in Nat
    BY <2>2 DEF Callers
  <2>4. IsFrame(f) /\ f.box = top.box /\ f.arc = top.arc /\ f.i = i
    <3> HIDE DEF top
    <3> QED BY <2>3 DEF IsFrame
  <2>5. spc' = "visit" =>
          /\ f.i <= Len(InputQueueIds[f.box])
          /\ visit'.box = Trees[k][f.box].inputs[f.i]
          /\ visit'.arc = InputQueueIds[f.box][f.i]
    <3> HIDE DEF f, top
    <3> QED BY <2>1, <2>4
  <2>6. f.i = stack[L].i + 1 /\ f.box = stack[L].box /\ f.arc = stack[L].arc
    <3> HIDE DEF f
    <3> QED BY <2>3, <2>4
  <2> HIDE DEF f, top, i, s, L
  <2>7. stack' = Append(s, f)
    <3>1. s \in Seq({s[m] : m \in DOMAIN s})
      BY <2>2 DEF IsSequence
    <3>q. QED
      BY <2>1, <3>1
  <2>8. /\ DOMAIN stack' = 1..L /\ Len(stack') = L
        /\ \A m \in 1..(L - 1) : stack'[m] = stack[m]
        /\ stack'[L] = f
    <3>1. Len(s) \in Nat /\ DOMAIN s = 1..Len(s)
      BY <2>2, AppendIsSequence
    <3>2. Len(s) = L - 1
      BY <3>1, <2>2
    <3>3. /\ IsSequence(Append(s, f))
          /\ DOMAIN Append(s, f) = 1..(Len(s) + 1)
          /\ \A m \in DOMAIN s : Append(s, f)[m] = s[m]
          /\ Append(s, f)[Len(s) + 1] = f
      BY <2>2, AppendIsSequence
    <3>4. (L - 1) + 1 = L
      BY <2>2
    <3>5. DOMAIN stack' = 1..L /\ IsSequence(stack')
      BY <3>2, <3>3, <3>4, <2>7
    <3>6. Len(stack') \in Nat /\ DOMAIN stack' = 1..Len(stack')
      BY <3>5, AppendIsSequence
    <3>7. Len(stack') = L
      BY <3>5, <3>6, <2>2
    <3>8. \A m \in 1..(L - 1) : m \in 1..L /\ stack'[m] = frames[m]
      BY <3>2, <3>3, <2>2, <2>7
    <3>q. QED
      BY <3>2, <3>3, <3>4, <3>5, <3>7, <3>8, <2>2, <2>7
  <2>9. 1..L \subseteq DOMAIN stack
    BY <2>2
  <2>10. \A m \in 1..L : m \in 1..(L - 1) \/ m = L
    BY <2>2
  <2>11. \A m \in 1..L :
           /\ IsFrame(stack'[m])
           /\ stack'[m].box = stack[m].box /\ stack'[m].arc = stack[m].arc
           /\ stack'[m].i = IF m = L THEN stack[m].i + 1 ELSE stack[m].i
    <3> SUFFICES ASSUME NEW m \in 1..L
                 PROVE  /\ IsFrame(stack'[m])
                        /\ stack'[m].box = stack[m].box /\ stack'[m].arc = stack[m].arc
                        /\ stack'[m].i = IF m = L THEN stack[m].i + 1 ELSE stack[m].i
      OBVIOUS
    <3>1. CASE m = L
      BY <3>1, <2>8, <2>4, <2>6
    <3>2. CASE m \in 1..(L - 1)
      <4>1. m # L /\ stack'[m] = stack[m] /\ IsFrame(stack[m])
        BY <3>2, <2>2, <2>8
      <4>q. QED
        BY <4>1
    <3>q. QED
      BY <3>1, <3>2, <2>10
  <2>12. GoesUp(L)
    BY <2>2, <2>5, <2>8, <2>9, <2>11 DEF GoesUp
  <2>q. QED
    BY <2>2, <2>12 DEF L
<1>q. QED
  BY <1>1, <1>2

\* The walk goes on after a return.
LEMMA WalkGoesUp ==
  ASSUME Walk, NEW len \in Nat, GoesUp(len), Callers(stack, loaded.app),
         loaded'.app = loaded.app, loaded'.locked = loaded.locked
  PROVE  Walk'
<1> DEFINE k == loaded.app
<1>1. /\ Len(stack) \in Nat /\ DOMAIN stack = 1..Len(stack)
      /\ \A m \in DOMAIN stack : stack[m].i \in Nat \ {0}
  <2>1. IsSequence(stack)
    BY DEF Callers
  <2>q. QED
    BY <2>1, AppendIsSequence DEF Callers
<1>2. \A m \in DOMAIN stack' :
        /\ IsFrame(stack'[m])
        /\ stack'[m].arc = Trees[k][stack'[m].box].out
        /\ stack'[m].box \in loaded'.locked
        /\ \A n \in DOMAIN stack' : stack'[n].box = stack'[m].box => n = m
  BY DEF Walk, GoesUp
<1>3. ASSUME NEW c \in loaded'.locked \ {RootBox(k)}
      PROVE  /\ Above(k, c) \in loaded'.locked
             /\ \A m \in DOMAIN stack' : stack'[m].box = Above(k, c) =>
                  \E i \in 1..stack'[m].i :
                    /\ InputQueueIds[Above(k, c)][i] = Trees[k][c].out
                    /\ i = stack'[m].i => m < Len(stack')
  <2>1. Above(k, c) \in loaded'.locked
    BY DEF Walk
  <2>2. ASSUME NEW m \in DOMAIN stack', stack'[m].box = Above(k, c)
        PROVE  \E i \in 1..stack'[m].i :
                 /\ InputQueueIds[Above(k, c)][i] = Trees[k][c].out
                 /\ i = stack'[m].i => m < Len(stack')
    <3>1. /\ m \in 1..len /\ m \in DOMAIN stack /\ Len(stack') = len
          /\ stack[m].box = Above(k, c)
          /\ stack'[m].i = IF m = len THEN stack[m].i + 1 ELSE stack[m].i
      BY <2>2 DEF GoesUp
    <3>2. PICK i \in 1..stack[m].i :
            InputQueueIds[Above(k, c)][i] = Trees[k][c].out
      BY <3>1 DEF Walk
    <3>3. i \in 1..stack'[m].i /\ (i = stack'[m].i => m < len)
      BY <1>1, <3>1, <3>2
    <3>q. QED
      BY <3>1, <3>2, <3>3
  <2>q. QED
    BY <2>1, <2>2
<1>4. ASSUME spc' = "visit"
      PROVE  LET top == stack'[Len(stack')] IN
               /\ stack' # <<>>
               /\ top.i <= Len(InputQueueIds[top.box])
               /\ visit'.box = Trees[k][top.box].inputs[top.i]
               /\ visit'.arc = InputQueueIds[top.box][top.i]
  <2>1. Len(stack') = len /\ len # 0
    BY <1>4 DEF GoesUp
  <2>2. stack' # <<>>
    BY <2>1
  <2>q. QED
    BY <1>4, <2>1, <2>2 DEF GoesUp
<1>q. QED
  BY <1>2, <1>3, <1>4 DEF Walk

\* A visit is of the root, or of an input of the last caller.
LEMMA VisitFacts ==
  ASSUME Structure, Walk, spc = "visit"
  PROVE  /\ loaded.app \in Apps
         /\ visit.box # NoBox =>
              /\ visit.box \in InTree(loaded.app)
              /\ visit.arc = Trees[loaded.app][visit.box].out
              /\ visit.box \notin loaded.locked
         /\ stack # <<>> =>
              /\ visit.box # RootBox(loaded.app)
              /\ stack[Len(stack)].box \in InTree(loaded.app)
              /\ DestId[visit.arc] = stack[Len(stack)].box
              /\ visit.arc \in TreeArcs(loaded.app) => visit.box = SrcId[visit.arc]
         /\ stack = <<>> => visit.arc = AppV[loaded.app] /\ visit.box = RootBox(loaded.app)
<1> DEFINE k == loaded.app
           L == Len(stack)
           top == stack[L]
<1>1. k \in Apps /\ Callers(stack, k)
  BY InHand DEF Building
<1>2. RootBox(k) \in InTree(k) /\ InTree(k) \subseteq Boxes /\ NoBox \notin Boxes
  BY <1>1, TreeFacts, CatalogAssumption
<1>3. CASE stack = <<>>
  <2>1. visit.box = RootBox(k) /\ visit.arc = AppV[k] /\ loaded.locked = {}
    BY <1>3 DEF Walk
  <2>2. Trees[k][RootBox(k)].out = AppV[k]
    BY <1>1, TreesAssumption
  <2>q. QED
    BY <1>1, <1>2, <1>3, <2>1, <2>2
<1>4. CASE stack # <<>>
  <2>1. L \in Nat \ {0} /\ DOMAIN stack = 1..L
    BY <1>1, <1>4, FrontIsSequence DEF Callers
  <2>2. top.box \in InTree(k) /\ top.i \in Nat \ {0}
    BY <1>1, <2>1 DEF Callers
  <2>3. /\ top.i <= Len(InputQueueIds[top.box])
        /\ visit.box = Trees[k][top.box].inputs[top.i]
        /\ visit.arc = InputQueueIds[top.box][top.i]
    BY <1>4 DEF Walk
  <2> DEFINE b == top.box
             i == top.i
  <2>t. InputQueueIds[b] \in Seq(Arcs) /\ NoRepeat(InputQueueIds[b])
    BY <1>2, <2>2, CatalogAssumption
  <2> HIDE DEF b, i, top, L, k
  <2>4. b \in InTree(k) /\ i \in 1..Len(InputQueueIds[b])
    <3>1. Len(InputQueueIds[b]) \in Nat
      BY <2>t
    <3>q. QED
      BY <3>1, <2>2, <2>3 DEF b, i
  <2>5. /\ DestId[visit.arc] = b
        /\ visit.arc \in TreeArcs(k) => visit.box = SrcId[visit.arc]
        /\ visit.box # NoBox => /\ visit.box \in InTree(k) \ {RootBox(k)}
                                /\ visit.arc = Trees[k][visit.box].out
                                /\ Above(k, visit.box) = b
    BY <1>1, <2>3, <2>4, InputFacts DEF b, i
  <2>6. ASSUME visit.box # NoBox, visit.box \in loaded.locked
        PROVE  FALSE
    <3>1. visit.box \in loaded.locked \ {RootBox(k)}
      BY <2>5, <2>6
    <3>2. L \in DOMAIN stack /\ stack[L].box = Above(k, visit.box)
      BY <2>1, <2>5, <2>6 DEF b, top
    <3>3. PICK j \in 1..stack[L].i :
            /\ InputQueueIds[Above(k, visit.box)][j] = Trees[k][visit.box].out
            /\ j = stack[L].i => L < Len(stack)
      BY <3>1, <3>2 DEF Walk, k
    <3>4. j \in 1..i /\ InputQueueIds[b][j] = visit.arc /\ (j = i => L < L)
      BY <3>3, <2>5, <2>6 DEF i, top, L
    <3>5. InputQueueIds[b][i] = visit.arc
      BY <2>3 DEF b, i
    <3>6. j = i
      BY <3>4, <3>5, <2>4, <2>t DEF NoRepeat
    <3>q. QED
      BY <3>4, <3>6, <2>1
  <2>q. QED
    BY <1>1, <1>2, <1>4, <2>2, <2>5, <2>6 DEF b, k, top, L
<1>q. QED
  BY <1>3, <1>4

\* The walk goes on below a box.
LEMMA WalkVisitBox ==
  ASSUME Structure, Walk, VisitBox
  PROVE  Walk'
<1> DEFINE k == loaded.app
           L == Len(stack)
           b == visit.box
           f == [box |-> b, arc |-> visit.arc, i |-> 1, total |-> 0]
           top == stack[L]
<1>1. /\ spc = "visit" /\ b # NoBox
      /\ stack' = Append(stack, f)
      /\ visit' = [box |-> Trees[k][b].inputs[1], arc |-> InputQueueIds[b][1]]
  BY DEF VisitBox
<1>2. /\ k \in Apps
      /\ b \in InTree(k) /\ visit.arc = Trees[k][b].out /\ b \notin loaded.locked
      /\ stack # <<>> => b # RootBox(k) /\ DestId[visit.arc] = top.box
      /\ stack = <<>> => b = RootBox(k)
  BY <1>1, VisitFacts
<1>3. /\ loaded'.app = k /\ loaded'.locked = loaded.locked \cup {b}
      /\ DOMAIN stack = 1..L /\ L \in Nat
      /\ DOMAIN stack' = 1..(L + 1)
      /\ \A m \in 1..L : stack'[m] = stack[m]
  BY VisitBoxEffect DEF GoesOn
<1>4. IsSequence(stack)
  BY <1>1, InHand DEF Building, Callers
<1>5. f.box = b /\ f.arc = visit.arc /\ f.i = 1 /\ IsFrame(f)
  BY DEF IsFrame
<1>6. 1 <= Len(InputQueueIds[b])
  BY <1>2, TreeFacts
<1>7. L > 0 => /\ stack # <<>> /\ top.i \in Nat \ {0} /\ top.box \in loaded.locked
               /\ visit.arc = InputQueueIds[top.box][top.i]
  <2>1. ASSUME L > 0 PROVE stack # <<>> /\ L \in DOMAIN stack
    BY <1>3, <2>1
  <2>q. QED
    BY <1>1, <2>1, InHand DEF Walk, Building, Callers
<1>8. L = 0 => stack = <<>>
  BY <1>3, <1>4 DEF IsSequence
<1> HIDE DEF f, b, k, top, L
<1>9. stack'[L + 1] = f /\ Len(stack') = L + 1
  <2>1. Append(stack, f)[Len(stack) + 1] = f /\ IsSequence(stack')
    BY <1>1, <1>4, AppendIsSequence
  <2>2. Len(stack') \in Nat /\ DOMAIN stack' = 1..Len(stack')
    BY <2>1, AppendIsSequence
  <2>3. Len(stack') = L + 1
    BY <1>3, <2>2
  <2>q. QED
    BY <1>1, <2>1, <2>3 DEF L
<1>10. \A m \in 1..(L + 1) : m \in 1..L \/ m = L + 1
  BY <1>3
<1>11. \A m \in 1..L : stack[m].box # b
  BY <1>2, <1>3 DEF Walk
<1>12. ASSUME NEW m \in 1..(L + 1)
       PROVE  /\ IsFrame(stack'[m])
              /\ stack'[m].arc = Trees[k][stack'[m].box].out
              /\ stack'[m].box \in loaded'.locked
              /\ \A n \in 1..(L + 1) : stack'[n].box = stack'[m].box => n = m
  <2>1. CASE m \in 1..L
    <3>1. /\ IsFrame(stack[m])
          /\ stack[m].arc = Trees[k][stack[m].box].out
          /\ stack[m].box \in loaded.locked
          /\ \A n \in 1..L : stack[n].box = stack[m].box => n = m
      BY <1>3, <2>1 DEF Walk, k
    <3>q. QED
      BY <1>3, <1>5, <1>9, <1>10, <1>11, <2>1, <3>1
  <2>2. CASE m = L + 1
    BY <1>2, <1>3, <1>5, <1>9, <1>10, <1>11, <2>2
  <2>q. QED
    BY <1>10, <2>1, <2>2
<1>13. ASSUME NEW c \in loaded'.locked \ {RootBox(k)}
       PROVE  /\ Above(k, c) \in loaded'.locked
              /\ \A m \in 1..(L + 1) : stack'[m].box = Above(k, c) =>
                   \E i \in 1..stack'[m].i :
                     /\ InputQueueIds[Above(k, c)][i] = Trees[k][c].out
                     /\ i = stack'[m].i => m < Len(stack')
  <2>1. CASE c = b
    <3>1. stack # <<>>
      BY <1>2, <1>13, <2>1
    <3>2. L > 0
      BY <1>3, <1>8, <3>1
    <3>3. /\ Above(k, c) = top.box /\ top.box \in loaded.locked
          /\ top.i \in Nat \ {0} /\ Trees[k][c].out = InputQueueIds[top.box][top.i]
      BY <1>2, <1>7, <2>1, <3>1, <3>2 DEF Above
    <3>4. ASSUME NEW m \in 1..(L + 1), stack'[m].box = Above(k, c)
          PROVE  \E i \in 1..stack'[m].i :
                   /\ InputQueueIds[Above(k, c)][i] = Trees[k][c].out
                   /\ i = stack'[m].i => m < Len(stack')
      <4>1. m # L + 1
        BY <1>2, <1>5, <1>9, <3>3, <3>4
      <4>2. m \in 1..L /\ stack[m].box = stack[L].box /\ L \in 1..L
        BY <1>3, <1>10, <3>2, <3>3, <3>4, <4>1 DEF top
      <4>3. m = L
        BY <1>3, <4>2 DEF Walk
      <4>4. stack'[m].i = top.i /\ m < Len(stack') /\ top.i \in 1..top.i
        BY <1>3, <1>9, <3>3, <4>2, <4>3 DEF top
      <4>q. QED
        BY <3>3, <4>4
    <3>q. QED
      BY <1>3, <3>3, <3>4
  <2>2. CASE c \in loaded.locked
    <3>1. Above(k, c) \in loaded.locked
      BY <1>13, <2>2 DEF Walk, k
    <3>2. ASSUME NEW m \in 1..(L + 1), stack'[m].box = Above(k, c)
          PROVE  \E i \in 1..stack'[m].i :
                   /\ InputQueueIds[Above(k, c)][i] = Trees[k][c].out
                   /\ i = stack'[m].i => m < Len(stack')
      <4>1. m \in 1..L
        BY <1>2, <1>5, <1>9, <1>10, <3>1, <3>2
      <4>2. stack[m].box = Above(k, c) /\ stack'[m] = stack[m]
        BY <1>3, <3>2, <4>1
      <4>3. \E i \in 1..stack[m].i : InputQueueIds[Above(k, c)][i] = Trees[k][c].out
        BY <1>3, <1>13, <2>2, <4>1, <4>2 DEF Walk, k
      <4>4. m < Len(stack')
        BY <1>3, <1>9, <4>1
      <4>q. QED
        BY <4>2, <4>3, <4>4
    <3>q. QED
      BY <1>3, <3>1, <3>2
  <2>q. QED
    BY <1>3, <2>1, <2>2
<1>14. /\ stack' # <<>> /\ stack'[Len(stack')].i <= Len(InputQueueIds[stack'[Len(stack')].box])
       /\ visit'.box = Trees[k][stack'[Len(stack')].box].inputs[stack'[Len(stack')].i]
       /\ visit'.arc = InputQueueIds[stack'[Len(stack')].box][stack'[Len(stack')].i]
  <2>1. visit'.box = Trees[k][b].inputs[1] /\ visit'.arc = InputQueueIds[b][1]
    BY <1>1
  <2>2. stack' # <<>>
    BY <1>1, <1>4, AppendIsSequence
  <2>q. QED
    BY <1>5, <1>6, <1>9, <2>1, <2>2
<1>15. /\ \A m \in DOMAIN stack' :
            /\ IsFrame(stack'[m])
            /\ stack'[m].arc = Trees[loaded'.app][stack'[m].box].out
            /\ stack'[m].box \in loaded'.locked
            /\ \A n \in DOMAIN stack' : stack'[n].box = stack'[m].box => n = m
       /\ \A c \in loaded'.locked \ {RootBox(loaded'.app)} :
            /\ Above(loaded'.app, c) \in loaded'.locked
            /\ \A m \in DOMAIN stack' : stack'[m].box = Above(loaded'.app, c) =>
                 \E i \in 1..stack'[m].i :
                   /\ InputQueueIds[Above(loaded'.app, c)][i] = Trees[loaded'.app][c].out
                   /\ i = stack'[m].i => m < Len(stack')
  BY <1>3, <1>12, <1>13
<1>16. LET top1 == stack'[Len(stack')] IN
       /\ stack' # <<>>
       /\ top1.i <= Len(InputQueueIds[top1.box])
       /\ visit'.box = Trees[loaded'.app][top1.box].inputs[top1.i]
       /\ visit'.arc = InputQueueIds[top1.box][top1.i]
  BY <1>3, <1>14
<1>q. QED
  BY <1>15, <1>16 DEF Walk

\* One sequence after the other.
LEMMA ConcatIsSequence ==
  ASSUME NEW s, IsSequence(s), NEW t, IsSequence(t)
  PROVE  /\ IsSequence(s \o t)
         /\ Len(s) \in Nat /\ Len(t) \in Nat
         /\ DOMAIN s = 1..Len(s) /\ DOMAIN t = 1..Len(t)
         /\ DOMAIN (s \o t) = 1..(Len(s) + Len(t))
         /\ Len(s \o t) = Len(s) + Len(t)
         /\ \A i \in DOMAIN s : (s \o t)[i] = s[i]
         /\ \A i \in DOMAIN (s \o t) :
              i \in DOMAIN s \/ (i - Len(s) \in DOMAIN t /\ (s \o t)[i] = t[i - Len(s)])
<1> DEFINE T == {s[i] : i \in DOMAIN s} \cup {t[i] : i \in DOMAIN t}
<1>1. /\ {s[i] : i \in DOMAIN s} \subseteq T
      /\ {t[i] : i \in DOMAIN t} \subseteq T
  OBVIOUS
<1>2. /\ s \in Seq({s[i] : i \in DOMAIN s})
      /\ t \in Seq({t[i] : i \in DOMAIN t})
  BY DEF IsSequence
<1> HIDE DEF T
<1>3. s \in Seq(T) /\ t \in Seq(T)
  BY <1>1, <1>2
<1>4. /\ s \o t \in Seq(T)
      /\ Len(s \o t) = Len(s) + Len(t)
      /\ \A i \in 1..(Len(s) + Len(t)) :
           (s \o t)[i] = IF i <= Len(s) THEN s[i] ELSE t[i - Len(s)]
  BY <1>3, ConcatProperties
<1>5. IsSequence(s \o t)
  BY <1>4, SeqIsSequence
<1>6. /\ Len(s) \in Nat /\ Len(t) \in Nat
      /\ DOMAIN s = 1..Len(s) /\ DOMAIN t = 1..Len(t)
  BY <1>3
<1>7. DOMAIN (s \o t) = 1..(Len(s) + Len(t))
  BY <1>4, <1>6
<1>8. \A i \in 1..Len(s) : i \in 1..(Len(s) + Len(t)) /\ i <= Len(s)
  BY <1>6
<1>9. \A i \in 1..(Len(s) + Len(t)) : ~(i \in 1..Len(s)) =>
        ~(i <= Len(s)) /\ i - Len(s) \in 1..Len(t)
  BY <1>6
<1> DEFINE u == s \o t
<1>10. /\ Len(u) = Len(s) + Len(t) /\ DOMAIN u = 1..(Len(s) + Len(t)) /\ IsSequence(u)
       /\ \A i \in 1..(Len(s) + Len(t)) : u[i] = IF i <= Len(s) THEN s[i] ELSE t[i - Len(s)]
  BY <1>4, <1>5, <1>7
<1> HIDE DEF u
<1>11. \A i \in DOMAIN s : u[i] = s[i]
  BY <1>6, <1>8, <1>10
<1>12. \A i \in DOMAIN u : i \in DOMAIN s \/ (i - Len(s) \in DOMAIN t /\ u[i] = t[i - Len(s)])
  <2> SUFFICES ASSUME NEW i \in 1..(Len(s) + Len(t)), i \notin 1..Len(s)
               PROVE  i - Len(s) \in 1..Len(t) /\ u[i] = t[i - Len(s)]
    BY <1>6, <1>10
  <2>1. i - Len(s) \in 1..Len(t) /\ ~(i <= Len(s))
    BY <1>9
  <2>q. QED
    BY <1>10, <2>1
<1>13. /\ IsSequence(u)
       /\ Len(s) \in Nat /\ Len(t) \in Nat
       /\ DOMAIN s = 1..Len(s) /\ DOMAIN t = 1..Len(t)
       /\ DOMAIN u = 1..(Len(s) + Len(t))
       /\ Len(u) = Len(s) + Len(t)
       /\ \A i \in DOMAIN s : u[i] = s[i]
       /\ \A i \in DOMAIN u : i \in DOMAIN s \/ (i - Len(s) \in DOMAIN t /\ u[i] = t[i - Len(s)])
  BY <1>6, <1>10, <1>11, <1>12
<1>q. QED
  BY <1>13, Zenon DEF u

\* The elements, wherever they are.
Lists ==
  /\ loaded # NoQE => Pinned(loaded) /\ Walk
  /\ spc = "push" => Upwards(loaded)
  /\ \A i \in DOMAIN beq : Pinned(beq[i]) /\ Upwards(beq[i])
  /\ \A w \in Busy : Pinned(wqe[w]) /\ Upwards(wqe[w])

\* A visited arc that ends at a leaf is not a quiet one: the box on its other
\* side would be locked, by nobody.
LEMMA LeafNotQuiet ==
  ASSUME HoldingInv, Walk, spc = "visit", visit.box = NoBox \/ visit.box \in boxLocked
  PROVE  visit.arc \notin Quiet
<1> DEFINE k == loaded.app
           c == visit.box
           a == visit.arc
<1>1. /\ k \in Apps /\ loaded # NoQE
      /\ c # NoBox => c \in InTree(k) /\ c \notin loaded.locked
      /\ stack # <<>> => /\ stack[Len(stack)].box \in InTree(k)
                         /\ DestId[a] = stack[Len(stack)].box
                         /\ a \in TreeArcs(k) => c = SrcId[a]
      /\ stack = <<>> => a = AppV[k]
  BY VisitFacts, InHand DEF HoldingInv, Building
<1> SUFFICES ASSUME a \in Quiet PROVE FALSE
  OBVIOUS
<1>2. /\ a \notin AppArcs /\ SrcId[a] \in Boxes
      /\ \A j \in Apps : DestId[a] \in InTree(j) => j \in Unshared /\ a \in TreeArcs(j)
  BY QuietArc
<1>3. stack # <<>>
  BY <1>1, <1>2, ApplicationsAssumption
<1>4. k \in Unshared /\ c = SrcId[a] /\ c # NoBox
  <2>1. DestId[a] \in InTree(k)
    BY <1>1, <1>3
  <2>2. k \in Unshared /\ a \in TreeArcs(k)
    BY <1>1, <1>2, <2>1
  <2>q. QED
    BY <1>1, <1>2, <1>3, <2>2, CatalogAssumption
<1>5. c \in InTree(k) /\ c \notin loaded.locked /\ c \in boxLocked /\ c \in Boxes
  BY <1>1, <1>2, <1>4
<1>6. c \notin SharedBoxes
  BY <1>1, <1>4, <1>5 DEF SharedBoxes, Unshared
<1>7. c \notin strayed
  BY <1>6 DEF HoldingInv, SuperboxExclusion
<1>8. PICK j \in Apps : Holds(j, c)
  BY <1>5, <1>7 DEF HoldingInv, SuperboxExclusion, OneHolder
<1>9. c \in InTree(j)
  BY <1>8, HeldInTree DEF HoldingInv
<1>10. j = k
  BY <1>1, <1>4, <1>5, <1>9 DEF Unshared
<1>11. c \in Locked(loaded)
  BY <1>1, <1>8, <1>10, SchedulerHolds DEF HoldingInv, SuperboxExclusion
<1>q. QED
  BY <1>5, <1>11 DEF Locked

\* The pins of an arc at which a visit ends.
LEMMA VisitArcPins ==
  ASSUME HoldingInv, Walk, Pinned(loaded), VisitArc
  PROVE  Pinned(loaded')
<1> DEFINE e == [arc |-> visit.arc, n |-> numRecords[visit.arc]]
<1>1. /\ spc = "visit" /\ (visit.box = NoBox \/ visit.box \in boxLocked)
      /\ loaded' = [loaded EXCEPT !.deq = Append(@, e)]
  BY DEF VisitArc
<1>2. visit.arc \notin Quiet
  BY <1>1, LeafNotQuiet
<1>3. e.arc \notin Quiet
  BY <1>2
<1> HIDE DEF e
<1>4. /\ DOMAIN loaded' = DOMAIN loaded
      /\ loaded'.deq = Append(loaded.deq, e)
      /\ loaded'.enq = loaded.enq /\ loaded'.both = loaded.both
  BY <1>1 DEF Pinned
<1>5. /\ IsSequence(Append(loaded.deq, e))
      /\ DOMAIN loaded.deq = 1..Len(loaded.deq) /\ Len(loaded.deq) \in Nat
      /\ DOMAIN Append(loaded.deq, e) = 1..(Len(loaded.deq) + 1)
      /\ \A i \in DOMAIN loaded.deq : Append(loaded.deq, e)[i] = loaded.deq[i]
      /\ Append(loaded.deq, e)[Len(loaded.deq) + 1] = e
  BY AppendIsSequence DEF Pinned
<1>6. \A i \in 1..(Len(loaded.deq) + 1) : i \in 1..Len(loaded.deq) \/ i = Len(loaded.deq) + 1
  BY <1>5
<1>7. \A i \in DOMAIN loaded'.deq : loaded'.deq[i].arc \notin Quiet
  BY <1>3, <1>4, <1>5, <1>6 DEF Pinned
<1>q. QED
  BY <1>4, <1>5, <1>7 DEF Pinned

\* The pins of a box that has input: no arc of the tree among those for
\* writing only.
LEMMA PinOutputsPins ==
  ASSUME Structure, Walk, Pinned(loaded), PinOutputs
  PROVE  Pinned(loaded')
<1> DEFINE k == loaded.app
           top == Last(stack)
           arcs == OutputQueueIds[top.box]
           other == KeptOf(arcs, Arcs \ {top.arc})
           mine == <<Pin(top.arc, top.total)>>
           root == top.box = RootBox(k)
           more == [i \in DOMAIN other |-> Pin(other[i], top.total)]
           enq1 == IF root THEN mine ELSE <<>>
           both1 == IF root THEN <<>> ELSE mine
<1>1. /\ spc = "finish"
      /\ loaded' = [loaded EXCEPT !.enq  = loaded.enq \o enq1 \o more, !.both = loaded.both \o both1]
  BY DEF PinOutputs
<1>2. k \in Apps /\ Callers(stack, k) /\ stack # <<>>
  BY <1>1, InHand DEF Building, Structure, SchedulerPlace
<1>3. Len(stack) \in DOMAIN stack /\ top = stack[Len(stack)]
  BY <1>1, LastCaller
<1>4. top.box \in InTree(k) /\ top.arc = Trees[k][top.box].out
  BY <1>2, <1>3 DEF Callers, Walk
<1>5. top.box \in Boxes
  BY <1>2, <1>4, TreeFacts
<1>6. root => top.arc \notin Quiet
  <2>1. ASSUME root PROVE top.arc = AppV[k]
    BY <1>2, <1>4, <2>1, TreesAssumption
  <2>2. AppV[k] \in AppArcs
    BY <1>2, ApplicationsAssumption
  <2>q. QED
    BY <2>1, <2>2, QuietArc
<1>7. arcs \in Seq(Arcs)
  BY <1>5, CatalogAssumption
<1>8. other \in Seq(Arcs) /\ Entries(other) = Entries(arcs) \cap (Arcs \ {top.arc})
  <2> HIDE DEF arcs, top
  <2> QED BY <1>7, KeptOfProperties
<1>9. ASSUME NEW i \in DOMAIN other
      PROVE  other[i] \notin Quiet
  <2>1. other[i] \in Entries(arcs) /\ other[i] # top.arc
    BY <1>8 DEF Entries
  <2>2. DOMAIN arcs = 1..Len(arcs)
    <3> HIDE DEF arcs
    <3> QED BY <1>7
  <2>3. other[i] \in OutArcs(top.box)
    BY <2>1, <2>2 DEF Entries, OutArcs
  <2>4. SrcId[other[i]] = top.box
    BY <1>5, <2>3, CatalogAssumption
  <2> HIDE DEF other, top
  <2>q. QED
    BY <1>2, <1>4, <2>1, <2>4, QuietArc
<1>10. /\ DOMAIN other = 1..Len(other) /\ Len(other) \in Nat
  <2> HIDE DEF other
  <2> QED BY <1>8
<1>11. IsSequence(more) /\ \A i \in DOMAIN more : more[i].arc \notin Quiet
  <2>1. \A i \in DOMAIN other : Pin(other[i], top.total).arc = other[i]
    BY DEF Pin
  <2> DEFINE P(i) == Pin(other[i], top.total)
             N == Len(other)
             T == {P(i) : i \in 1..N}
  <2>2. more = [i \in 1..N |-> P(i)] /\ DOMAIN more = DOMAIN other
    BY <1>10
  <2>3. \A i \in DOMAIN more : more[i].arc = other[i]
    BY <2>1
  <2>4. N \in Nat
    BY <1>10
  <2>5. more \in Seq(T)
    <3> HIDE DEF P, N, more
    <3>1. more \in [1..N -> T]
      BY <2>2
    <3>q. QED
      BY <3>1, <2>4, SeqDef
  <2>6. IsSequence(more)
    <3> HIDE DEF more, T
    <3> QED BY <2>5, SeqIsSequence
  <2>q. QED
    BY <1>9, <2>2, <2>3, <2>6
<1>12. IsSequence(mine) /\ DOMAIN mine = {1} /\ mine[1].arc = top.arc
  <2>1. mine \in Seq({Pin(top.arc, top.total)}) /\ DOMAIN mine = {1}
    OBVIOUS
  <2>2. IsSequence(mine)
    <3> HIDE DEF mine
    <3> QED BY <2>1, SeqIsSequence
  <2>q. QED
    BY <2>1, <2>2 DEF Pin
<1>13. IsSequence(<<>>) /\ DOMAIN <<>> = {}
  BY DEF IsSequence
<1>14. /\ IsSequence(enq1) /\ IsSequence(both1)
       /\ \A i \in DOMAIN enq1 : enq1[i].arc \notin Quiet
  <2> HIDE DEF mine, root
  <2> QED BY <1>6, <1>12, <1>13
<1> HIDE DEF enq1, both1, more
<1>15. /\ IsSequence(loaded.both \o both1)
       /\ IsSequence(loaded.enq \o enq1)
       /\ \A i \in DOMAIN (loaded.enq \o enq1) : (loaded.enq \o enq1)[i].arc \notin Quiet
  <2>1. IsSequence(loaded.both) /\ IsSequence(loaded.enq)
    BY DEF Pinned
  <2>2. IsSequence(loaded.both \o both1)
    BY <1>14, <2>1, ConcatIsSequence
  <2> DEFINE s == loaded.enq
  <2>3. IsSequence(s) /\ \A i \in DOMAIN s : s[i].arc \notin Quiet
    BY DEF Pinned
  <2> HIDE DEF s
  <2>4. /\ IsSequence(s \o enq1)
        /\ \A i \in DOMAIN s : (s \o enq1)[i] = s[i]
        /\ \A i \in DOMAIN (s \o enq1) :
             i \in DOMAIN s \/ (i - Len(s) \in DOMAIN enq1 /\ (s \o enq1)[i] = enq1[i - Len(s)])
    BY <1>14, <2>3, ConcatIsSequence
  <2>5. \A i \in DOMAIN (s \o enq1) : (s \o enq1)[i].arc \notin Quiet
    BY <1>14, <2>3, <2>4, Zenon
  <2>q. QED
    BY <2>2, <2>4, <2>5 DEF s
<1>16. /\ IsSequence((loaded.enq \o enq1) \o more)
       /\ \A i \in DOMAIN ((loaded.enq \o enq1) \o more) :
            ((loaded.enq \o enq1) \o more)[i].arc \notin Quiet
  <2> DEFINE s == loaded.enq \o enq1
  <2>3. IsSequence(s) /\ \A i \in DOMAIN s : s[i].arc \notin Quiet
    BY <1>15
  <2> HIDE DEF s
  <2>4. /\ IsSequence(s \o more)
        /\ \A i \in DOMAIN s : (s \o more)[i] = s[i]
        /\ \A i \in DOMAIN (s \o more) :
             i \in DOMAIN s \/ (i - Len(s) \in DOMAIN more /\ (s \o more)[i] = more[i - Len(s)])
    BY <1>11, <2>3, ConcatIsSequence
  <2>5. \A i \in DOMAIN (s \o more) : (s \o more)[i].arc \notin Quiet
    BY <1>11, <2>3, <2>4, Zenon
  <2>q. QED
    BY <2>4, <2>5 DEF s
<1> DEFINE E == (loaded.enq \o enq1) \o more
           B == loaded.both \o both1
<1>17. loaded' = [loaded EXCEPT !.enq = E, !.both = B]
  BY <1>1
<1>18. IsSequence(E) /\ IsSequence(B) /\ \A i \in DOMAIN E : E[i].arc \notin Quiet
  BY <1>15, <1>16
<1> HIDE DEF E, B
<1>19. /\ DOMAIN loaded' = DOMAIN loaded
       /\ loaded'.enq = E /\ loaded'.both = B /\ loaded'.deq = loaded.deq
  BY <1>17 DEF Pinned
<1>q. QED
  BY <1>18, <1>19 DEF Pinned

\* The list of the superbox goes upwards, as the traversal does.
LEMMA CreateBoxListUpwards ==
  ASSUME Structure, Walk, CreateBoxList
  PROVE  Upwards(loaded')
<1> DEFINE k == loaded.app
           s == traversal[k]
           list == KeptOf(s, loaded.locked)
<1>1. spc = "list" /\ loaded' = [loaded EXCEPT !.boxes = list]
  BY DEF CreateBoxList
<1>2. /\ k \in Apps /\ loaded.locked \subseteq InTree(k)
      /\ {"app", "boxes"} \subseteq DOMAIN loaded
  BY <1>1, InHand DEF Building, IsElement
<1>3. s \in Traversals[traversalType][k] /\ traversalType \in TraversalTypes
  BY <1>2 DEF Structure, Plans
<1>4. s \in Seq(Boxes)
  BY <1>2, <1>3, ApplicationsAssumption
<1>5. \A p \in DOMAIN s : s[p] # RootBox(k) =>
        \E q \in DOMAIN s : p < q /\ s[q] = Above(k, s[p])
  BY <1>2, <1>3, TreesAssumption DEF Above
<1>6. Entries(list) = Entries(s) \cap loaded.locked
  <2> HIDE DEF s
  <2> QED BY <1>4, KeptOfProperties
<1>7. ASSUME NEW m \in DOMAIN list, list[m] # RootBox(k)
      PROVE  \E n \in DOMAIN list : m < n /\ list[n] = Above(k, list[m])
  <2>1. PICK p \in DOMAIN s :
          /\ s[p] = list[m]
          /\ \A q \in DOMAIN s : p < q /\ s[q] \in loaded.locked =>
               \E n \in DOMAIN list : m < n /\ list[n] = s[q]
    <3> HIDE DEF s
    <3> QED BY <1>4, KeptOfOrder
  <2>2. PICK q \in DOMAIN s : p < q /\ s[q] = Above(k, list[m])
    BY <1>5, <1>7, <2>1
  <2>3. list[m] \in loaded.locked
    BY <1>6 DEF Entries
  <2>4. Above(k, list[m]) \in loaded.locked
    BY <1>7, <2>3 DEF Walk
  <2>q. QED
    BY <2>1, <2>2, <2>4
<1> HIDE DEF list
<1>8. loaded'.boxes = list /\ loaded'.app = k
  BY <1>1, <1>2
<1>q. QED
  BY <1>7, <1>8 DEF Upwards

\* What becomes of the walk while an element is built, action by action.
LEMMA WalkKept ==
  ASSUME Structure, Walk, VisitArc \/ GiveBack \/ PinOutputs
  PROVE  Walk'
<1>1. /\ spc \in {"visit", "finish"}
      /\ loaded.app \in Apps /\ Callers(stack, loaded.app)
  BY InHand DEF Building, VisitArc, GiveBack, PinOutputs
<1>2. loaded'.app = loaded.app /\ loaded'.locked = loaded.locked
  BY VisitArcEffect, GiveBackEffect, PinOutputsEffect DEF GoesOn, Keeps
<1>3. \A m \in DOMAIN stack : IsFrame(stack[m])
  BY DEF Walk
<1>4. \E len \in Nat : GoesUp(len)
  <2>1. CASE VisitArc
    <3>1. Return(stack, numRecords[visit.arc])
      BY <2>1 DEF VisitArc
    <3>2. Len(stack) \in Nat /\ GoesUp(Len(stack))
      BY <1>1, <1>3, <3>1, ReturnGoesUp
    <3>q. QED
      BY <3>2
  <2>2. CASE GiveBack \/ PinOutputs
    <3>1. spc = "finish" /\ \E n : Return(Front(stack), n)
      BY <2>2 DEF GiveBack, PinOutputs
    <3>2. PICK n : Return(Front(stack), n)
      BY <3>1
    <3>3. /\ Callers(Front(stack), loaded.app)
          /\ DOMAIN Front(stack) \subseteq DOMAIN stack
          /\ \A m \in DOMAIN Front(stack) : Front(stack)[m] = stack[m]
      <4>1. /\ Callers(Front(stack), loaded.app)
            /\ Len(stack) \in Nat \ {0} /\ DOMAIN stack = 1..Len(stack)
            /\ DOMAIN Front(stack) = 1..(Len(stack) - 1)
            /\ \A m \in DOMAIN Front(stack) : Front(stack)[m] = stack[m]
        BY <3>1, LastCaller
      <4>q. QED
        BY <4>1
    <3>4. Len(Front(stack)) \in Nat /\ GoesUp(Len(Front(stack)))
      <4> DEFINE frames == Front(stack)
      <4>1. /\ Callers(frames, loaded.app)
            /\ DOMAIN frames \subseteq DOMAIN stack
            /\ \A m \in DOMAIN frames : frames[m] = stack[m] /\ IsFrame(stack[m])
            /\ Return(frames, n)
        BY <1>3, <3>2, <3>3
      <4> HIDE DEF frames
      <4>2. Len(frames) \in Nat /\ GoesUp(Len(frames))
        BY <1>1, <4>1, ReturnGoesUp
      <4>q. QED
        BY <4>2 DEF frames
    <3>q. QED
      BY <3>4
  <2>q. QED
    BY <2>1, <2>2
<1>q. QED
  BY <1>1, <1>2, <1>4, WalkGoesUp

\* A superbox starts without pins, at the root of its tree.
LEMMA StartsLists ==
  ASSUME Structure, NEW k \in Apps, Starts(k)
  PROVE  Pinned(loaded') /\ Walk'
<1>1. /\ loaded' = NewElement(k) /\ stack' = <<>>
      /\ visit' = [box |-> RootBox(k), arc |-> AppV[k]]
  BY StartsEffect DEF Starts
<1>2. /\ loaded'.app = k /\ loaded'.locked = {}
      /\ {"deq", "enq", "both"} \subseteq DOMAIN loaded'
      /\ loaded'.deq = <<>> /\ loaded'.enq = <<>> /\ loaded'.both = <<>>
  BY <1>1 DEF NewElement
<1>3. IsSequence(<<>>) /\ DOMAIN <<>> = {}
  BY DEF IsSequence
<1>4. Pinned(loaded')
  BY <1>2, <1>3 DEF Pinned
<1>5. visit'.box = RootBox(k) /\ visit'.arc = AppV[k]
  BY <1>1
<1>6. Walk'
  BY <1>1, <1>2, <1>3, <1>5 DEF Walk
<1>q. QED
  BY <1>4, <1>6

\* The scheduler's element, when it goes on with it.
LEMMA GoesOnLists ==
  ASSUME HoldingInv, Lists, loaded # NoQE,
         VisitArc \/ VisitBox \/ GiveBack \/ PinOutputs \/ CreateBoxList
  PROVE  Pinned(loaded') /\ Walk' /\ (spc' = "push" => Upwards(loaded'))
<1>1. Structure /\ Walk /\ Pinned(loaded) /\ {"deq", "enq", "both"} \subseteq DOMAIN loaded
  BY DEF HoldingInv, Lists, Pinned
<1>2. CASE VisitArc
  <2>1. Return(stack, numRecords[visit.arc])
    BY <1>2 DEF VisitArc
  <2>2. spc' # "push"
    BY <2>1 DEF Return
  <2>q. QED
    BY <1>1, <1>2, <2>2, WalkKept, VisitArcPins
<1>3. CASE VisitBox
  <2>1. /\ loaded' = [loaded EXCEPT !.locked = @ \cup {visit.box}, !.unfed = @ \ {visit.box}]
        /\ spc' = "visit"
    BY <1>3 DEF VisitBox, searchVars
  <2>2. /\ DOMAIN loaded' = DOMAIN loaded /\ loaded'.deq = loaded.deq
        /\ loaded'.enq = loaded.enq /\ loaded'.both = loaded.both
    BY <1>1, <2>1
  <2>3. Pinned(loaded')
    BY <1>1, <2>2 DEF Pinned
  <2>q. QED
    BY <1>1, <1>3, <2>1, <2>3, WalkVisitBox
<1>4. CASE GiveBack
  <2>1. Return(Front(stack), 0) /\ loaded' = [loaded EXCEPT !.unfed = @ \cup {Last(stack).box}]
    BY <1>4 DEF GiveBack
  <2>2. spc' # "push"
    BY <2>1 DEF Return
  <2>3. /\ DOMAIN loaded' = DOMAIN loaded /\ loaded'.deq = loaded.deq
        /\ loaded'.enq = loaded.enq /\ loaded'.both = loaded.both
    BY <1>1, <2>1
  <2>4. Pinned(loaded')
    BY <1>1, <2>3 DEF Pinned
  <2>q. QED
    BY <1>1, <1>4, <2>2, <2>4, WalkKept
<1>5. CASE PinOutputs
  <2>1. Return(Front(stack), Last(stack).total + numRecords[Last(stack).arc])
    BY <1>5 DEF PinOutputs
  <2>2. spc' # "push"
    BY <2>1 DEF Return
  <2>q. QED
    BY <1>1, <1>5, <2>2, WalkKept, PinOutputsPins
<1>6. CASE CreateBoxList
  <2>1. \E list : loaded' = [loaded EXCEPT !.boxes = list]
    BY <1>6 DEF CreateBoxList
  <2>2. spc' # "visit" /\ stack' = stack
    BY <1>6 DEF CreateBoxList
  <2>3. /\ DOMAIN loaded' = DOMAIN loaded /\ loaded'.deq = loaded.deq
        /\ loaded'.enq = loaded.enq /\ loaded'.both = loaded.both
    BY <1>1, <2>1
  <2>4. Pinned(loaded')
    BY <1>1, <2>3 DEF Pinned
  <2>5. loaded'.app = loaded.app /\ loaded'.locked = loaded.locked
    BY <1>1, <1>6, CreateBoxListEffect DEF GoesOn, Keeps
  <2>6. Walk'
    BY <1>1, <2>2, <2>5 DEF Walk
  <2>q. QED
    BY <1>1, <1>6, <2>4, <2>6, CreateBoxListUpwards
<1>q. QED
  BY <1>2, <1>3, <1>4, <1>5, <1>6

\* A step of the scheduler keeps the elements as they are to be.
LEMMA ListsScheduler ==
  ASSUME HoldingInv, Lists, UNCHANGED workView, SchedulerKind
  PROVE  Lists'
<1>1. Busy' = Busy /\ UNCHANGED wqe
  BY DEF workView, Busy
<1>2. \A w \in Busy' : Pinned(wqe'[w]) /\ Upwards(wqe'[w])
  BY <1>1 DEF Lists
<1>3. CASE Idles
  <2>1. /\ spc \notin Building \cup {"aborted"} /\ spc' \notin Building
        /\ UNCHANGED <<beq, loaded>>
    BY <1>3 DEF Idles
  <2>2. loaded' = NoQE
    BY <2>1 DEF HoldingInv, Structure, SchedulerPlace
  <2>q. QED
    BY <1>2, <2>1, <2>2 DEF Lists, Building
<1>4. ASSUME NEW k \in Apps, Starts(k)
      PROVE  Lists'
  <2>1. UNCHANGED beq /\ spc' # "push"
    BY <1>4 DEF Starts
  <2>q. QED
    BY <1>2, <1>4, <2>1, StartsLists DEF Lists, HoldingInv
<1>5. CASE VisitArc \/ VisitBox \/ GiveBack \/ PinOutputs \/ CreateBoxList
  <2>1. spc \in Building
    BY <1>5 DEF VisitArc, VisitBox, GiveBack, PinOutputs, CreateBoxList, Building
  <2>2. loaded # NoQE
    BY <2>1, InHand DEF HoldingInv
  <2>3. GoesOn
    BY <1>5, VisitArcEffect, VisitBoxEffect, GiveBackEffect, PinOutputsEffect,
      CreateBoxListEffect DEF HoldingInv
  <2>4. UNCHANGED beq
    BY <2>3 DEF GoesOn
  <2>5. Pinned(loaded') /\ Walk' /\ (spc' = "push" => Upwards(loaded'))
    BY <1>5, <2>2, GoesOnLists
  <2>q. QED
    BY <1>2, <2>4, <2>5 DEF Lists
<1>6. CASE PushSuperbox
  <2>1. /\ loaded # NoQE /\ loaded' = NoQE /\ spc' = "refill"
        /\ Len(beq) \in Nat /\ DOMAIN beq = 1..Len(beq)
        /\ DOMAIN beq' = 1..(Len(beq) + 1)
        /\ \A i \in DOMAIN beq : beq'[i] = beq[i]
        /\ beq'[Len(beq) + 1] = loaded
    BY <1>6, PushEffect DEF HoldingInv
  <2>2. spc = "push"
    BY <1>6 DEF PushSuperbox
  <2>3. \A i \in 1..(Len(beq) + 1) : i \in 1..Len(beq) \/ i = Len(beq) + 1
    BY <2>1
  <2>4. \A i \in DOMAIN beq' : Pinned(beq'[i]) /\ Upwards(beq'[i])
    BY <2>1, <2>2, <2>3 DEF Lists
  <2>q. QED
    BY <1>2, <2>1, <2>4 DEF Lists
<1>q. QED
  BY <1>3, <1>4, <1>5, <1>6 DEF SchedulerKind

\* A step of a worker: an element moves from the queue to it, or is deleted.
LEMMA ListsWorker ==
  ASSUME HoldingInv, Lists, UNCHANGED schedView, NEW w \in Workers, WorkerKind(w)
  PROVE  Lists'
<1>1. UNCHANGED <<loaded, spc, stack, visit>>
  BY DEF schedView
<1>2. /\ loaded' # NoQE => Pinned(loaded') /\ Walk'
      /\ spc' = "push" => Upwards(loaded')
  BY <1>1 DEF Lists, Walk
<1>3. CASE Moves(w) \/ ReleaseNextBox(w)
  <2>1. UNCHANGED <<beq, wqe>>
    BY <1>3, ReleaseNextBoxEffect DEF Moves, HoldingInv
  <2>2. Busy' = Busy
    BY <2>1 DEF Busy
  <2>q. QED
    BY <1>2, <2>1, <2>2 DEF Lists
<1>4. CASE Takes(w)
  <2>1. /\ Busy' = Busy \cup {w}
        /\ Len(beq) \in Nat \ {0} /\ DOMAIN beq = 1..Len(beq)
        /\ wqe'[w] = beq[1]
        /\ \A u \in Workers \ {w} : wqe'[u] = wqe[u]
        /\ DOMAIN beq' = 1..(Len(beq) - 1)
        /\ \A i \in DOMAIN beq' : beq'[i] = beq[i + 1]
    BY <1>4, TakesEffect DEF HoldingInv
  <2>2. \A i \in 1..(Len(beq) - 1) : i + 1 \in 1..Len(beq)
    BY <2>1
  <2>3. 1 \in DOMAIN beq
    BY <2>1
  <2>4. \A i \in DOMAIN beq' : Pinned(beq'[i]) /\ Upwards(beq'[i])
    BY <2>1, <2>2 DEF Lists
  <2>5. \A u \in Busy' : Pinned(wqe'[u]) /\ Upwards(wqe'[u])
    BY <2>1, <2>3 DEF Lists, Busy
  <2>q. QED
    BY <1>2, <2>4, <2>5 DEF Lists
<1>5. CASE ReleaseApp(w)
  <2>1. /\ UNCHANGED beq /\ Busy' = Busy \ {w}
        /\ \A u \in Workers \ {w} : wqe'[u] = wqe[u]
    BY <1>5, ReleaseAppEffect DEF HoldingInv
  <2>2. \A u \in Busy' : Pinned(wqe'[u]) /\ Upwards(wqe'[u])
    BY <2>1 DEF Lists, Busy
  <2>q. QED
    BY <1>2, <2>1, <2>2 DEF Lists
<1>q. QED
  BY <1>3, <1>4, <1>5 DEF WorkerKind

\* A step of the stream thread touches no element.
LEMMA ListsStill ==
  ASSUME Lists, Still
  PROVE  Lists'
<1>1. UNCHANGED <<beq, wqe, loaded, spc, stack, visit>>
  BY DEF Still, schedView, workView
<1>2. Busy' = Busy
  BY <1>1 DEF Busy
<1>q. QED
  BY <1>1, <1>2 DEF Lists, Walk

-----------------------------------------------------------------------------
(***************************************************************************)
(* Along the lists: what a worker leaves in its buffers and on the arcs.   *)
(***************************************************************************)

\* Where a worker is in the lists of its element.
ListPlace(w) ==
  /\ wpc[w] = "load" => warc[w] >= 1
  /\ wpc[w] = "run" => warc[w] \in DOMAIN wqe[w].boxes
  /\ wpc[w] \in {"deq", "forget"} => warc[w] \in DOMAIN wqe[w].deq
  /\ wpc[w] \in {"enq", "count"} => warc[w] \in DOMAIN wqe[w].enq

\* What is in a worker's buffer of a quiet arc will be read: the box at its
\* end is still to come.
Residue(w) ==
  wpc[w] # "aborted" => \A a \in Quiet :
    /\ "resident" \in DOMAIN Buffer(w, a)
    /\ \/ Buffer(w, a).resident = 0
       \/ /\ wpc[w] = "run"
          /\ \E m \in DOMAIN wqe[w].boxes : warc[w] <= m /\ wqe[w].boxes[m] = DestId[a]

\* Nothing on the quiet arcs, and nothing that will come there.
Quietness ==
  /\ DOMAIN queue = Arcs /\ DOMAIN numRecords = Arcs /\ DOMAIN wout = Workers
  /\ ppc \in {"enq", "count"} => parc \in InputArcs
  /\ \A a \in Quiet : queue[a] = <<>> /\ numRecords[a] = 0
  /\ \A w \in Workers : ListPlace(w) /\ Residue(w)

\* The storage manager has nothing on a quiet arc after a step either.
StaysQuiet ==
  /\ DOMAIN queue' = Arcs /\ DOMAIN numRecords' = Arcs
  /\ \A a \in Quiet : queue'[a] = <<>> /\ numRecords'[a] = 0

\* A step of one worker.
LEMMA QuietnessOfWorker ==
  ASSUME Quietness, StaysQuiet, UNCHANGED <<ppc, parc>>, DOMAIN wout' = Workers,
         NEW w \in Workers, ListPlace(w)', Residue(w)',
         \A u \in Workers \ {w} : /\ wpc'[u] = wpc[u] /\ warc'[u] = warc[u]
                                  /\ wqe'[u] = wqe[u] /\ wout'[u] = wout[u]
  PROVE  Quietness'
<1>1. \A u \in Workers \ {w} : ListPlace(u)'
  BY DEF Quietness, ListPlace
<1>2. \A u \in Workers \ {w} : \A a : Buffer(u, a)' = Buffer(u, a)
  BY DEF Buffer
<1>3. \A u \in Workers \ {w} : Residue(u)'
  BY <1>2 DEF Quietness, Residue
<1>q. QED
  BY <1>1, <1>3 DEF Quietness, StaysQuiet

\* Where Step leads.
LEMMA StepEffect ==
  ASSUME NEW w \in Workers, DOMAIN wpc = Workers, warc \in [Workers -> Nat],
         NEW n, NEW again, NEW following, Step(w, n, again, following)
  PROVE  /\ IF warc[w] < n
            THEN wpc'[w] = again /\ warc'[w] = warc[w] + 1
            ELSE wpc'[w] = following /\ warc'[w] = 1
         /\ \A u \in Workers \ {w} : wpc'[u] = wpc[u] /\ warc'[u] = warc[u]
<1>1. CASE warc[w] < n
  BY <1>1 DEF Step, GoTo
<1>2. CASE ~(warc[w] < n)
  BY <1>2 DEF Step, GoTo
<1>q. QED
  BY <1>1, <1>2

\* What a new buffer of an arc changes: that buffer.
LEMMA SetBufferEffect ==
  ASSUME NEW w \in Workers, DOMAIN wout = Workers, NEW a, NEW buffer, SetBuffer(w, a, buffer)
  PROVE  /\ DOMAIN wout' = Workers
         /\ \A u \in Workers \ {w} : wout'[u] = wout[u]
         /\ \A b : Buffer(w, b)' = IF b = a THEN buffer ELSE Buffer(w, b)
<1> DEFINE new == [x \in {a} \cup DOMAIN wout[w] |->
                     IF x = a THEN buffer ELSE Buffer(w, x)]
<1>1. wout' = [wout EXCEPT ![w] = new]
  BY DEF SetBuffer
<1>2. /\ DOMAIN new = {a} \cup DOMAIN wout[w]
      /\ \A x \in DOMAIN new : new[x] = IF x = a THEN buffer ELSE Buffer(w, x)
  OBVIOUS
<1> HIDE DEF new
<1>3. wout'[w] = new /\ DOMAIN wout' = Workers
  BY <1>1
<1>4. ASSUME NEW b
      PROVE  Buffer(w, b)' = IF b = a THEN buffer ELSE Buffer(w, b)
  <2>1. Buffer(w, b)' = IF b \in DOMAIN new THEN new[b] ELSE NullBuffer
    BY <1>3 DEF Buffer, NullBuffer
  <2>2. b \notin DOMAIN new => Buffer(w, b) = NullBuffer
    BY <1>2 DEF Buffer
  <2>q. QED
    BY <2>1, <2>2, <1>2
<1>q. QED
  BY <1>1, <1>3, <1>4

\* The inductive invariant.
QuietInv == HoldingInv /\ Lists /\ Quietness

\* A step of a worker with its element that leaves nothing behind.
Tidy(w) ==
  /\ StaysQuiet
  /\ DOMAIN wout' = Workers /\ \A u \in Workers \ {w} : wout'[u] = wout[u]
  /\ ListPlace(w)' /\ Residue(w)'

\* A worker in a list.
LEMMA InList ==
  ASSUME QuietInv, NEW w \in Workers, wpc[w] \in ListPlaces
  PROVE  /\ DOMAIN wpc = Workers /\ warc \in [Workers -> Nat] /\ DOMAIN wout = Workers
         /\ DOMAIN queue = Arcs /\ DOMAIN numRecords = Arcs
         /\ IsSuperbox(wqe[w]) /\ Pinned(wqe[w]) /\ Upwards(wqe[w])
         /\ ListPlace(w) /\ Residue(w)
<1>1. /\ DOMAIN wpc = Workers /\ warc \in [Workers -> Nat] /\ WorkerPlace(w)
      /\ Elements
  BY DEF QuietInv, HoldingInv, Structure, WorkerPlaces
<1>2. w \in Busy
  BY <1>1 DEF WorkerPlace, ListPlaces
<1>q. QED
  BY <1>1, <1>2 DEF QuietInv, Elements, Lists, Quietness

\* Of a worker that is not at its boxes.
LEMMA NothingResident ==
  ASSUME QuietInv, NEW w \in Workers, wpc[w] \notin {"run", "aborted"}, NEW a \in Quiet
  PROVE  "resident" \in DOMAIN Buffer(w, a) /\ Buffer(w, a).resident = 0
BY DEF QuietInv, Quietness, Residue

\* The storage manager touches one arc that is not quiet.
LEMMA OtherArc ==
  ASSUME QuietInv, NEW a, a \notin Quiet, NEW q, NEW n,
         queue' = [queue EXCEPT ![a] = q] \/ UNCHANGED queue,
         numRecords' = [numRecords EXCEPT ![a] = n] \/ UNCHANGED numRecords
  PROVE  StaysQuiet
<1>1. Quiet \subseteq Arcs
  BY QuietArc
<1>2. /\ DOMAIN queue = Arcs /\ DOMAIN numRecords = Arcs
      /\ \A b \in Quiet : b # a /\ queue[b] = <<>> /\ numRecords[b] = 0
  BY DEF QuietInv, Quietness
<1>q. QED
  BY <1>1, <1>2 DEF StaysQuiet

\* ... or nothing at all.
LEMMA NoArc ==
  ASSUME QuietInv, UNCHANGED <<queue, numRecords>>
  PROVE  StaysQuiet
BY DEF QuietInv, Quietness, StaysQuiet

\* A list that is not empty has a first entry.
LEMMA FirstEntry ==
  ASSUME NEW s, IsSequence(s), s # <<>>
  PROVE  1 \in DOMAIN s
BY TailIsSequence

\* What comes first in three lists.
LEMMA ConcatFirst ==
  ASSUME NEW s, IsSequence(s), NEW t, IsSequence(t), NEW u, IsSequence(u), NEW i \in DOMAIN s
  PROVE  (s \o t \o u)[i] = s[i]
<1>1. /\ IsSequence(s \o t) /\ (s \o t)[i] = s[i]
      /\ i \in DOMAIN (s \o t)
  <2>1. /\ IsSequence(s \o t) /\ (s \o t)[i] = s[i]
        /\ Len(s) \in Nat /\ Len(t) \in Nat /\ DOMAIN s = 1..Len(s)
        /\ DOMAIN (s \o t) = 1..(Len(s) + Len(t))
    BY ConcatIsSequence
  <2> DEFINE D == DOMAIN (s \o t)
  <2>2. D = 1..(Len(s) + Len(t))
    BY <2>1
  <2> HIDE DEF D
  <2>3. i \in D
    BY <2>1, <2>2
  <2>q. QED
    BY <2>1, <2>3 DEF D
<1> DEFINE v == s \o t
<1> HIDE DEF v
<1>2. IsSequence(v) /\ i \in DOMAIN v /\ v[i] = s[i]
  BY <1>1 DEF v
<1>3. (v \o u)[i] = v[i]
  BY <1>2, ConcatIsSequence
<1>q. QED
  BY <1>2, <1>3 DEF v

\* After a list comes the next one that is not empty.
LEMMA NextList ==
  ASSUME QuietInv, NEW w \in Workers, wpc[w] \in ListPlaces, UNCHANGED wqe,
         NEW loc, loc \in {"announce", AfterRun(w), AfterDeq(w), AfterEnq(w)},
         wpc'[w] = loc, warc'[w] = 1
  PROVE  ListPlace(w)'
<1>1. /\ IsSequence(wqe[w].deq) /\ IsSequence(wqe[w].enq)
  BY InList DEF Pinned
<1>2. /\ loc \in {"announce", "deq", "enq", "both"}
      /\ loc = "deq" => wqe[w].deq # <<>>
      /\ loc = "enq" => wqe[w].enq # <<>>
  BY DEF AfterRun, AfterDeq, AfterEnq
<1>3. /\ loc = "deq" => 1 \in DOMAIN wqe[w].deq
      /\ loc = "enq" => 1 \in DOMAIN wqe[w].enq
  BY <1>1, <1>2, FirstEntry
<1>q. QED
  BY <1>2, <1>3 DEF ListPlace

\* Where Step leads in the lists.
LEMMA StepPlace ==
  ASSUME QuietInv, NEW w \in Workers, wpc[w] \in ListPlaces, UNCHANGED wqe,
         NEW n, NEW again, NEW following, Step(w, n, again, following),
         \/ again = "load" /\ following = "run"
         \/ again = "run" /\ n = Len(wqe[w].boxes) /\ following = AfterRun(w)
         \/ again = "deq" /\ n = Len(wqe[w].deq) /\ following = AfterDeq(w)
         \/ again = "enq" /\ n = Len(wqe[w].enq) /\ following = AfterEnq(w)
         \/ again = "both" /\ following = "announce"
  PROVE  ListPlace(w)'
<1>1. /\ DOMAIN wpc = Workers /\ warc \in [Workers -> Nat] /\ warc[w] \in Nat
      /\ IsSuperbox(wqe[w])
      /\ IsSequence(wqe[w].deq) /\ IsSequence(wqe[w].enq)
  BY InList DEF Pinned
<1>2. /\ Len(wqe[w].boxes) \in Nat /\ DOMAIN wqe[w].boxes = 1..Len(wqe[w].boxes)
      /\ 1 <= Len(wqe[w].boxes)
  BY <1>1, ListFacts
<1>3. /\ Len(wqe[w].deq) \in Nat /\ DOMAIN wqe[w].deq = 1..Len(wqe[w].deq)
      /\ Len(wqe[w].enq) \in Nat /\ DOMAIN wqe[w].enq = 1..Len(wqe[w].enq)
  BY <1>1, ConcatIsSequence
<1>4. CASE warc[w] < n
  <2>1. wpc'[w] = again /\ warc'[w] = warc[w] + 1
    BY <1>1, <1>4, StepEffect
  <2>2. again \in {"load", "run", "deq", "enq", "both"}
    OBVIOUS
  <2>3. warc'[w] >= 1
    BY <1>1, <2>1
  <2>4. again = "run" => warc'[w] \in DOMAIN wqe[w].boxes
    <3>1. again = "run" => n = Len(wqe[w].boxes)
      OBVIOUS
    <3>q. QED
      BY <1>1, <1>2, <1>4, <2>1, <3>1
  <2>5. again = "deq" => warc'[w] \in DOMAIN wqe[w].deq
    <3>1. again = "deq" => n = Len(wqe[w].deq)
      OBVIOUS
    <3>q. QED
      BY <1>1, <1>3, <1>4, <2>1, <3>1
  <2>6. again = "enq" => warc'[w] \in DOMAIN wqe[w].enq
    <3>1. again = "enq" => n = Len(wqe[w].enq)
      OBVIOUS
    <3>q. QED
      BY <1>1, <1>3, <1>4, <2>1, <3>1
  <2>q. QED
    BY <2>1, <2>2, <2>3, <2>4, <2>5, <2>6 DEF ListPlace
<1>5. CASE ~(warc[w] < n)
  <2>1. wpc'[w] = following /\ warc'[w] = 1
    BY <1>1, <1>5, StepEffect
  <2>2. CASE following = "run"
    BY <1>2, <2>1, <2>2 DEF ListPlace
  <2>3. CASE following # "run"
    <3>1. following \in {"announce", AfterRun(w), AfterDeq(w), AfterEnq(w)}
      BY <2>3
    <3>q. QED
      BY <2>1, <3>1, NextList
  <2>q. QED
    BY <2>2, <2>3
<1>q. QED
  BY <1>4, <1>5

\* A worker that leaves its buffers of quiet arcs alone, before or after its boxes.
LEMMA ResidueKept ==
  ASSUME QuietInv, NEW w \in Workers, wpc[w] \notin {"run", "aborted"},
         \A a \in Quiet : Buffer(w, a)' = Buffer(w, a)
  PROVE  Residue(w)'
<1>1. \A a \in Quiet : "resident" \in DOMAIN Buffer(w, a)' /\ (Buffer(w, a)').resident = 0
  BY NothingResident
<1>q. QED
  BY <1>1 DEF Residue

\* ... as one does that touches none of its buffers.
LEMMA ResidueUnchanged ==
  ASSUME QuietInv, NEW w \in Workers, wpc[w] \notin {"run", "aborted"}, UNCHANGED wout
  PROVE  /\ Residue(w)' /\ DOMAIN wout' = Workers
         /\ \A u \in Workers \ {w} : wout'[u] = wout[u]
<1>1. \A a : Buffer(w, a)' = Buffer(w, a)
  BY DEF Buffer
<1>2. Residue(w)'
  BY <1>1, ResidueKept
<1>q. QED
  BY <1>2 DEF QuietInv, Quietness

\* A new buffer with nothing to read on a quiet arc.
LEMMA ResidueSet ==
  ASSUME QuietInv, NEW w \in Workers, wpc[w] \notin {"run", "aborted"}, NEW a, NEW buffer,
         SetBuffer(w, a, buffer),
         "resident" \in DOMAIN buffer, a \in Quiet => buffer.resident = 0
  PROVE  /\ Residue(w)' /\ DOMAIN wout' = Workers
         /\ \A u \in Workers \ {w} : wout'[u] = wout[u]
<1>1. /\ DOMAIN wout' = Workers
      /\ \A u \in Workers \ {w} : wout'[u] = wout[u]
      /\ \A b : Buffer(w, b)' = IF b = a THEN buffer ELSE Buffer(w, b)
  BY SetBufferEffect DEF QuietInv, Quietness
<1>2. \A b \in Quiet : "resident" \in DOMAIN Buffer(w, b)' /\ (Buffer(w, b)').resident = 0
  BY <1>1, NothingResident
<1>3. Residue(w)'
  BY <1>2 DEF Residue
<1>q. QED
  BY <1>1, <1>3

-----------------------------------------------------------------------------
\* The copy of a pinned arc, which is not quiet.
LEMMA TidyLoadDequeuePin ==
  ASSUME QuietInv, NEW w \in Workers, LoadDequeuePin(w)
  PROVE  Tidy(w)
<1> DEFINE pin == Pins(wqe[w])[warc[w]]
           buffer == [slots |-> DequeuePin(pin.arc, pin.n), front |-> 1,
                      resident |-> pin.n, alloc |-> pin.n]
<1>1. /\ wpc[w] = "load" /\ warc[w] <= Len(wqe[w].deq)
      /\ SetBuffer(w, pin.arc, buffer)
      /\ Step(w, Len(Pins(wqe[w])), "load", "run")
      /\ UNCHANGED <<wqe, queue, numRecords>>
  BY DEF LoadDequeuePin, LoadNext, workerIdle, smVars
<1>2. /\ Pinned(wqe[w]) /\ ListPlace(w) /\ warc[w] \in Nat
  BY <1>1, InList DEF ListPlaces
<1>3. warc[w] >= 1
  BY <1>1, <1>2 DEF ListPlace
<1>4. pin.arc \notin Quiet
  <2>1. /\ IsSequence(wqe[w].deq) /\ IsSequence(wqe[w].enq) /\ IsSequence(wqe[w].both)
    BY <1>2 DEF Pinned
  <2>2. warc[w] \in DOMAIN wqe[w].deq
    BY <2>1, <1>1, <1>2, <1>3, ConcatIsSequence
  <2>3. pin = wqe[w].deq[warc[w]]
    <3> DEFINE d == wqe[w].deq
               e == wqe[w].enq
               f == wqe[w].both
    <3>1. pin = (d \o e \o f)[warc[w]]
      BY DEF Pins
    <3> HIDE DEF d, e, f, pin
    <3>2. IsSequence(d) /\ IsSequence(e) /\ IsSequence(f) /\ warc[w] \in DOMAIN d
      BY <2>1, <2>2 DEF d, e, f
    <3>3. (d \o e \o f)[warc[w]] = d[warc[w]]
      BY <3>2, ConcatFirst
    <3>q. QED
      BY <3>1, <3>3 DEF d
  <2>q. QED
    BY <2>2, <2>3, <1>2 DEF Pinned
<1>5. "resident" \in DOMAIN buffer
  OBVIOUS
<1> HIDE DEF pin, buffer
<1>6. /\ Residue(w)' /\ DOMAIN wout' = Workers
      /\ \A u \in Workers \ {w} : wout'[u] = wout[u]
  BY <1>1, <1>4, <1>5, ResidueSet
<1>7. ListPlace(w)'
  BY <1>1, StepPlace DEF ListPlaces
<1>q. QED
  BY <1>1, <1>6, <1>7, NoArc DEF Tidy

\* Memory without tuples.
LEMMA TidyLoadEnqueuePin ==
  ASSUME QuietInv, NEW w \in Workers, LoadEnqueuePin(w)
  PROVE  Tidy(w)
<1> DEFINE pin == Pins(wqe[w])[warc[w]]
           buffer == [NullBuffer EXCEPT !.alloc = pin.n]
<1>1. /\ wpc[w] = "load"
      /\ SetBuffer(w, pin.arc, buffer)
      /\ Step(w, Len(Pins(wqe[w])), "load", "run")
      /\ UNCHANGED <<wqe, queue, numRecords>>
  BY DEF LoadEnqueuePin, LoadNext, workerIdle, smVars
<1>2. "resident" \in DOMAIN buffer /\ buffer.resident = 0
  BY DEF NullBuffer
<1> HIDE DEF pin, buffer
<1>3. /\ Residue(w)' /\ DOMAIN wout' = Workers
      /\ \A u \in Workers \ {w} : wout'[u] = wout[u]
  BY <1>1, <1>2, ResidueSet
<1>4. ListPlace(w)'
  BY <1>1, StepPlace DEF ListPlaces
<1>q. QED
  BY <1>1, <1>3, <1>4, NoArc DEF Tidy

\* What a quiet arc counts is taken from it: nothing.
LEMMA TidyLoadDequeueEnqueuePin ==
  ASSUME QuietInv, NEW w \in Workers, LoadDequeueEnqueuePin(w)
  PROVE  Tidy(w)
<1> DEFINE pin == Pins(wqe[w])[warc[w]]
           a == pin.arc
           r == numRecords[a]
           slots == [i \in 1..r |-> IF i = 1 /\ r <= Len(queue[a]) THEN queue[a][r]
                                                                  ELSE Garbage]
           buffer == [slots |-> slots, front |-> 1, resident |-> r, alloc |-> pin.n + r]
           rest == SubSeq(queue[a], r + 1, Len(queue[a]))
<1>1. /\ wpc[w] = "load"
      /\ SetBuffer(w, a, buffer)
      /\ queue' = [queue EXCEPT ![a] = rest]
      /\ Step(w, Len(Pins(wqe[w])), "load", "run")
      /\ UNCHANGED <<wqe, numRecords>>
  BY DEF LoadDequeueEnqueuePin, LoadNext, workerIdle
<1>2. "resident" \in DOMAIN buffer /\ buffer.resident = r
  <2> HIDE DEF slots, r
  <2> QED OBVIOUS
<1>3. a \in Quiet => r = 0 /\ rest = <<>>
  <2> SUFFICES ASSUME a \in Quiet PROVE r = 0 /\ rest = <<>>
    OBVIOUS
  <2>1. queue[a] = <<>> /\ r = 0
    BY DEF QuietInv, Quietness
  <2>2. SubSeq(<<>>, 1, 0) = <<>> /\ Len(<<>>) = 0
    OBVIOUS
  <2>q. QED
    BY <2>1, <2>2
<1> HIDE DEF pin, a, r, slots, buffer, rest
<1>4. /\ Residue(w)' /\ DOMAIN wout' = Workers
      /\ \A u \in Workers \ {w} : wout'[u] = wout[u]
  BY <1>1, <1>2, <1>3, ResidueSet
<1>5. ListPlace(w)'
  BY <1>1, StepPlace DEF ListPlaces
<1>6. StaysQuiet
  <2>1. /\ DOMAIN queue = Arcs /\ DOMAIN numRecords = Arcs
        /\ \A b \in Quiet : queue[b] = <<>> /\ numRecords[b] = 0
        /\ Quiet \subseteq Arcs
    BY QuietArc DEF QuietInv, Quietness
  <2>q. QED
    BY <2>1, <1>1, <1>3 DEF StaysQuiet
<1>q. QED
  BY <1>4, <1>5, <1>6 DEF Tidy

\* The buffers after a box has run.
LEMMA RunEffect ==
  ASSUME QuietInv, NEW w \in Workers, RunBox(w), wpc'[w] # "aborted"
  PROVE  LET b == wqe[w].boxes[warc[w]] IN
         /\ wpc[w] = "run" /\ UNCHANGED <<wqe, queue, numRecords>>
         /\ DOMAIN wout' = Workers /\ \A u \in Workers \ {w} : wout'[u] = wout[u]
         /\ Step(w, Len(wqe[w].boxes), "run", AfterRun(w))
         /\ \A a : Buffer(w, a)' =
              IF a \in InArcs(b) THEN Consumed(Buffer(w, a))
              ELSE IF a \in OutArcs(b) THEN Produced(Buffer(w, a), TrainOf(w, b))
              ELSE Buffer(w, a)
<1> DEFINE b == wqe[w].boxes[warc[w]]
           train == TrainOf(w, b)
           new == [a \in InArcs(b) \cup OutArcs(b) \cup DOMAIN wout[w] |->
                     CASE a \in InArcs(b)               -> Consumed(Buffer(w, a))
                       [] a \in OutArcs(b) \ InArcs(b) -> Produced(Buffer(w, a), train)
                       [] OTHER                        -> Buffer(w, a)]
<1>1. /\ wpc[w] = "run" /\ UNCHANGED <<wqe, queue, numRecords>>
      /\ \/ GoTo(w, "aborted")
         \/ /\ wout' = [wout EXCEPT ![w] = new]
            /\ Step(w, Len(wqe[w].boxes), "run", AfterRun(w))
  BY DEF RunBox, smVars
<1>2. DOMAIN wpc = Workers /\ DOMAIN wout = Workers
  BY <1>1, InList DEF ListPlaces
<1>3. ~GoTo(w, "aborted")
  BY <1>2 DEF GoTo
<1>4. \A a : /\ a \in DOMAIN new <=> a \in InArcs(b) \/ a \in OutArcs(b) \/ a \in DOMAIN wout[w]
             /\ a \in DOMAIN new =>
                  new[a] = IF a \in InArcs(b) THEN Consumed(Buffer(w, a))
                           ELSE IF a \in OutArcs(b) THEN Produced(Buffer(w, a), train)
                           ELSE Buffer(w, a)
  <2> HIDE DEF b, train
  <2> QED OBVIOUS
<1> HIDE DEF new, train
<1>5. wout'[w] = new
  BY <1>1, <1>2, <1>3
<1>6. \A a : Buffer(w, a)' = IF a \in DOMAIN new THEN new[a] ELSE NullBuffer
  BY <1>5 DEF Buffer, NullBuffer
<1>7. \A a : a \notin DOMAIN wout[w] => Buffer(w, a) = NullBuffer
  BY DEF Buffer
<1>8. \A a : Buffer(w, a)' =
        IF a \in InArcs(b) THEN Consumed(Buffer(w, a))
        ELSE IF a \in OutArcs(b) THEN Produced(Buffer(w, a), train)
        ELSE Buffer(w, a)
  <2> HIDE DEF b
  <2> QED BY <1>4, <1>6, <1>7
<1>9. DOMAIN wout' = Workers /\ \A u \in Workers \ {w} : wout'[u] = wout[u]
  BY <1>1, <1>2, <1>3
<1>q. QED
  BY <1>1, <1>3, <1>8, <1>9 DEF train

\* A box reads what its tree has for it, and what it writes is for the box
\* above it, which is to come.
LEMMA TidyRunBox ==
  ASSUME QuietInv, NEW w \in Workers, RunBox(w)
  PROVE  Tidy(w)
<1> DEFINE m0 == warc[w]
           n == Len(wqe[w].boxes)
           b == wqe[w].boxes[m0]
           k == wqe[w].app
<1>1. /\ wpc[w] = "run" /\ UNCHANGED <<wqe, queue, numRecords>>
  BY DEF RunBox, smVars
<1>2. /\ DOMAIN wpc = Workers /\ warc \in [Workers -> Nat] /\ m0 \in Nat
      /\ DOMAIN wout = Workers
      /\ IsSuperbox(wqe[w]) /\ Upwards(wqe[w])
      /\ ListPlace(w) /\ Residue(w)
  BY <1>1, InList DEF ListPlaces
<1>3. /\ n \in Nat /\ 1 <= n /\ DOMAIN wqe[w].boxes = 1..n
      /\ k \in Apps /\ m0 \in 1..n
  BY <1>1, <1>2, ListFacts DEF ListPlace
<1>4. b \in InTree(k) /\ b \in Boxes
  <2>1. b \in wqe[w].locked /\ wqe[w].locked \subseteq InTree(k)
    BY <1>2, <1>3, ListFacts
  <2>q. QED
    BY <2>1, <1>3, TreeFacts
<1>5. StaysQuiet
  BY <1>1, NoArc
<1>6. CASE wpc'[w] = "aborted"
  <2>1. UNCHANGED wout
    <3>1. \/ UNCHANGED wout
          \/ Step(w, n, "run", AfterRun(w))
      BY DEF RunBox
    <3>2. CASE Step(w, n, "run", AfterRun(w))
      <4>1. wpc'[w] \in {"run", AfterRun(w)}
        BY <3>2, <1>2, StepEffect
      <4>2. AfterRun(w) # "aborted"
        BY DEF AfterRun, AfterDeq
      <4>q. QED
        BY <4>1, <4>2, <1>6
    <3>q. QED
      BY <3>1, <3>2
  <2>2. ListPlace(w)' /\ Residue(w)'
    BY <1>6 DEF ListPlace, Residue
  <2>q. QED
    BY <2>1, <2>2, <1>2, <1>5 DEF Tidy
<1>7. CASE wpc'[w] # "aborted"
  <2>1. /\ DOMAIN wout' = Workers /\ \A u \in Workers \ {w} : wout'[u] = wout[u]
        /\ Step(w, n, "run", AfterRun(w))
        /\ \A a : Buffer(w, a)' =
             IF a \in InArcs(b) THEN Consumed(Buffer(w, a))
             ELSE IF a \in OutArcs(b) THEN Produced(Buffer(w, a), TrainOf(w, b))
             ELSE Buffer(w, a)
    BY <1>7, RunEffect
  <2>2. ListPlace(w)'
    BY <1>1, <2>1, StepPlace DEF ListPlaces
  <2>3. m0 < n => wpc'[w] = "run" /\ warc'[w] = m0 + 1
    BY <2>1, <1>2, StepEffect
  <2>4. ASSUME NEW a \in Quiet
        PROVE  /\ "resident" \in DOMAIN Buffer(w, a)'
               /\ \/ (Buffer(w, a)').resident = 0
                  \/ /\ wpc'[w] = "run"
                     /\ \E m \in DOMAIN wqe'[w].boxes :
                          warc'[w] <= m /\ wqe'[w].boxes[m] = DestId[a]
    <3>1. /\ "resident" \in DOMAIN Buffer(w, a)
          /\ \/ Buffer(w, a).resident = 0
             \/ \E m \in 1..n : m0 <= m /\ wqe[w].boxes[m] = DestId[a]
      BY <1>1, <1>2, <1>3 DEF Residue
    <3>2. a \in Arcs
      BY QuietArc
    <3>3. "resident" \in DOMAIN Buffer(w, a)'
      BY <2>1, <3>1 DEF Consumed, Produced
    <3>4. ASSUME NEW m \in 1..n, m0 < m, wqe[w].boxes[m] = DestId[a]
          PROVE  /\ wpc'[w] = "run"
                 /\ \E l \in DOMAIN wqe'[w].boxes :
                      warc'[w] <= l /\ wqe'[w].boxes[l] = DestId[a]
      <4>1. wpc'[w] = "run" /\ warc'[w] = m0 + 1
        BY <1>2, <1>3, <2>3, <3>4
      <4>2. m \in DOMAIN wqe'[w].boxes /\ wqe'[w].boxes[m] = DestId[a]
        BY <1>1, <1>3, <3>4
      <4>3. warc'[w] <= m
        BY <4>1, <1>2, <3>4
      <4>q. QED
        BY <4>1, <4>2, <4>3
    <3>5. CASE a \in InArcs(b)
      <4>1. Buffer(w, a)' = Consumed(Buffer(w, a))
        BY <2>1, <3>5
      <4>2. (Buffer(w, a)').resident = 0
        BY <4>1, <3>1 DEF Consumed
      <4>q. QED
        BY <4>2, <3>3
    <3>6. CASE a \notin InArcs(b) /\ a \in OutArcs(b)
      <4>1. SrcId[a] = b
        BY <1>4, <3>6, CatalogAssumption
      <4>2. b # RootBox(k) /\ DestId[a] = Above(k, b)
        BY <1>3, <1>4, <4>1, QuietArc
      <4>3. \E m \in DOMAIN wqe[w].boxes : m0 < m /\ wqe[w].boxes[m] = Above(k, b)
        BY <1>2, <1>3, <4>2 DEF Upwards
      <4>q. QED
        BY <4>2, <4>3, <1>3, <3>3, <3>4
    <3>7. CASE a \notin InArcs(b) /\ a \notin OutArcs(b)
      <4>1. Buffer(w, a)' = Buffer(w, a)
        BY <2>1, <3>7
      <4>2. DestId[a] # b
        BY <1>4, <3>2, <3>7, CatalogAssumption
      <4>3. CASE Buffer(w, a).resident = 0
        BY <4>1, <4>3, <3>3
      <4>4. CASE \E m \in 1..n : m0 <= m /\ wqe[w].boxes[m] = DestId[a]
        <5>1. PICK m \in 1..n : m0 <= m /\ wqe[w].boxes[m] = DestId[a]
          BY <4>4
        <5>2. m # m0
          BY <4>2, <5>1
        <5>3. m0 < m
          BY <5>1, <5>2, <1>2, <1>3
        <5>q. QED
          BY <5>1, <5>3, <3>3, <3>4
      <4>q. QED
        BY <3>1, <4>3, <4>4
    <3>q. QED
      BY <3>5, <3>6, <3>7
  <2>5. Residue(w)'
    BY <2>4 DEF Residue
  <2>q. QED
    BY <2>1, <2>2, <2>5, <1>5 DEF Tidy
<1>q. QED
  BY <1>6, <1>7

\* What is unloaded goes to arcs that are not quiet.
LEMMA TidyUnload ==
  ASSUME QuietInv, NEW w \in Workers,
         \/ UnloadDequeuePin(w) \/ UnloadForget(w) \/ UnloadEnqueuePin(w) \/ UnloadCount(w)
         \/ UnloadDequeueEnqueuePin(w)
  PROVE  Tidy(w)
<1>1. /\ wpc[w] \in {"deq", "forget", "enq", "count", "both"}
      /\ UNCHANGED <<wqe, wout>>
  BY DEF UnloadDequeuePin, UnloadForget, UnloadEnqueuePin, UnloadCount,
         UnloadDequeueEnqueuePin, workerIdle
<1>2. wpc[w] \in ListPlaces /\ wpc[w] \notin {"run", "aborted"}
  BY <1>1 DEF ListPlaces
<1>3. /\ DOMAIN wpc = Workers /\ Pinned(wqe[w]) /\ ListPlace(w)
  BY <1>2, InList
<1>4. /\ Residue(w)' /\ DOMAIN wout' = Workers
      /\ \A u \in Workers \ {w} : wout'[u] = wout[u]
  BY <1>1, <1>2, ResidueUnchanged
<1>5. SUFFICES StaysQuiet /\ ListPlace(w)'
  BY <1>4 DEF Tidy
<1>6. wpc[w] \in {"deq", "forget"} => wqe[w].deq[warc[w]].arc \notin Quiet
  BY <1>3 DEF Pinned, ListPlace
<1>7. wpc[w] \in {"enq", "count"} => wqe[w].enq[warc[w]].arc \notin Quiet
  BY <1>3 DEF Pinned, ListPlace
<1>8. CASE UnloadDequeuePin(w)
  <2> DEFINE a == wqe[w].deq[warc[w]].arc
             n == Buffer(w, a).alloc - Buffer(w, a).resident
  <2>1. /\ wpc[w] = "deq" /\ DequeueRemove(w, a, n)
        /\ \/ GoTo(w, "forget") /\ UNCHANGED warc
           \/ DeqNext(w)
    BY <1>8 DEF UnloadDequeuePin
  <2>2. StaysQuiet
    <3> HIDE DEF a, n
    <3>1. a \notin Quiet
      BY <2>1, <1>6 DEF a
    <3>q. QED
      BY <2>1, <3>1, OtherArc DEF DequeueRemove
  <2>3. CASE GoTo(w, "forget") /\ UNCHANGED warc
    BY <2>1, <2>2, <2>3, <1>1, <1>3 DEF GoTo, ListPlace
  <2>4. CASE DeqNext(w)
    BY <2>1, <2>2, <2>4, <1>1, <1>2, StepPlace DEF DeqNext
  <2>q. QED
    BY <2>1, <2>3, <2>4
<1>9. CASE UnloadForget(w)
  <2>1. /\ wpc[w] = "forget" /\ DeqNext(w) /\ UNCHANGED <<queue, numRecords>>
    BY <1>9 DEF UnloadForget, DequeueForget
  <2>q. QED
    BY <2>1, <1>1, <1>2, StepPlace, NoArc DEF DeqNext
<1>10. CASE UnloadEnqueuePin(w)
  <2> DEFINE a == wqe[w].enq[warc[w]].arc
             tuples == Content(Buffer(w, a), 1)
  <2>1. wpc[w] = "enq"
    BY <1>10 DEF UnloadEnqueuePin
  <2>2. \/ EnqueueWrite(w, a, tuples) /\ GoTo(w, "count") /\ UNCHANGED warc
        \/ EnqNext(w) /\ UNCHANGED smVars
    BY <1>10 DEF UnloadEnqueuePin
  <2>3. CASE EnqueueWrite(w, a, tuples) /\ GoTo(w, "count") /\ UNCHANGED warc
    <3>1. StaysQuiet
      <4> HIDE DEF a, tuples
      <4>1. a \notin Quiet
        BY <2>1, <1>7 DEF a
      <4>q. QED
        BY <2>3, <4>1, OtherArc DEF EnqueueWrite
    <3>q. QED
      BY <2>1, <2>3, <3>1, <1>1, <1>3 DEF GoTo, ListPlace
  <2>4. CASE EnqNext(w) /\ UNCHANGED smVars
    BY <2>1, <2>4, <1>1, <1>2, StepPlace, NoArc DEF EnqNext, smVars
  <2>q. QED
    BY <2>2, <2>3, <2>4
<1>11. CASE UnloadCount(w)
  <2> DEFINE a == wqe[w].enq[warc[w]].arc
             n == Buffer(w, a).resident
  <2>1. wpc[w] = "count" /\ EnqueueCount(w, a, n) /\ EnqNext(w)
    BY <1>11 DEF UnloadCount
  <2>2. StaysQuiet
    <3> HIDE DEF a, n
    <3>1. a \notin Quiet
      BY <2>1, <1>7 DEF a
    <3>q. QED
      BY <2>1, <3>1, OtherArc DEF EnqueueCount
  <2>q. QED
    BY <2>1, <2>2, <1>1, <1>2, StepPlace DEF EnqNext
<1>12. CASE UnloadDequeueEnqueuePin(w)
  <2> DEFINE a == wqe[w].both[warc[w]].arc
             tuples == Content(Buffer(w, a), Buffer(w, a).front)
             n == Buffer(w, a).resident
  <2>1. wpc[w] = "both" /\ Step(w, Len(wqe[w].both), "both", "announce")
    BY <1>12 DEF UnloadDequeueEnqueuePin
  <2>2. \/ /\ n > 0
           /\ queue' = [queue EXCEPT ![a] = queue[a] \o tuples]
           /\ numRecords' = [numRecords EXCEPT ![a] = n]
        \/ UNCHANGED <<queue, numRecords>>
    BY <1>12 DEF UnloadDequeueEnqueuePin, smVars
  <2>3. StaysQuiet
    <3>1. a \in Quiet => n = 0
      BY <1>2, NothingResident
    <3> HIDE DEF a, tuples, n
    <3>2. CASE UNCHANGED <<queue, numRecords>>
      BY <3>2, NoArc
    <3>3. CASE /\ n > 0
               /\ queue' = [queue EXCEPT ![a] = queue[a] \o tuples]
               /\ numRecords' = [numRecords EXCEPT ![a] = n]
      <4>1. a \notin Quiet
        BY <3>1, <3>3
      <4>q. QED
        BY <3>3, <4>1, OtherArc
    <3>q. QED
      BY <2>2, <3>2, <3>3
  <2>q. QED
    BY <2>1, <2>3, <1>1, <1>2, StepPlace
<1>q. QED
  BY <1>8, <1>9, <1>10, <1>11, <1>12

\* The steps before and after the lists.
LEMMA TidyElse ==
  ASSUME QuietInv, NEW w \in Workers,
         SharedWorkerStep(w) \/ AnnounceSuperbox(w) \/ ReleaseNextBox(w)
  PROVE  Tidy(w)
<1>1. DOMAIN wpc = Workers /\ warc \in [Workers -> Nat] /\ WorkerPlace(w)
  BY DEF QuietInv, HoldingInv, Structure, WorkerPlaces
<1>2. /\ UNCHANGED <<wout, queue, numRecords>>
      /\ wpc[w] \notin {"run", "aborted"}
      /\ \E loc \in {"done", "queue", "popped", "nowork", "load", "top", "unlock", "unlockapp"} :
           GoTo(w, loc) /\ (loc = "load" => wpc[w] = "popped" /\ UNCHANGED warc)
  <2>1. CASE SharedWorkerStep(w)
    BY <2>1 DEF SharedWorkerStep, AtTop, CheckQueue, WaitForWork, CheckStop, SignalScheduler, smVars
  <2>2. CASE AnnounceSuperbox(w)
    BY <2>2 DEF AnnounceSuperbox, smVars
  <2>3. CASE ReleaseNextBox(w)
    BY <2>3 DEF ReleaseNextBox, Step, smVars
  <2>q. QED
    BY <2>1, <2>2, <2>3
<1>3. ListPlace(w)'
  BY <1>1, <1>2 DEF ListPlace, GoTo, WorkerPlace
<1>q. QED
  BY <1>2, <1>3, ResidueUnchanged, NoArc DEF Tidy

\* The buffers are deleted with the element.
LEMMA TidyReleaseApp ==
  ASSUME QuietInv, NEW w \in Workers, ReleaseApp(w)
  PROVE  Tidy(w)
<1>1. DOMAIN wpc = Workers /\ DOMAIN wout = Workers
  BY DEF QuietInv, HoldingInv, Structure, WorkerPlaces, Quietness
<1>2. /\ wout' = [wout EXCEPT ![w] = <<>>]
      /\ wpc' = [wpc EXCEPT ![w] = "signal"]
      /\ UNCHANGED <<queue, numRecords>>
  BY DEF ReleaseApp, GoTo, smVars
<1>3. \A a : Buffer(w, a)' = NullBuffer
  BY <1>1, <1>2 DEF Buffer, NullBuffer
<1>4. "resident" \in DOMAIN NullBuffer /\ NullBuffer.resident = 0
  BY DEF NullBuffer
<1>5. Residue(w)'
  BY <1>3, <1>4 DEF Residue
<1>6. ListPlace(w)'
  BY <1>1, <1>2 DEF ListPlace
<1>q. QED
  BY <1>1, <1>2, <1>5, <1>6, NoArc DEF Tidy

\* Every step of a worker keeps the quiet arcs so.
LEMMA QuietWorker ==
  ASSUME QuietInv, NEW w \in Workers, WorkerStep(w)
  PROVE  Quietness'
<1>1. SuperboxStep(w) /\ UNCHANGED <<ppc, parc>>
  BY DEF WorkerStep, streamVars
<1>2. Tidy(w)
  BY <1>1, TidyLoadDequeuePin, TidyLoadEnqueuePin, TidyLoadDequeueEnqueuePin, TidyRunBox,
     TidyUnload, TidyElse, TidyReleaseApp DEF SuperboxStep
<1>3. Structure
  BY DEF QuietInv, HoldingInv
<1>4. WorkerKind(w)
  BY <1>1, <1>3, WorkerKinds DEF Structure
<1>5. \A u \in Workers \ {w} : wpc'[u] = wpc[u] /\ warc'[u] = warc[u] /\ wqe'[u] = wqe[u]
  <2>1. CASE Moves(w)
    BY <2>1 DEF Moves
  <2>2. CASE Takes(w)
    BY <2>2, <1>3 DEF Takes, Structure, WorkerPlaces, Elements
  <2>3. CASE ReleaseNextBox(w)
    BY <2>3, <1>3, ReleaseNextBoxEffect
  <2>4. CASE ReleaseApp(w)
    BY <2>4, <1>3, ReleaseAppEffect
  <2>q. QED
    BY <1>4, <2>1, <2>2, <2>3, <2>4 DEF WorkerKind
<1>q. QED
  BY <1>1, <1>2, <1>5, QuietnessOfWorker DEF QuietInv, Tidy

\* So do the steps of the others.
LEMMA QuietOthers ==
  ASSUME QuietInv, SchedulerNext \/ StreamNext \/ UNCHANGED vars
  PROVE  Quietness'
<1>1. /\ DOMAIN wout = Workers
      /\ ppc \in {"enq", "count"} => parc \in InputArcs
      /\ \A w \in Workers : ListPlace(w) /\ Residue(w)
  BY DEF QuietInv, Quietness
<1>2. UNCHANGED <<wpc, wqe, wout, warc>>
  BY DEF SchedulerNext, StreamNext, vars, workerVars
<1>3. \A w \in Workers : ListPlace(w)' /\ Residue(w)'
  <2>1. \A w, a : Buffer(w, a)' = Buffer(w, a)
    BY <1>2 DEF Buffer
  <2>q. QED
    BY <1>1, <1>2, <2>1 DEF ListPlace, Residue
<1>4. StaysQuiet /\ (ppc' \in {"enq", "count"} => parc' \in InputArcs)
  <2>1. CASE UNCHANGED <<queue, numRecords, ppc, parc>>
    BY <2>1, <1>1, NoArc
  <2>2. CASE SchedulerNext
    <3>1. UNCHANGED <<queue, numRecords>>
      BY <2>2 DEF SchedulerNext, AppSchedulerStep, SharedStep, WaitForEvent, SchedulerSleeps,
           SchedulerWoken, SchedulerTimeout, TestForStop, SignalWorker, AppReadSize, StartSearch,
           SearchByBox, TryApp, NoAppFound, AppRefillDone, VisitArc, VisitBox, GiveBack,
           PinOutputs, CreateBoxList, PushSuperbox, JoinWorker, idleVars, searchVars, smVars
    <3>q. QED
      BY <2>1, <2>2, <3>1 DEF SchedulerNext, streamVars
  <2>3. CASE \E a \in InputArcs : GenerateTuple(a)
    BY <2>3, NoArc DEF GenerateTuple, smVars
  <2>4. CASE StoreTuple
    <3>1. parc \in InputArcs /\ ppc' = "count" /\ parc' = parc
      BY <2>4, <1>1 DEF StoreTuple
    <3>2. parc \notin Quiet
      BY <3>1, QuietArc
    <3>q. QED
      BY <2>4, <3>1, <3>2, OtherArc DEF StoreTuple, EnqueueWrite
  <2>5. CASE CountTuple
    <3>1. parc \in InputArcs /\ ppc' = "wake"
      BY <2>5, <1>1 DEF CountTuple
    <3>2. parc \notin Quiet
      BY <3>1, QuietArc
    <3>q. QED
      BY <2>5, <3>1, <3>2, OtherArc DEF CountTuple, EnqueueCount
  <2>6. CASE WakeScheduler
    BY <2>6, NoArc DEF WakeScheduler, smVars
  <2>7. CASE UNCHANGED vars
    BY <2>7, <2>1 DEF vars, smVars, streamVars
  <2>q. QED
    BY <2>2, <2>3, <2>4, <2>5, <2>6, <2>7 DEF StreamNext
<1>q. QED
  BY <1>1, <1>2, <1>3, <1>4 DEF Quietness, StaysQuiet

\* Every step keeps the invariant.
LEMMA QuietStep ==
  ASSUME QuietInv, [Next]_vars
  PROVE  QuietInv'
<1>1. HoldingInv /\ Lists /\ Structure
  BY DEF QuietInv, HoldingInv
<1>2. HoldingInv'
  BY <1>1, HoldingStep
<1>3. Lists'
  <2>1. CASE Still
    BY <2>1, <1>1, ListsStill
  <2>2. CASE UNCHANGED schedView /\ \E w \in Workers : WorkerKind(w)
    BY <2>2, <1>1, ListsWorker
  <2>3. CASE UNCHANGED workView /\ SchedulerKind
    BY <2>3, <1>1, ListsScheduler
  <2>q. QED
    BY <1>1, <2>1, <2>2, <2>3, NextKinds DEF Structure
<1>4. Quietness'
  BY QuietWorker, QuietOthers DEF Next
<1>q. QED
  BY <1>2, <1>3, <1>4 DEF QuietInv

\* All is empty at the start.
LEMMA QuietInit ==
  ASSUME Init
  PROVE  QuietInv
<1>1. /\ HoldingInv
      /\ beq = <<>> /\ loaded = NoQE /\ spc # "push"
      /\ wpc = [w \in Workers |-> "top"] /\ wqe = [w \in Workers |-> NoQE]
      /\ wout = [w \in Workers |-> <<>>]
      /\ queue = [a \in Arcs |-> <<>>] /\ numRecords = [a \in Arcs |-> 0]
      /\ ppc = "idle"
  BY HoldingInit DEF Init, BeqInit, AppSchedulerInit, SchedulerInit, WorkerInit, SMInit, StreamInit
<1>2. Lists
  BY <1>1 DEF Lists, Busy
<1>3. \A w \in Workers : ListPlace(w) /\ Residue(w)
  <2>1. \A w \in Workers : \A a : Buffer(w, a) = NullBuffer
    BY <1>1 DEF Buffer
  <2>2. "resident" \in DOMAIN NullBuffer /\ NullBuffer.resident = 0
    BY DEF NullBuffer
  <2>q. QED
    BY <1>1, <2>1, <2>2 DEF ListPlace, Residue
<1>4. Quiet \subseteq Arcs
  BY QuietArc
<1>5. Quietness
  BY <1>1, <1>3, <1>4 DEF Quietness
<1>q. QED
  BY <1>1, <1>2, <1>5 DEF QuietInv

(***************************************************************************)
(* Whatever the network, the trees and the traversals are, and whatever    *)
(* the threads interleave: of an application that shares no box, no tuple  *)
(* is ever on an arc of its tree and no count of one is above 0, so that   *)
(* dequeueEnqueuePin, which copies all tuples of an arc to the first slot, *)
(* never has one to copy there.                                            *)
(***************************************************************************)
THEOREM InnerArcsStayEmpty == Spec => []InnerArcsEmpty
<1>1. Init => QuietInv
  BY QuietInit
<1>2. QuietInv /\ [Next]_vars => QuietInv'
  BY QuietStep
<1>3. QuietInv => InnerArcsEmpty
  BY DEF QuietInv, Quietness, Quiet, InnerArcsEmpty
<1>q. QED
  BY <1>1, <1>2, <1>3, PTL DEF Spec
=============================================================================
