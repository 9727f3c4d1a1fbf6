--------------------------- MODULE StreamTheorems ---------------------------
(***************************************************************************)
(* The runtime implements ReliableStreams, for every network in which a    *)
(* tuple has one way to any arc.  The tuples of a source are numbered, so  *)
(* what a queue or a buffer has of a source is a run of numbers.  The      *)
(* inductive invariant is a ledger of these runs: for every arc and        *)
(* source, how many tuples have gone from the arc and how many have come   *)
(* to it; for every worker, the part of each source its train is.  Of a    *)
(* box at rest the outputs have got just what has gone from the inputs; a  *)
(* worker at work accounts for the difference, input by input and output   *)
(* by output.                                                              *)
(***************************************************************************)
EXTENDS RuntimeTheorems, SequenceTheorems

USE DEF findVars, loadVars, joinVars, schedVars, workerVars, streamVars,
        beqVars, stopVars, smVars

(***************************************************************************)
(* The tuples of source s in q are those numbered l + 1 to h, each once    *)
(* and in order.                                                           *)
(***************************************************************************)
Runs(q, s, l, h) ==
  /\ \A i, j \in DOMAIN q : q[i][1] = s /\ q[j][1] = s /\ i < j => q[i][2] < q[j][2]
  /\ \A i \in DOMAIN q : q[i][1] = s => l < q[i][2] /\ q[i][2] <= h
  /\ \A n \in (l + 1)..h : \E i \in DOMAIN q : q[i][1] = s /\ q[i][2] = n

\* Every element of a sequence of tuples is an arc and a number.
LEMMA TupleAt ==
  ASSUME NEW q \in Seq(Tuples)
  PROVE  /\ Len(q) \in Nat
         /\ DOMAIN q = 1..Len(q)
         /\ \A i \in DOMAIN q : q[i][1] \in Arcs /\ q[i][2] \in Nat
BY DEF Tuples

\* The empty list has a run of no length, anywhere, and no other.
LEMMA RunsEmpty ==
  ASSUME NEW s, NEW l \in Nat, NEW h \in Nat
  PROVE  /\ Runs(<<>>, s, l, l)
         /\ Runs(<<>>, s, l, h) /\ l <= h => l = h
<1>1. Runs(<<>>, s, l, l)
  BY DEF Runs
<1>2. ASSUME Runs(<<>>, s, l, h), l <= h PROVE l = h
  <2>1. DOMAIN (<<>>) = {}
    OBVIOUS
  <2>2. (l + 1)..h = {}
    BY <1>2, <2>1 DEF Runs
  <2>q. QED
    BY <1>2, <2>2
<1>q. QED
  BY <1>1, <1>2

\* A list with no tuple of a stream has a run of no length everywhere.
LEMMA RunsNone ==
  ASSUME NEW q \in Seq(Tuples), NEW s, NEW l \in Nat, NEW k \in Nat,
         Runs(q, s, k, k)
  PROVE  Runs(q, s, l, l)
<1>1. \A i \in DOMAIN q : q[i][1] # s
  BY TupleAt DEF Runs
<1>q. QED
  BY <1>1 DEF Runs

\* Two runs, the second from where the first ends, make one.
LEMMA RunsConcat ==
  ASSUME NEW p \in Seq(Tuples), NEW q \in Seq(Tuples), NEW s,
         NEW l \in Nat, NEW m \in Nat, NEW h \in Nat, l <= m, m <= h,
         Runs(p, s, l, m), Runs(q, s, m, h)
  PROVE  Runs(p \o q, s, l, h)
<1> DEFINE r == p \o q
           n == Len(p)
<1>1. /\ r \in Seq(Tuples)
      /\ Len(r) = n + Len(q)
      /\ \A i \in 1..n : r[i] = p[i]
      /\ \A i \in 1..Len(q) : r[n + i] = q[i]
  BY ConcatProperties
<1>2. n \in Nat /\ Len(q) \in Nat /\ DOMAIN p = 1..n /\ DOMAIN q = 1..Len(q)
  BY TupleAt
<1>3. DOMAIN r = 1..(n + Len(q))
  BY <1>1
<1> HIDE DEF r, n
\* Every place of the whole is a place of one of the parts.
<1>4. ASSUME NEW i \in DOMAIN r
      PROVE  \/ i \in 1..n /\ i \in DOMAIN p /\ r[i] = p[i]
             \/ i \in Nat /\ i > n /\ i - n \in DOMAIN q /\ r[i] = q[i - n]
  <2>1. CASE i <= n
    BY <1>1, <1>2, <1>3, <2>1
  <2>2. CASE i > n
    <3>1. i - n \in 1..Len(q) /\ n + (i - n) = i
      BY <1>2, <1>3, <2>2
    <3>q. QED
      BY <1>1, <1>2, <1>3, <2>2, <3>1
  <2>q. QED
    BY <1>2, <1>3, <2>1, <2>2
<1>5. /\ \A i \in DOMAIN p : p[i][2] \in Nat
      /\ \A i \in DOMAIN q : q[i][2] \in Nat
  BY TupleAt
<1>6. ASSUME NEW i \in DOMAIN r, r[i][1] = s
      PROVE  l < r[i][2] /\ r[i][2] <= h
  BY <1>4, <1>5, <1>6 DEF Runs
<1>7. ASSUME NEW i \in DOMAIN r, NEW j \in DOMAIN r, r[i][1] = s, r[j][1] = s, i < j
      PROVE  r[i][2] < r[j][2]
  <2>1. CASE j \in 1..n /\ j \in DOMAIN p /\ r[j] = p[j]
    <3>1. i \in DOMAIN p /\ r[i] = p[i]
      BY <1>2, <1>4, <1>7, <2>1
    <3>q. QED
      BY <1>7, <2>1, <3>1 DEF Runs
  <2>2. CASE j > n /\ j - n \in DOMAIN q /\ r[j] = q[j - n]
    <3>1. CASE i \in DOMAIN p /\ r[i] = p[i]
      <4>1. p[i][2] <= m /\ m < q[j - n][2]
        BY <1>7, <2>2, <3>1 DEF Runs
      <4>q. QED
        BY <1>5, <2>2, <3>1, <4>1
    <3>2. CASE i - n \in DOMAIN q /\ r[i] = q[i - n]
      <4>1. i - n < j - n
        BY <1>2, <1>3, <1>7
      <4>q. QED
        BY <1>7, <2>2, <3>2, <4>1 DEF Runs
    <3>q. QED
      BY <1>4, <3>1, <3>2
  <2>q. QED
    BY <1>4, <2>1, <2>2
<1>8. ASSUME NEW k \in (l + 1)..h
      PROVE  \E i \in DOMAIN r : r[i][1] = s /\ r[i][2] = k
  <2>1. CASE k <= m
    <3>1. k \in (l + 1)..m
      BY <2>1
    <3>2. PICK i \in DOMAIN p : p[i][1] = s /\ p[i][2] = k
      BY <3>1 DEF Runs
    <3>3. i \in DOMAIN r /\ r[i] = p[i]
      BY <1>1, <1>2, <1>3
    <3>q. QED
      BY <3>2, <3>3
  <2>2. CASE k > m
    <3>1. k \in (m + 1)..h
      BY <2>2
    <3>2. PICK i \in DOMAIN q : q[i][1] = s /\ q[i][2] = k
      BY <3>1 DEF Runs
    <3>3. n + i \in DOMAIN r /\ r[n + i] = q[i]
      BY <1>1, <1>2, <1>3
    <3>q. QED
      BY <3>2, <3>3
  <2>q. QED
    BY <2>1, <2>2
<1>q. QED
  BY <1>6, <1>7, <1>8 DEF Runs, r

\* The front and the rest of a list, place by place.
LEMMA FrontAndRest ==
  ASSUME NEW q \in Seq(Tuples), NEW k \in Nat, k <= Len(q)
  PROVE  /\ SubSeq(q, 1, k) \in Seq(Tuples)
         /\ DOMAIN SubSeq(q, 1, k) = 1..k
         /\ \A i \in 1..k : i \in DOMAIN q /\ SubSeq(q, 1, k)[i] = q[i]
         /\ SubSeq(q, k + 1, Len(q)) \in Seq(Tuples)
         /\ DOMAIN SubSeq(q, k + 1, Len(q)) = 1..(Len(q) - k)
         /\ \A i \in 1..(Len(q) - k) :
              k + i \in DOMAIN q /\ SubSeq(q, k + 1, Len(q))[i] = q[k + i]
<1> DEFINE p == SubSeq(q, 1, k)
           r == SubSeq(q, k + 1, Len(q))
           n == Len(q)
<1>0. n \in Nat /\ k <= n /\ DOMAIN q = 1..n
  OBVIOUS
<1>1. /\ p \in Seq(Tuples)
      /\ Len(p) = k
      /\ \A i \in 1..k : p[i] = q[i]
  <2>1. \A i \in 1..k : q[i] \in Tuples
    BY <1>0
  <2>2. /\ p \in Seq(Tuples)
        /\ Len(p) = IF 1 <= k THEN k - 1 + 1 ELSE 0
        /\ \A i \in 1..(k - 1 + 1) : p[i] = q[1 + i - 1]
    BY <1>0, <2>1, SubSeqProperties
  <2> HIDE DEF p
  <2>q. QED
    BY <2>2
<1>2. /\ r \in Seq(Tuples)
      /\ Len(r) = n - k
      /\ \A i \in 1..(n - k) : r[i] = q[k + i]
  <2>1. \A i \in (k + 1)..n : q[i] \in Tuples
    BY <1>0
  <2>2. /\ r \in Seq(Tuples)
        /\ Len(r) = IF k + 1 <= n THEN n - (k + 1) + 1 ELSE 0
        /\ \A i \in 1..(n - (k + 1) + 1) : r[i] = q[(k + 1) + i - 1]
    BY <1>0, <2>1, SubSeqProperties
  <2> HIDE DEF r, n
  <2>3. n - (k + 1) + 1 = n - k /\ (~(k + 1 <= n) => n - k = 0)
    BY <1>0
  <2>4. \A i \in 1..(n - k) : (k + 1) + i - 1 = k + i
    BY <1>0
  <2>q. QED
    BY <1>0, <2>2, <2>3, <2>4
<1> HIDE DEF p, r, n
<1>3. DOMAIN p = 1..k /\ DOMAIN r = 1..(n - k)
  BY <1>1, <1>2
<1>4. \A i \in 1..k : i \in DOMAIN q
  BY <1>0
<1>5. \A i \in 1..(n - k) : k + i \in DOMAIN q
  BY <1>0
<1>q. QED
  BY <1>1, <1>2, <1>3, <1>4, <1>5 DEF p, r, n

\* The front of a run is a run from the same place to somewhere on the way.
LEMMA RunsFront ==
  ASSUME NEW q \in Seq(Tuples), NEW s, NEW l \in Nat, NEW h \in Nat, l <= h,
         Runs(q, s, l, h), NEW k \in Nat, k <= Len(q)
  PROVE  \E m \in l..h : Runs(SubSeq(q, 1, k), s, l, m)
<1> DEFINE p == SubSeq(q, 1, k)
           Above == {m \in Nat : l <= m /\ \A i \in DOMAIN p :
                                   p[i][1] = s => p[i][2] <= m}
<1>1. /\ p \in Seq(Tuples)
      /\ DOMAIN p = 1..k
      /\ \A i \in 1..k : i \in DOMAIN q /\ p[i] = q[i]
  BY FrontAndRest
<1>2. /\ \A i \in DOMAIN q : q[i][2] \in Nat
      /\ DOMAIN q = 1..Len(q) /\ Len(q) \in Nat
  BY TupleAt
<1> HIDE DEF p
<1>3. h \in Above
  BY <1>1 DEF Runs
<1>4. PICK m \in Above : \A x \in Above : m <= x
  <2>1. Above \subseteq Nat /\ Above # {}
    BY <1>3
  <2> HIDE DEF Above
  <2>q. QED
    BY <2>1, NatLeast
<1>5. m \in l..h
  BY <1>3, <1>4
\* Either there is nothing before m, or m itself is there.
<1>6. m = l \/ \E i \in DOMAIN p : p[i][1] = s /\ p[i][2] = m
  <2> SUFFICES ASSUME m # l, \A i \in DOMAIN p : ~(p[i][1] = s /\ p[i][2] = m)
               PROVE  FALSE
    OBVIOUS
  <2>1. m - 1 \in Nat /\ l <= m - 1
    BY <1>5
  <2>2. ASSUME NEW i \in DOMAIN p, p[i][1] = s PROVE p[i][2] <= m - 1
    <3>1. p[i][2] <= m /\ p[i][2] # m /\ p[i][2] \in Nat
      BY <1>1, <1>2, <2>2
    <3>q. QED
      BY <1>5, <3>1
  <2>3. m - 1 \in Above
    BY <2>1, <2>2
  <2>q. QED
    BY <1>4, <1>5, <2>3
<1>7. \A n \in (l + 1)..m : \E i \in DOMAIN p : p[i][1] = s /\ p[i][2] = n
  <2> SUFFICES ASSUME NEW n \in (l + 1)..m
               PROVE  \E i \in DOMAIN p : p[i][1] = s /\ p[i][2] = n
    OBVIOUS
  <2>1. PICK t \in DOMAIN p : p[t][1] = s /\ p[t][2] = m
    BY <1>5, <1>6
  <2>2. PICK i \in DOMAIN q : q[i][1] = s /\ q[i][2] = n
    <3>1. n \in (l + 1)..h
      BY <1>5
    <3>q. QED
      BY <3>1 DEF Runs
  <2>3. i <= t
    <3> SUFFICES ASSUME t < i PROVE FALSE
      BY <1>1, <1>2
    <3>1. q[t][2] < q[i][2]
      BY <1>1, <2>1, <2>2 DEF Runs
    <3>q. QED
      BY <1>1, <1>5, <2>1, <2>2, <3>1
  <2>4. i \in DOMAIN p /\ p[i] = q[i]
    BY <1>1, <1>2, <2>3
  <2>q. QED
    BY <2>2, <2>4
<1>8. Runs(p, s, l, m)
  <2>1. \A i, j \in DOMAIN p : p[i][1] = s /\ p[j][1] = s /\ i < j => p[i][2] < p[j][2]
    BY <1>1 DEF Runs
  <2>2. \A i \in DOMAIN p : p[i][1] = s => l < p[i][2] /\ p[i][2] <= m
    BY <1>1, <1>4 DEF Runs
  <2>q. QED
    BY <1>7, <2>1, <2>2 DEF Runs
<1>q. QED
  BY <1>5, <1>8 DEF p

\* What is left of a run when its front is taken is a run from there on.
LEMMA RunsRest ==
  ASSUME NEW q \in Seq(Tuples), NEW s, NEW l \in Nat, NEW m \in Nat,
         NEW h \in Nat, l <= m,
         Runs(q, s, l, h), NEW k \in Nat, k <= Len(q),
         Runs(SubSeq(q, 1, k), s, l, m)
  PROVE  Runs(SubSeq(q, k + 1, Len(q)), s, m, h)
<1> DEFINE p == SubSeq(q, 1, k)
           r == SubSeq(q, k + 1, Len(q))
<1>1. /\ DOMAIN p = 1..k
      /\ \A i \in 1..k : i \in DOMAIN q /\ p[i] = q[i]
      /\ DOMAIN r = 1..(Len(q) - k)
      /\ \A i \in 1..(Len(q) - k) : k + i \in DOMAIN q /\ r[i] = q[k + i]
  BY FrontAndRest
<1>2. /\ \A i \in DOMAIN q : q[i][2] \in Nat
      /\ DOMAIN q = 1..Len(q) /\ Len(q) \in Nat
  BY TupleAt
<1>p. Runs(p, s, l, m)
  OBVIOUS
<1> HIDE DEF p, r
<1>3. ASSUME NEW i \in DOMAIN r, NEW j \in DOMAIN r, r[i][1] = s, r[j][1] = s, i < j
      PROVE  r[i][2] < r[j][2]
  <2>1. k + i < k + j
    BY <1>1, <1>2, <1>3
  <2>q. QED
    BY <1>1, <1>3, <2>1 DEF Runs
<1>4. ASSUME NEW i \in DOMAIN r, r[i][1] = s
      PROVE  m < r[i][2] /\ r[i][2] <= h
  <2>1. /\ k + i \in DOMAIN q /\ r[i] = q[k + i]
        /\ l < q[k + i][2] /\ q[k + i][2] <= h /\ q[k + i][2] \in Nat
    BY <1>1, <1>2, <1>4 DEF Runs
  <2>2. ASSUME q[k + i][2] <= m PROVE FALSE
    <3>1. q[k + i][2] \in (l + 1)..m
      BY <2>1, <2>2
    <3>2. PICK t \in DOMAIN p : p[t][1] = s /\ p[t][2] = q[k + i][2]
      BY <1>p, <3>1 DEF Runs
    <3>3. t \in DOMAIN q /\ q[t] = p[t] /\ t < k + i
      BY <1>1, <1>2, <3>2
    <3>4. q[t][2] < q[k + i][2]
      BY <1>4, <2>1, <3>2, <3>3 DEF Runs
    <3>q. QED
      BY <2>1, <3>2, <3>3, <3>4
  <2>q. QED
    BY <2>1, <2>2
<1>5. ASSUME NEW n \in (m + 1)..h
      PROVE  \E i \in DOMAIN r : r[i][1] = s /\ r[i][2] = n
  <2>1. PICK i \in DOMAIN q : q[i][1] = s /\ q[i][2] = n
    <3>1. n \in (l + 1)..h
      OBVIOUS
    <3>q. QED
      BY <3>1 DEF Runs
  <2>2. i > k
    <3> SUFFICES ASSUME i <= k PROVE FALSE
      BY <1>2
    <3>1. i \in DOMAIN p /\ p[i] = q[i]
      BY <1>1, <1>2
    <3>2. p[i][2] <= m
      BY <1>p, <2>1, <3>1 DEF Runs
    <3>q. QED
      BY <2>1, <3>1, <3>2
  <2>3. i - k \in DOMAIN r /\ k + (i - k) = i
    BY <1>1, <1>2, <2>2
  <2>4. r[i - k] = q[i]
    BY <1>1, <2>3
  <2>q. QED
    BY <2>1, <2>3, <2>4
<1>q. QED
  BY <1>3, <1>4, <1>5 DEF Runs, r

\* One tuple is a run of length one of its own stream and of no other.
LEMMA RunsOne ==
  ASSUME NEW a \in Arcs, NEW n \in Nat \ {0}
  PROVE  /\ <<<<a, n>>>> \in Seq(Tuples)
         /\ Runs(<<<<a, n>>>>, a, n - 1, n)
         /\ \A s, l : s # a /\ l \in Nat => Runs(<<<<a, n>>>>, s, l, l)
<1> DEFINE q == <<<<a, n>>>>
<1>1. q \in Seq(Tuples)
  <2>1. <<a, n>> \in Tuples
    BY DEF Tuples
  <2>q. QED
    BY <2>1
<1>2. DOMAIN q = {1} /\ q[1][1] = a /\ q[1][2] = n
  OBVIOUS
<1> HIDE DEF q
<1>3. Runs(q, a, n - 1, n)
  BY <1>2 DEF Runs
<1>4. ASSUME NEW s, NEW l, s # a, l \in Nat PROVE Runs(q, s, l, l)
  BY <1>2, <1>4 DEF Runs
<1>q. QED
  BY <1>1, <1>3, <1>4 DEF q

-----------------------------------------------------------------------------
(***************************************************************************)
(* Arc a carries the tuples of the sources in c[a]: a box passes on those  *)
(* of all its inputs, and no two inputs of a box carry the same source.    *)
(***************************************************************************)
Carries(c) ==
  /\ c \in [Arcs -> SUBSET InputArcs]
  /\ \A s \in InputArcs : c[s] = {s}
  /\ \A b \in Boxes :
       /\ \A o \in OutArcs(b) : c[o] = UNION {c[i] : i \in InArcs(b)}
       /\ \A i, j \in InArcs(b) : i # j => c[i] \cap c[j] = {}

\* A tuple has one way to any arc; where ways part and meet again, the box
\* where they meet would get it twice.
SinglePath == \E c \in [Arcs -> SUBSET InputArcs] : Carries(c)

\* Worker w has started on its element and has not released the box.
AtWork(w) ==
  wpc[w] \in {"load", "run", "deq", "forget", "enq", "count", "announce",
              "unlock"}

\* The inputs whose pinned tuples worker w has in its buffers.
Copied(w) ==
  IF wpc[w] = "load" THEN {Inputs(w)[i] : i \in 1..(warc[w] - 1)}
                     ELSE InArcs(wqe[w].box)

\* The outputs that have the results of worker w.
Placed(w) == IF wpc[w] = "unlock" THEN OutArcs(wqe[w].box) ELSE Stored(w)

\* How many tuples of input arc a are on it or were.
Arrived(a) ==
  IF ppc = "enq" /\ parc = a THEN generated[a] - 1 ELSE generated[a]

\* One number for every source.
Numbers == [InputArcs -> Nat]

\* Of source s, gone[a][s] tuples have left arc a and come[a][s] have got
\* there: the queue has the run in between.
ArcRuns(c, gone, come) ==
  \A a \in Arcs, s \in InputArcs :
    /\ gone[a][s] <= come[a][s]
    /\ come[a][s] <= generated[s]
    /\ Runs(queue[a], s, gone[a][s], come[a][s])
    /\ s \notin c[a] => come[a][s] = 0

\* An input arc has got what its source sent; an application's arc is never
\* read.
EndRuns(gone, come) ==
  /\ \A a \in InputArcs : come[a][a] = Arrived(a)
  /\ \A a \in AppArcs, s \in InputArcs : gone[a][s] = 0

\* What has gone from an input of box b has come to all its outputs.
Forwarded(c, b, gone, come) ==
  \A i \in InArcs(b), o \in OutArcs(b) : \A s \in c[i] : come[o][s] = gone[i][s]

\* No worker is at work on box b.
Rests(b) == \A w \in Workers : AtWork(w) => wqe[w].box # b

\* The buffers of worker w have the tuples numbered before[s] + 1 to upto[s]
\* of every source s, and none of a source that its box does not get.
BuffersRun(c, w, before, upto) ==
  \A s \in InputArcs :
    /\ before[s] <= upto[s]
    /\ upto[s] <= generated[s]
    /\ Runs(wout[w], s, before[s], upto[s])
    /\ (\A i \in InArcs(wqe[w].box) : s \notin c[i]) => upto[s] = 0

\* An input has lost them once they are removed.
InputsRun(c, w, gone, before, upto) ==
  \A i \in InArcs(wqe[w].box) : \A s \in c[i] :
    gone[i][s] = IF i \in Pinned(w) THEN before[s] ELSE upto[s]

\* Of an input not loaded yet there are none; of one that is loaded, what is
\* pinned are still the same tuples, to be removed.
CopiesRun(c, w, before, upto) ==
  \A i \in InArcs(wqe[w].box) : \A s \in c[i] :
    IF i \in Copied(w)
    THEN i \in Pinned(w) =>
           Runs(SubSeq(queue[i], 1, wqe[w].pin[i]), s, before[s], upto[s])
    ELSE upto[s] = before[s]

\* An output has got them once they are stored.
OutputsRun(w, come, before, upto) ==
  \A o \in OutArcs(wqe[w].box), s \in InputArcs :
    come[o][s] = IF o \in Placed(w) THEN upto[s] ELSE before[s]

\* What is true of the tuples that worker w moves from inputs to outputs.
TrainRuns(c, w, gone, come, before, upto) ==
  /\ BuffersRun(c, w, before, upto)
  /\ InputsRun(c, w, gone, before, upto)
  /\ CopiesRun(c, w, before, upto)
  /\ OutputsRun(w, come, before, upto)

\* The inductive invariant, of given numbers.
Ledger(c, gone, come, before, upto) ==
  /\ ArcRuns(c, gone, come)
  /\ EndRuns(gone, come)
  /\ \A b \in Boxes : Rests(b) => Forwarded(c, b, gone, come)
  /\ \A w \in Workers : AtWork(w) =>
       TrainRuns(c, w, gone, come, before[w], upto[w])

\* The numbers are not variables of the program; that there are some is
\* invariant.
StreamLedger(c) ==
  \E gone, come \in [Arcs -> Numbers], before, upto \in [Workers -> Numbers] :
    Ledger(c, gone, come, before, upto)

\* At the start no tuple has gone or come anywhere.
LEMMA InitLedger ==
  ASSUME Init, NEW c, Carries(c)
  PROVE  StreamLedger(c)
<1> DEFINE zero == [s \in InputArcs |-> 0]
           gone == [a \in Arcs |-> zero]
           before == [w \in Workers |-> zero]
<1>1. zero \in Numbers /\ gone \in [Arcs -> Numbers] /\ before \in [Workers -> Numbers]
  BY DEF Numbers
<1>2. /\ \A a \in Arcs, s \in InputArcs : gone[a][s] = 0
      /\ InputArcs \subseteq Arcs /\ AppArcs \subseteq Arcs
  BY DEF InputArcs, AppArcs
<1>3. /\ queue = [a \in Arcs |-> <<>>]
      /\ generated = [a \in InputArcs |-> 0]
      /\ ppc = "idle"
      /\ \A w \in Workers : ~AtWork(w)
  BY DEF Init, SMInit, StreamInit, WorkerInit, AtWork
<1> HIDE DEF zero, gone, before
<1>4. ArcRuns(c, gone, gone)
  <2>1. \A s \in InputArcs : Runs(<<>>, s, 0, 0)
    BY RunsEmpty
  <2>q. QED
    BY <1>2, <1>3, <2>1 DEF ArcRuns
<1>5. EndRuns(gone, gone)
  BY <1>2, <1>3 DEF EndRuns, Arrived
<1>6. ASSUME NEW b \in Boxes PROVE Forwarded(c, b, gone, gone)
  <2>1. InArcs(b) \subseteq Arcs /\ OutArcs(b) \subseteq Arcs
    BY CatalogAssumption
  <2>2. \A i \in InArcs(b) : c[i] \subseteq InputArcs
    BY <2>1 DEF Carries
  <2>q. QED
    BY <1>2, <2>1, <2>2 DEF Forwarded
<1>7. Ledger(c, gone, gone, before, before)
  BY <1>3, <1>4, <1>5, <1>6 DEF Ledger
<1>q. QED
  BY <1>1, <1>7 DEF StreamLedger

\* What the sets of a worker at work are while it stays at work.
LEMMA WorkSteps ==
  ASSUME TypeOK, NEW w \in Workers, Worker(w), AtWork(w), AtWork(w)'
  PROVE  /\ wqe'[w] = wqe[w]
         /\ ~LoadQueue(w) => Copied(w)' = Copied(w) /\ wout'[w] = wout[w]
         /\ ~RemoveInput(w) => Pinned(w)' = Pinned(w)
         /\ ~WriteOutput(w) =>
              \/ Placed(w)' = Placed(w)
              \/ wout[w] = <<>> /\ Placed(w) = {} /\ Placed(w)' = OutArcs(wqe[w].box)
<1> USE DEF TypeOK, Typing
<1>0. WorkerTyping
  OBVIOUS
<1>b. /\ wqe[w].box \in Boxes
      /\ Len(Inputs(w)) \in Nat \ {0} /\ Len(Outputs(w)) \in Nat \ {0}
  <2>1. wqe[w].box \in Boxes
    BY ElementHeld DEF AtWork
  <2>q. QED
    BY <2>1, ListsNotEmpty DEF Inputs, Outputs
<1>n. warc[w] \in Nat \ {0}
  BY <1>0 DEF WorkerTyping
<1>i. /\ InArcs(wqe[w].box) = {Inputs(w)[i] : i \in 1..Len(Inputs(w))}
      /\ OutArcs(wqe[w].box) = {Outputs(w)[i] : i \in 1..Len(Outputs(w))}
  BY DEF Inputs, Outputs, InArcs, OutArcs
<1>1. CASE LoadQueue(w)
  <2>1. /\ wpc[w] = "load" /\ wpc'[w] \in {"load", "run"}
        /\ wqe' = wqe
    BY <1>0, <1>1 DEF LoadQueue, Advance, GoTo, WorkerTyping
  <2>2. Pinned(w)' = Pinned(w)
    BY <2>1 DEF Pinned, InArcs
  <2>3. Placed(w)' = Placed(w)
    BY <2>1 DEF Placed, Stored
  <2>q. QED
    BY <1>1, <2>1, <2>2, <2>3
<1>2. CASE DoBox(w)
  <2>1. /\ wpc[w] = "run" /\ wpc'[w] = "deq" /\ warc'[w] = 1
        /\ wqe' = wqe /\ wout' = wout
    BY <1>0, <1>2 DEF DoBox, GoTo, AtWork, WorkerTyping, WorkerPhases, WorkerPhase
  <2>2. Pinned(w)' = Pinned(w)
    BY <1>i, <2>1 DEF Pinned, Inputs
  <2>3. Placed(w)' = Placed(w)
    BY <2>1 DEF Placed, Stored
  <2>4. Copied(w)' = Copied(w)
    BY <2>1 DEF Copied, InArcs
  <2>q. QED
    BY <2>1, <2>2, <2>3, <2>4
\* After the last input there is nothing left to remove.
<1>3. ASSUME UNCHANGED <<wqe, wout>>, wpc[w] \in {"deq", "forget"},
             warc[w] <= Len(Inputs(w)),
             Advance(w, Inputs(w), "deq", AfterInputs(w)) \/ (wpc[w] = "deq" /\ wpc'[w] = "forget")
      PROVE  /\ wqe'[w] = wqe[w] /\ wout'[w] = wout[w]
             /\ Copied(w)' = Copied(w)
             /\ wpc[w] = "forget" => Pinned(w)' = Pinned(w)
             /\ \/ Placed(w)' = Placed(w)
                \/ wout[w] = <<>> /\ Placed(w) = {} /\ Placed(w)' = OutArcs(wqe[w].box)
  <2>1. CASE wpc[w] = "deq" /\ wpc'[w] = "forget"
    BY <1>3, <2>1 DEF Copied, Placed, Stored, InArcs
  <2>2. CASE warc[w] < Len(Inputs(w)) /\ Advance(w, Inputs(w), "deq", AfterInputs(w))
    <3>1. wpc'[w] = "deq" /\ warc'[w] = warc[w] + 1
      BY <1>0, <2>2 DEF Advance, GoTo, WorkerTyping
    <3>2. wpc[w] = "forget" => Pinned(w)' = Pinned(w)
      BY <1>3, <3>1 DEF Pinned, Inputs
    <3>q. QED
      BY <1>3, <3>1, <3>2 DEF Copied, Placed, Stored, InArcs
  <2>3. CASE ~(warc[w] < Len(Inputs(w))) /\ Advance(w, Inputs(w), "deq", AfterInputs(w))
    <3>1. wpc'[w] = AfterInputs(w) /\ warc'[w] = 1
      BY <1>0, <2>3 DEF Advance, GoTo, WorkerTyping
    <3>2. Copied(w)' = Copied(w)
      BY <1>3, <3>1 DEF Copied, InArcs, AfterInputs
    <3>3. ASSUME wpc[w] = "forget" PROVE Pinned(w)' = Pinned(w)
      <4>1. (warc[w] + 1)..Len(Inputs(w)) = {}
        BY <1>b, <1>n, <2>3
      <4>2. Pinned(w) = {}
        BY <3>3, <4>1 DEF Pinned
      <4>q. QED
        BY <3>1, <4>2 DEF Pinned, AfterInputs
    <3>4. Placed(w) = {}
      BY <1>3 DEF Placed, Stored
    <3>5. CASE wout[w] = <<>>
      BY <1>3, <3>1, <3>2, <3>3, <3>4, <3>5 DEF Placed, Stored, AfterInputs, OutArcs
    <3>6. CASE wout[w] # <<>>
      <4>1. wpc'[w] = "enq"
        BY <3>1, <3>6 DEF AfterInputs
      <4>2. 1..(warc'[w] - 1) = {}
        BY <3>1
      <4>3. Placed(w)' = {}
        BY <4>1, <4>2 DEF Placed, Stored
      <4>q. QED
        BY <1>3, <3>2, <3>3, <3>4, <4>3
    <3>q. QED
      BY <3>5, <3>6
  <2>q. QED
    BY <1>3, <2>1, <2>2, <2>3
<1>4. CASE RemoveInput(w)
  <2>1. /\ UNCHANGED <<wqe, wout>> /\ wpc[w] = "deq"
        /\ warc[w] <= Len(Inputs(w))
        /\ \/ wpc'[w] = "forget"
           \/ Advance(w, Inputs(w), "deq", AfterInputs(w))
    BY <1>0, <1>4 DEF RemoveInput, GoTo, WorkerTyping, WorkerPhases, WorkerPhase
  <2>q. QED
    BY <1>3, <1>4, <2>1
<1>5. CASE ForgetInput(w)
  <2>1. /\ UNCHANGED <<wqe, wout>> /\ wpc[w] = "forget"
        /\ warc[w] <= Len(Inputs(w))
        /\ Advance(w, Inputs(w), "deq", AfterInputs(w))
    BY <1>0, <1>5 DEF ForgetInput, WorkerTyping, WorkerPhases, WorkerPhase
  <2>q. QED
    BY <1>3, <2>1
<1>6. CASE WriteOutput(w) \/ CountOutput(w) \/ AnnounceNewAppTuples(w)
  <2>1. /\ UNCHANGED <<wqe, wout>>
        /\ wpc[w] \in {"enq", "count", "announce"}
        /\ wpc'[w] \in {"enq", "count", "announce", "unlock"}
        /\ AnnounceNewAppTuples(w) <=> wpc[w] = "announce"
        /\ wpc'[w] = "unlock" <=> wpc[w] = "announce"
    BY <1>0, <1>6 DEF WriteOutput, CountOutput, AnnounceNewAppTuples, Advance, GoTo,
      WorkerTyping
  <2>2. Pinned(w)' = Pinned(w) /\ Copied(w)' = Copied(w)
    BY <2>1 DEF Pinned, Copied, InArcs
  <2>3. ASSUME ~WriteOutput(w)
        PROVE  Placed(w)' = Placed(w)
    <3>1. CASE wpc[w] = "announce"
      BY <2>1, <3>1 DEF Placed, Stored, OutArcs
    <3>2. CASE wpc[w] # "announce"
      <4>1. wpc[w] = "count" /\ ~RemoveInput(w) /\ ~ForgetInput(w)
        BY <1>6, <2>1, <2>3, <3>2 DEF CountOutput, RemoveInput, ForgetInput
      <4>2. Stored(w)' = Stored(w)
        BY <2>1, <2>3, <3>2, <4>1, StoredSteps
      <4>q. QED
        BY <2>1, <3>2, <4>1, <4>2 DEF Placed
    <3>q. QED
      BY <3>1, <3>2
  <2>q. QED
    BY <2>1, <2>2, <2>3
<1>7. ~ReleaseBox(w)
  BY <1>0 DEF ReleaseBox, AtWork, GoTo, WorkerTyping
<1>q. QED
  BY <1>1, <1>2, <1>4, <1>5, <1>6, <1>7 DEF Worker, AtWork, AtTop, CheckQueue,
    WaitForWork, CheckStop, SignalScheduler

-----------------------------------------------------------------------------
\* A worker at work has an element, so no other worker has its box.
LEMMA OwnBox ==
  ASSUME TypeOK, BoxExclusion, NEW w \in Busy
  PROVE  /\ w \in Workers
         /\ wqe[w].box \in Boxes
         /\ wqe[w].pin \in [Arcs -> Nat]
         /\ \A v \in Workers \ {w} : AtWork(v) => wqe[v].box # wqe[w].box
<1>1. \A v \in Workers : AtWork(v) => v \in Busy
  BY ElementHeld DEF AtWork, Busy
<1>2. \A v \in Workers \ {w} : AtWork(v) => wqe[v].box # wqe[w].box
  BY <1>1 DEF BoxExclusion, BusyOnce
<1>3. w \in Workers /\ wqe[w] \in QueueElements /\ wqe[w] # NoQE
  BY DEF Busy, TypeOK, Typing, WorkerTyping
<1>4. wqe[w].box \in Boxes /\ wqe[w].pin \in [Arcs -> Int]
  BY <1>3 DEF QueueElements
<1>5. \A a \in Arcs : wqe[w].pin[a] >= 0
  BY <1>3 DEF TypeOK, CountsNatural
<1>q. QED
  BY <1>2, <1>3, <1>4, <1>5

\* Where the runs of an arc depend on nothing that changed, they stay.
LEMMA TrainFrame ==
  ASSUME TypeOK, NEW v \in Workers, AtWork(v), NEW c,
         NEW gone, NEW come, NEW before, NEW upto, NEW gone2, NEW come2,
         TrainRuns(c, v, gone, come, before, upto),
         wpc'[v] = wpc[v], wqe'[v] = wqe[v], wout'[v] = wout[v], warc'[v] = warc[v],
         \A s \in InputArcs : upto[s] <= generated[s] => upto[s] <= generated'[s],
         \A i \in InArcs(wqe[v].box) : gone2[i] = gone[i],
         \A o \in OutArcs(wqe[v].box) : come2[o] = come[o],
         \A i \in InArcs(wqe[v].box) : i \in Pinned(v) =>
           SubSeq(queue'[i], 1, wqe[v].pin[i]) = SubSeq(queue[i], 1, wqe[v].pin[i])
  PROVE  TrainRuns(c, v, gone2, come2, before, upto)'
<1>1. /\ Pinned(v)' = Pinned(v)
      /\ Copied(v)' = Copied(v)
      /\ Placed(v)' = Placed(v)
      /\ InArcs(wqe[v].box)' = InArcs(wqe[v].box)
      /\ OutArcs(wqe[v].box)' = OutArcs(wqe[v].box)
  BY DEF Pinned, Copied, Placed, Stored, Inputs, Outputs, InArcs, OutArcs
<1>2. BuffersRun(c, v, before, upto)'
  BY <1>1 DEF TrainRuns, BuffersRun, Runs
<1>3. InputsRun(c, v, gone2, before, upto)'
  BY <1>1 DEF TrainRuns, InputsRun
<1>4. CopiesRun(c, v, before, upto)'
  <2> SUFFICES ASSUME NEW i \in InArcs(wqe[v].box), NEW s \in c[i]
               PROVE  IF i \in Copied(v)
                      THEN i \in Pinned(v) =>
                        Runs(SubSeq(queue'[i], 1, wqe[v].pin[i]), s, before[s], upto[s])
                      ELSE upto[s] = before[s]
    BY <1>1 DEF CopiesRun
  <2>1. IF i \in Copied(v)
        THEN i \in Pinned(v) =>
               Runs(SubSeq(queue[i], 1, wqe[v].pin[i]), s, before[s], upto[s])
        ELSE upto[s] = before[s]
    BY DEF TrainRuns, CopiesRun
  <2>2. i \in Pinned(v) =>
          SubSeq(queue'[i], 1, wqe[v].pin[i]) = SubSeq(queue[i], 1, wqe[v].pin[i])
    OBVIOUS
  <2>q. QED
    BY <2>1, <2>2
<1>5. OutputsRun(v, come2, before, upto)'
  BY <1>1 DEF TrainRuns, OutputsRun
<1>q. QED
  BY <1>2, <1>3, <1>4, <1>5 DEF TrainRuns

\* A step that neither moves a tuple nor a worker at work.
LEMMA QuietLedger ==
  ASSUME TypeOK, NEW c, NEW gone, NEW come, NEW before, NEW upto,
         Ledger(c, gone, come, before, upto),
         UNCHANGED <<queue, generated>>,
         \A a \in InputArcs : Arrived(a)' = Arrived(a),
         \A v \in Workers : AtWork(v)' = AtWork(v),
         \A v \in Workers : AtWork(v) =>
           /\ wpc'[v] = wpc[v] /\ wqe'[v] = wqe[v]
           /\ wout'[v] = wout[v] /\ warc'[v] = warc[v]
  PROVE  Ledger(c, gone, come, before, upto)'
<1>1. ArcRuns(c, gone, come)'
  BY DEF Ledger, ArcRuns, Runs
<1>2. EndRuns(gone, come)'
  BY DEF Ledger, EndRuns
<1>3. ASSUME NEW b \in Boxes, Rests(b)' PROVE Forwarded(c, b, gone, come)'
  <2>1. Rests(b)
    BY <1>3 DEF Rests
  <2>2. Forwarded(c, b, gone, come)
    BY <2>1 DEF Ledger
  <2>q. QED
    BY <2>2 DEF Forwarded, InArcs, OutArcs
<1>4. ASSUME NEW v \in Workers, AtWork(v)'
      PROVE  TrainRuns(c, v, gone, come, before[v], upto[v])'
  <2>1. AtWork(v)
    BY <1>4
  <2>2. TrainRuns(c, v, gone, come, before[v], upto[v])
    BY <2>1 DEF Ledger
  <2>q. QED
    BY <2>1, <2>2, TrainFrame
<1>q. QED
  BY <1>1, <1>2, <1>3, <1>4 DEF Ledger

\* A step of worker w on its element touches what is at the ends of its box
\* only: what is left to show is w's own part, and the arcs.
LEMMA OwnLedger ==
  ASSUME TypeOK, BoxExclusion, PinsAvailable,
         NEW c, NEW gone, NEW come, NEW before, NEW upto,
         NEW gone2, NEW come2, NEW before2, NEW upto2,
         Ledger(c, gone, come, before, upto),
         NEW w \in Busy, Worker(w), UNCHANGED streamVars,
         \A v \in Workers \ {w} : before2[v] = before[v] /\ upto2[v] = upto[v],
         \A a \in Arcs : DestId[a] # wqe[w].box =>
           /\ gone2[a] = gone[a]
           /\ \A n \in Nat : n <= Len(queue[a]) =>
                SubSeq(queue'[a], 1, n) = SubSeq(queue[a], 1, n),
         \A a \in Arcs : SrcId[a] # wqe[w].box => come2[a] = come[a],
         AtWork(w)' =>
           /\ wqe'[w] = wqe[w]
           /\ TrainRuns(c, w, gone2, come2, before2[w], upto2[w])',
         ~AtWork(w)' => Forwarded(c, wqe[w].box, gone2, come2),
         ArcRuns(c, gone2, come2)'
  PROVE  Ledger(c, gone2, come2, before2, upto2)'
<1>0. /\ w \in Workers
      /\ wqe[w].box \in Boxes
      /\ \A v \in Workers \ {w} : AtWork(v) => wqe[v].box # wqe[w].box
  BY OwnBox
<1>o. ASSUME NEW v \in Workers \ {w}
      PROVE  /\ wpc'[v] = wpc[v] /\ wqe'[v] = wqe[v]
             /\ wout'[v] = wout[v] /\ warc'[v] = warc[v]
             /\ AtWork(v)' = AtWork(v)
  <2>1. /\ wpc'[v] = wpc[v] /\ wqe'[v] = wqe[v]
        /\ wout'[v] = wout[v] /\ warc'[v] = warc[v]
    BY <1>0, OtherWorkers DEF TypeOK, Typing
  <2>q. QED
    BY <2>1 DEF AtWork
<1>b. ASSUME NEW b \in Boxes, b # wqe[w].box
      PROVE  /\ \A i \in InArcs(b) : i \in Arcs /\ DestId[i] # wqe[w].box
             /\ \A o \in OutArcs(b) : o \in Arcs /\ SrcId[o] # wqe[w].box
  BY <1>b, CatalogAssumption
<1>1. EndRuns(gone2, come2)'
  <2>1. /\ InputArcs \subseteq Arcs /\ AppArcs \subseteq Arcs
        /\ \A a \in InputArcs : SrcId[a] # wqe[w].box
        /\ \A a \in AppArcs : DestId[a] # wqe[w].box
    BY <1>0, CatalogAssumption DEF InputArcs, AppArcs
  <2>2. EndRuns(gone, come)
    BY DEF Ledger
  <2>3. \A a \in InputArcs : Arrived(a)' = Arrived(a)
    BY DEF Arrived
  <2>4. \A a \in InputArcs : come2[a][a] = Arrived(a)'
    BY <2>1, <2>2, <2>3 DEF EndRuns
  <2>5. \A a \in AppArcs, s \in InputArcs : gone2[a][s] = 0
    BY <2>1, <2>2 DEF EndRuns
  <2>q. QED
    BY <2>4, <2>5 DEF EndRuns
<1>2. ASSUME NEW b \in Boxes, Rests(b)'
      PROVE  Forwarded(c, b, gone2, come2)'
  <2>1. CASE b = wqe[w].box
    <3>1. ~AtWork(w)'
      BY <1>0, <1>2, <2>1 DEF Rests
    <3>2. Forwarded(c, wqe[w].box, gone2, come2)
      BY <3>1
    <3>q. QED
      BY <2>1, <3>2 DEF Forwarded, InArcs, OutArcs
  <2>2. CASE b # wqe[w].box
    <3>1. Rests(b)
      BY <1>o, <1>2, <2>2 DEF Rests
    <3>2. Forwarded(c, b, gone, come)
      BY <3>1 DEF Ledger
    <3>3. /\ \A i \in InArcs(b) : gone2[i] = gone[i]
          /\ \A o \in OutArcs(b) : come2[o] = come[o]
      BY <1>b, <2>2
    <3>q. QED
      BY <3>2, <3>3 DEF Forwarded, InArcs, OutArcs
  <2>q. QED
    BY <2>1, <2>2
<1>3. ASSUME NEW v \in Workers, AtWork(v)'
      PROVE  TrainRuns(c, v, gone2, come2, before2[v], upto2[v])'
  <2>1. CASE v = w
    BY <1>3, <2>1
  <2>2. CASE v # w
    <3>1. AtWork(v) /\ wqe[v].box # wqe[w].box
      BY <1>0, <1>o, <1>3, <2>2
    <3>2. /\ wqe[v].box \in Boxes /\ v \in Busy
          /\ wqe[v].pin \in [Arcs -> Nat]
      BY <3>1, ElementHeld DEF AtWork, Busy
    <3> DEFINE f == before[v]
               t == upto[v]
    <3>3. TrainRuns(c, v, gone, come, f, t)
      BY <3>1 DEF Ledger
    <3>7. before2[v] = f /\ upto2[v] = t
      BY <2>2
    <3> HIDE DEF f, t
    <3>4. /\ \A i \in InArcs(wqe[v].box) : gone2[i] = gone[i]
          /\ \A o \in OutArcs(wqe[v].box) : come2[o] = come[o]
      BY <1>b, <3>1, <3>2
    <3>5. ASSUME NEW i \in InArcs(wqe[v].box), i \in Pinned(v)
          PROVE  SubSeq(queue'[i], 1, wqe[v].pin[i]) = SubSeq(queue[i], 1, wqe[v].pin[i])
      <4>1. i \in Arcs /\ DestId[i] # wqe[w].box
        BY <1>b, <3>1, <3>2
      <4>2. wqe[v].pin[i] <= Len(queue[i]) /\ wqe[v].pin[i] \in Nat
        BY <3>2, <3>5, <4>1 DEF PinsAvailable
      <4>q. QED
        BY <4>1, <4>2
    <3>6. TrainRuns(c, v, gone2, come2, f, t)'
      <4>1. /\ wpc'[v] = wpc[v] /\ wqe'[v] = wqe[v]
            /\ wout'[v] = wout[v] /\ warc'[v] = warc[v]
        BY <1>o, <2>2
      <4>2. \A s \in InputArcs : t[s] <= generated[s] => t[s] <= generated'[s]
        OBVIOUS
      <4>q. QED
        BY <3>1, <3>3, <3>4, <3>5, <4>1, <4>2, TrainFrame
    <3>q. QED
      BY <3>6, <3>7
  <2>q. QED
    BY <2>1, <2>2
<1>q. QED
  BY <1>1, <1>2, <1>3 DEF Ledger

\* What has all the results of a worker may be all its outputs, there being
\* no results.
LEMMA OutputsStay ==
  ASSUME NEW w \in Workers, NEW c, NEW come,
         NEW f \in Numbers, NEW t \in Numbers,
         BuffersRun(c, w, f, t), OutputsRun(w, come, f, t), wqe'[w] = wqe[w],
         \/ Placed(w)' = Placed(w)
         \/ wout[w] = <<>> /\ Placed(w) = {} /\ Placed(w)' = OutArcs(wqe[w].box)
  PROVE  OutputsRun(w, come, f, t)'
<1>0. OutArcs(wqe[w].box)' = OutArcs(wqe[w].box)
  BY DEF OutArcs
<1>1. CASE Placed(w)' = Placed(w)
  BY <1>0, <1>1 DEF OutputsRun
<1>2. CASE wout[w] = <<>> /\ Placed(w) = {} /\ Placed(w)' = OutArcs(wqe[w].box)
  <2>1. ASSUME NEW s \in InputArcs PROVE f[s] = t[s]
    <3>1. f[s] <= t[s] /\ Runs(<<>>, s, f[s], t[s])
      BY <1>2 DEF BuffersRun
    <3>2. f[s] \in Nat /\ t[s] \in Nat
      BY DEF Numbers
    <3>q. QED
      BY <3>1, <3>2, RunsEmpty
  <2>q. QED
    BY <1>0, <1>2, <2>1 DEF OutputsRun
<1>q. QED
  BY <1>1, <1>2

\* Storing at the end of a queue leaves its front.
LEMMA FrontStays ==
  ASSUME NEW p \in Seq(Tuples), NEW q \in Seq(Tuples), NEW n \in Nat, n <= Len(p)
  PROVE  SubSeq(p \o q, 1, n) = SubSeq(p, 1, n)
<1>1. /\ p \o q \in Seq(Tuples) /\ Len(p \o q) = Len(p) + Len(q)
      /\ \A i \in 1..Len(p) : (p \o q)[i] = p[i]
      /\ Len(p) \in Nat /\ Len(q) \in Nat
  BY ConcatProperties
<1> DEFINE r == p \o q
<1> HIDE DEF r
<1>2. r \in Seq(Tuples) /\ n <= Len(r) /\ \A i \in 1..n : r[i] = p[i]
  BY <1>1 DEF r
<1>3. /\ SubSeq(r, 1, n) \in Seq(Tuples) /\ SubSeq(p, 1, n) \in Seq(Tuples)
      /\ DOMAIN SubSeq(r, 1, n) = 1..n /\ DOMAIN SubSeq(p, 1, n) = 1..n
      /\ \A i \in 1..n : SubSeq(r, 1, n)[i] = SubSeq(p, 1, n)[i]
  BY <1>2, FrontAndRest
<1>4. Len(SubSeq(r, 1, n)) = n /\ Len(SubSeq(p, 1, n)) = n
  BY <1>3
<1>q. QED
  BY <1>3, <1>4, SeqEqual DEF r

\* Loading an input copies its pinned tuples, all there, behind the others.
LEMMA LoadEffect ==
  ASSUME TypeOK, PinsAvailable, NEW w \in Workers, LoadQueue(w),
         NEW a, a = Inputs(w)[warc[w]]
  PROVE  /\ a \in Arcs /\ a \in InArcs(wqe[w].box)
         /\ w \in Busy
         /\ wqe[w].pin[a] \in Nat /\ wqe[w].pin[a] <= Len(queue[a])
         /\ a \notin Copied(w)
         /\ Copied(w)' = Copied(w) \cup {a}
         /\ Pinned(w) = InArcs(wqe[w].box)
         /\ Placed(w) = {}
         /\ UNCHANGED <<queue, wqe>>
         /\ wout'[w] = wout[w] \o SubSeq(queue[a], 1, wqe[w].pin[a])
         /\ AtWork(w) /\ AtWork(w)'
<1> USE DEF TypeOK, Typing
<1>0. WorkerTyping
  OBVIOUS
<1>1. wpc[w] = "load" /\ wqe' = wqe /\ queue' = queue
  BY DEF LoadQueue
<1>2. /\ a \in Arcs /\ a \in InArcs(wqe[w].box)
      /\ wqe[w].pin[a] \in Nat
      /\ Len(Inputs(w)) \in Nat
  BY <1>1, InputAt
<1>3. w \in Busy /\ wqe[w].box \in Boxes
  BY <1>1, ElementHeld DEF Busy
<1>4. Pinned(w) = InArcs(wqe[w].box)
  BY <1>1 DEF Pinned
<1>5. wqe[w].pin[a] <= Len(queue[a])
  BY <1>2, <1>3, <1>4 DEF PinsAvailable
<1>6. Len(queue[a]) \in Nat
  BY <1>2 DEF StorageTyping
<1>7. DequeuePin(a, wqe[w].pin[a]) = SubSeq(queue[a], 1, wqe[w].pin[a])
  <2>1. CASE wqe[w].pin[a] < Len(queue[a])
    BY <2>1 DEF DequeuePin
  <2>2. CASE wqe[w].pin[a] = Len(queue[a])
    BY <2>2 DEF DequeuePin
  <2>q. QED
    BY <1>2, <1>5, <1>6, <2>1, <2>2
<1>8. wout'[w] = wout[w] \o SubSeq(queue[a], 1, wqe[w].pin[a])
  BY <1>0, <1>7 DEF LoadQueue, WorkerTyping
<1>9. /\ warc[w] \in Nat \ {0} /\ warc[w] <= Len(Inputs(w))
  BY <1>0, <1>1 DEF WorkerTyping, WorkerPhases, WorkerPhase
<1>10. Copied(w) = {Inputs(w)[i] : i \in 1..(warc[w] - 1)}
  BY <1>1 DEF Copied
<1>11. 1..warc[w] = 1..(warc[w] - 1) \cup {warc[w]}
  BY <1>9
<1>12. a \notin Copied(w)
  <2> SUFFICES ASSUME NEW i \in 1..(warc[w] - 1), Inputs(w)[i] = a
               PROVE  FALSE
    BY <1>10
  <2>1. i \in 1..Len(Inputs(w)) /\ warc[w] \in 1..Len(Inputs(w)) /\ i # warc[w]
    BY <1>2, <1>9
  <2>2. NoRepeat(Inputs(w))
    BY <1>3, CatalogAssumption DEF Inputs
  <2>q. QED
    BY <2>1, <2>2 DEF NoRepeat
<1>13. /\ Copied(w)' = Copied(w) \cup {a}
       /\ AtWork(w)'
  <2>1. Copied(w) \cup {a} = {Inputs(w)[i] : i \in 1..warc[w]}
    BY <1>10, <1>11
  <2>2. CASE warc[w] < Len(Inputs(w))
    <3>1. wpc'[w] = "load" /\ warc'[w] = warc[w] + 1
      BY <1>0, <2>2 DEF LoadQueue, Advance, GoTo, WorkerTyping
    <3>2. warc'[w] - 1 = warc[w]
      BY <1>9, <3>1
    <3>q. QED
      BY <1>1, <2>1, <3>1, <3>2 DEF Copied, Inputs, AtWork
  <2>3. CASE ~(warc[w] < Len(Inputs(w)))
    <3>1. wpc'[w] = "run" /\ warc[w] = Len(Inputs(w))
      BY <1>0, <1>2, <1>9, <2>3 DEF LoadQueue, Advance, GoTo, WorkerTyping
    <3>2. Copied(w)' = InArcs(wqe[w].box)
      BY <1>1, <3>1 DEF Copied, InArcs
    <3>q. QED
      BY <2>1, <3>1, <3>2 DEF InArcs, Inputs, AtWork
  <2>q. QED
    BY <2>2, <2>3
<1>14. Placed(w) = {} /\ AtWork(w)
  BY <1>1 DEF Placed, Stored, AtWork
<1>q. QED
  BY <1>1, <1>2, <1>3, <1>4, <1>5, <1>8, <1>12, <1>13, <1>14

\* Removing from an input takes its pinned tuples, and it is done with.
LEMMA RemoveTakes ==
  ASSUME TypeOK, CountsConsistent, PinsAvailable,
         NEW w \in Workers, RemoveInput(w),
         NEW a, a = Inputs(w)[warc[w]]
  PROVE  /\ a \in Arcs /\ a \in InArcs(wqe[w].box)
         /\ w \in Busy
         /\ wqe[w].pin[a] \in Nat /\ wqe[w].pin[a] <= Len(queue[a])
         /\ a \in Pinned(w)
         /\ Pinned(w)' = Pinned(w) \ {a}
         /\ Copied(w) = InArcs(wqe[w].box)
         /\ queue'[a] = SubSeq(queue[a], wqe[w].pin[a] + 1, Len(queue[a]))
         /\ \A i \in Arcs \ {a} : queue'[i] = queue[i]
         /\ AtWork(w) /\ AtWork(w)'
<1> USE DEF TypeOK, Typing
<1>0. WorkerTyping
  OBVIOUS
<1>1. /\ a \in Arcs /\ a \in InArcs(wqe[w].box)
      /\ w \in Busy
      /\ wpc[w] = "deq"
      /\ wqe' = wqe
      /\ \A i \in Arcs \ {a} : queue'[i] = queue[i]
  BY RemoveEffect
<1>2. wqe[w].pin[a] \in Nat /\ Len(Inputs(w)) \in Nat
  BY <1>1, InputAt
<1>3. warc[w] \in Nat \ {0} /\ warc[w] <= Len(Inputs(w))
  BY <1>0, <1>1 DEF WorkerTyping, WorkerPhases, WorkerPhase
<1>4. Pinned(w) = {Inputs(w)[i] : i \in warc[w]..Len(Inputs(w))}
  BY <1>1 DEF Pinned
<1>5. warc[w]..Len(Inputs(w)) = {warc[w]} \cup (warc[w] + 1)..Len(Inputs(w))
  BY <1>2, <1>3
<1>6. a \in Pinned(w)
  BY <1>4, <1>5
<1>7. wqe[w].pin[a] <= Len(queue[a])
  BY <1>1, <1>6 DEF PinsAvailable
<1> DEFINE rest == {Inputs(w)[i] : i \in (warc[w] + 1)..Len(Inputs(w))}
<1>8. Pinned(w) = rest \cup {a}
  BY <1>4, <1>5
<1>9. /\ Pinned(w)' = rest
      /\ AtWork(w)'
  <2>1. \/ wpc'[w] = "forget" /\ warc' = warc
        \/ Advance(w, Inputs(w), "deq", AfterInputs(w))
    BY <1>0 DEF RemoveInput, GoTo, WorkerTyping
  <2>2. CASE wpc'[w] = "forget" /\ warc' = warc
    BY <1>1, <2>2 DEF Pinned, Inputs, AtWork
  <2>3. CASE Advance(w, Inputs(w), "deq", AfterInputs(w)) /\ warc[w] < Len(Inputs(w))
    <3>1. wpc'[w] = "deq" /\ warc'[w] = warc[w] + 1
      BY <1>0, <2>3 DEF Advance, GoTo, WorkerTyping
    <3>q. QED
      BY <1>1, <3>1 DEF Pinned, Inputs, AtWork
  <2>4. CASE Advance(w, Inputs(w), "deq", AfterInputs(w)) /\ ~(warc[w] < Len(Inputs(w)))
    <3>1. wpc'[w] \in {"enq", "announce"}
      BY <1>0, <2>4 DEF Advance, GoTo, WorkerTyping, AfterInputs
    <3>2. (warc[w] + 1)..Len(Inputs(w)) = {}
      BY <1>2, <1>3, <2>4
    <3>3. rest = {}
      BY <3>2
    <3>q. QED
      BY <3>1, <3>3 DEF Pinned, AtWork
  <2>q. QED
    BY <2>1, <2>2, <2>3, <2>4
<1>10. a \notin rest
  BY <1>1, <1>9, PinnedShrinks DEF Worker
<1>11. queue'[a] = SubSeq(queue[a], wqe[w].pin[a] + 1, Len(queue[a]))
  BY <1>1 DEF RemoveInput, DequeueRemove, StorageTyping
<1>12. Copied(w) = InArcs(wqe[w].box) /\ AtWork(w)
  BY <1>1 DEF Copied, AtWork
<1>q. QED
  BY <1>1, <1>2, <1>6, <1>7, <1>8, <1>9, <1>10, <1>11, <1>12

\* The front of a run ends within it.
LEMMA RunsWithin ==
  ASSUME NEW q \in Seq(Tuples), NEW s, NEW l \in Nat, NEW m \in Nat,
         NEW h \in Nat, l <= m, l <= h,
         Runs(q, s, l, h), NEW k \in Nat, k <= Len(q),
         Runs(SubSeq(q, 1, k), s, l, m)
  PROVE  m <= h
<1>1. /\ DOMAIN SubSeq(q, 1, k) = 1..k
      /\ \A i \in 1..k : i \in DOMAIN q /\ SubSeq(q, 1, k)[i] = q[i]
  BY FrontAndRest
<1>2. CASE m = l
  BY <1>2
<1>3. CASE m # l
  <2>1. m \in (l + 1)..m
    BY <1>3
  <2>2. PICK i \in DOMAIN SubSeq(q, 1, k) :
          SubSeq(q, 1, k)[i][1] = s /\ SubSeq(q, 1, k)[i][2] = m
    BY <2>1 DEF Runs
  <2>3. i \in DOMAIN q /\ q[i][1] = s /\ q[i][2] = m
    BY <1>1, <2>2
  <2>q. QED
    BY <2>3 DEF Runs
<1>q. QED
  BY <1>2, <1>3

\* What is in the numbers of a ledger, row by row.
LEMMA Rows ==
  ASSUME NEW f \in [Arcs -> Numbers], NEW a \in Arcs, NEW row \in Numbers
  PROVE  /\ [f EXCEPT ![a] = row] \in [Arcs -> Numbers]
         /\ [f EXCEPT ![a] = row][a] = row
         /\ \A i \in Arcs \ {a} : [f EXCEPT ![a] = row][i] = f[i]
OBVIOUS

\* Likewise, worker by worker.
LEMMA WorkerRows ==
  ASSUME NEW f \in [Workers -> Numbers], NEW w \in Workers, NEW row \in Numbers
  PROVE  /\ [f EXCEPT ![w] = row] \in [Workers -> Numbers]
         /\ [f EXCEPT ![w] = row][w] = row
         /\ \A v \in Workers \ {w} : [f EXCEPT ![w] = row][v] = f[v]
OBVIOUS

\* The streams of the inputs of a box are sources, and each comes in once.
LEMMA StreamsOfBox ==
  ASSUME NEW c, Carries(c), NEW b \in Boxes
  PROVE  /\ \A i \in InArcs(b) : i \in Arcs /\ DestId[i] = b /\ c[i] \subseteq InputArcs
         /\ \A o \in OutArcs(b) : o \in Arcs /\ SrcId[o] = b /\ c[o] \subseteq InputArcs
         /\ \A i, j \in InArcs(b) : \A s \in c[i] : s \in c[j] => i = j
         /\ \A o \in OutArcs(b) : \A s : s \in c[o] <=> \E i \in InArcs(b) : s \in c[i]
<1>1. /\ \A i \in InArcs(b) : i \in Arcs /\ DestId[i] = b
      /\ \A o \in OutArcs(b) : o \in Arcs /\ SrcId[o] = b
  BY CatalogAssumption
<1>2. \A a \in Arcs : c[a] \subseteq InputArcs
  BY DEF Carries
<1>3. \A i, j \in InArcs(b) : \A s \in c[i] : s \in c[j] => i = j
  BY DEF Carries
<1>4. \A o \in OutArcs(b) : c[o] = UNION {c[i] : i \in InArcs(b)}
  BY DEF Carries
<1>5. ASSUME NEW o \in OutArcs(b), NEW s
      PROVE  s \in c[o] <=> \E i \in InArcs(b) : s \in c[i]
  BY <1>4
<1>q. QED
  BY <1>1, <1>2, <1>3, <1>5

\* Loading an input: the train gets as far as the front of the input's run.
LEMMA LoadLedger ==
  ASSUME TypeOK, BoxExclusion, PinsAvailable, NEW c, Carries(c),
         NEW gone \in [Arcs -> Numbers], NEW come \in [Arcs -> Numbers],
         NEW before \in [Workers -> Numbers], NEW upto \in [Workers -> Numbers],
         Ledger(c, gone, come, before, upto),
         NEW w \in Workers, LoadQueue(w), UNCHANGED streamVars
  PROVE  StreamLedger(c)'
<1> DEFINE f == before[w]
           t == upto[w]
<1>1. PICK a : a = Inputs(w)[warc[w]]
  OBVIOUS
<1>2. /\ a \in Arcs /\ a \in InArcs(wqe[w].box)
      /\ w \in Busy
      /\ wqe[w].pin[a] \in Nat /\ wqe[w].pin[a] <= Len(queue[a])
      /\ a \notin Copied(w)
      /\ Copied(w)' = Copied(w) \cup {a}
      /\ Pinned(w) = InArcs(wqe[w].box)
      /\ Placed(w) = {}
      /\ UNCHANGED <<queue, wqe>>
      /\ wout'[w] = wout[w] \o SubSeq(queue[a], 1, wqe[w].pin[a])
      /\ AtWork(w) /\ AtWork(w)'
  BY <1>1, LoadEffect
<1>3. wqe[w].box \in Boxes
  BY <1>2, OwnBox
<1>4. /\ BuffersRun(c, w, f, t)
      /\ InputsRun(c, w, gone, f, t)
      /\ CopiesRun(c, w, f, t)
      /\ OutputsRun(w, come, f, t)
  BY <1>2 DEF Ledger, TrainRuns
<1>5. f \in Numbers /\ t \in Numbers
  OBVIOUS
<1>6. /\ Pinned(w)' = Pinned(w)
      /\ Placed(w)' = {}
  <2>1. /\ ~RemoveInput(w) /\ ~WriteOutput(w)
        /\ wpc[w] = "load"
    BY DEF LoadQueue, RemoveInput, WriteOutput
  <2>2. wpc'[w] \in {"load", "run"}
    BY <1>2, <2>1 DEF LoadQueue, Advance, GoTo, TypeOK, Typing, WorkerTyping
  <2>q. QED
    BY <1>2, <2>1, <2>2 DEF Pinned, Placed, Stored, InArcs
<1> DEFINE p == SubSeq(queue[a], 1, wqe[w].pin[a])
<1>7. queue[a] \in Seq(Tuples) /\ p \in Seq(Tuples) /\ wout[w] \in Seq(Tuples)
  <2>1. queue[a] \in Seq(Tuples) /\ wout[w] \in Seq(Tuples)
    BY <1>2 DEF TypeOK, Typing, StorageTyping, WorkerTyping
  <2>q. QED
    BY <1>2, <2>1, FrontAndRest
<1>8. ASSUME NEW s \in InputArcs
      PROVE  /\ gone[a][s] \in Nat /\ come[a][s] \in Nat /\ generated[s] \in Nat
             /\ gone[a][s] <= come[a][s] /\ come[a][s] <= generated[s]
             /\ Runs(queue[a], s, gone[a][s], come[a][s])
             /\ s \notin c[a] => come[a][s] = 0
             /\ f[s] \in Nat /\ t[s] \in Nat
  BY <1>2, <1>5 DEF Ledger, ArcRuns, Numbers, TypeOK, Typing, StreamTyping
<1>z. ASSUME NEW s \in InputArcs, s \notin c[a] PROVE Runs(p, s, 0, 0)
  <2>1. gone[a][s] = 0 /\ Runs(queue[a], s, 0, 0)
    BY <1>8, <1>z
  <2>2. \E m \in 0..0 : Runs(p, s, 0, m)
    BY <1>2, <1>7, <2>1, RunsFront
  <2> HIDE DEF p
  <2>q. QED
    BY <2>2
<1>9. c[a] \subseteq InputArcs
  BY <1>2, <1>3, StreamsOfBox
<1>10. ASSUME NEW s \in c[a]
       PROVE  /\ s \in InputArcs
              /\ t[s] = f[s] /\ gone[a][s] = f[s]
              /\ \E m \in f[s]..generated[s] : Runs(p, s, f[s], m)
  <2>1. s \in InputArcs
    BY <1>9
  <2>2. t[s] = f[s] /\ gone[a][s] = f[s]
    BY <1>2, <1>4 DEF CopiesRun, InputsRun
  <2>3. \E m \in f[s]..come[a][s] : Runs(p, s, f[s], m)
    BY <1>2, <1>7, <1>8, <2>1, <2>2, RunsFront
  <2>q. QED
    BY <1>8, <2>1, <2>2, <2>3
<1>11. PICK mid \in [c[a] -> Nat] :
         \A s \in c[a] : mid[s] \in f[s]..generated[s] /\ Runs(p, s, f[s], mid[s])
  <2> DEFINE end == [s \in c[a] |->
                       CHOOSE m \in f[s]..generated[s] : Runs(p, s, f[s], m)]
  <2>1. ASSUME NEW s \in c[a]
        PROVE  end[s] \in f[s]..generated[s] /\ Runs(p, s, f[s], end[s]) /\ end[s] \in Nat
    <3>1. end[s] = CHOOSE m \in f[s]..generated[s] : Runs(p, s, f[s], m)
      OBVIOUS
    <3>2. \E m \in f[s]..generated[s] : Runs(p, s, f[s], m)
      BY <1>10
    <3>3. end[s] \in f[s]..generated[s] /\ Runs(p, s, f[s], end[s])
      <4> HIDE DEF p, end, f
      <4>q. QED
        BY <3>1, <3>2
    <3>4. f[s] \in Nat
      BY <1>8, <1>9
    <3>q. QED
      BY <3>3, <3>4
  <2>2. end \in [c[a] -> Nat]
    <3>1. \A s \in c[a] : end[s] \in Nat
      BY <2>1
    <3>q. QED
      BY <3>1
  <2> HIDE DEF end, p, f
  <2>q. QED
    BY <2>1, <2>2
<1> DEFINE t2 == [s \in InputArcs |-> IF s \in c[a] THEN mid[s] ELSE t[s]]
           upto2 == [upto EXCEPT ![w] = t2]
<1>12. /\ t2 \in Numbers
       /\ \A s \in c[a] : t2[s] = mid[s]
       /\ \A s \in InputArcs : s \notin c[a] => t2[s] = t[s]
  BY <1>5, <1>9 DEF Numbers
<1>13. /\ upto2 \in [Workers -> Numbers] /\ upto2[w] = t2
       /\ \A v \in Workers \ {w} : upto2[v] = upto[v]
  BY <1>12, WorkerRows
<1>x. /\ \A s \in InputArcs : f[s] \in Nat /\ t[s] \in Nat /\ generated[s] \in Nat
      /\ before[w] = f
  BY <1>8
<1> HIDE DEF f, t, p, t2, upto2
<1>14. BuffersRun(c, w, f, t2)'
  <2> SUFFICES ASSUME NEW s \in InputArcs
               PROVE  /\ f[s] <= t2[s] /\ t2[s] <= generated[s]
                      /\ Runs(wout[w] \o p, s, f[s], t2[s])
                      /\ (\A i \in InArcs(wqe[w].box) : s \notin c[i]) => t2[s] = 0
    BY <1>2 DEF BuffersRun, p, InArcs
  <2>1. /\ f[s] <= t[s] /\ t[s] <= generated[s]
        /\ Runs(wout[w], s, f[s], t[s])
        /\ (\A i \in InArcs(wqe[w].box) : s \notin c[i]) => t[s] = 0
    BY <1>4 DEF BuffersRun
  <2>2. CASE s \in c[a]
    <3>1. /\ t2[s] = mid[s] /\ t[s] = f[s]
          /\ mid[s] \in f[s]..generated[s] /\ Runs(p, s, f[s], mid[s])
      BY <1>10, <1>11, <1>12, <2>2
    <3>2. Runs(wout[w] \o p, s, f[s], mid[s])
      BY <1>7, <1>x, <2>1, <3>1, RunsConcat
    <3>q. QED
      BY <1>2, <1>x, <2>2, <3>1, <3>2
  <2>3. CASE s \notin c[a]
    <3>1. t2[s] = t[s]
      BY <1>12, <2>3
    <3>2. Runs(p, s, 0, 0)
      BY <1>z, <2>3
    <3>3. Runs(p, s, t[s], t[s])
      BY <1>7, <1>x, <3>2, RunsNone
    <3>4. Runs(wout[w] \o p, s, f[s], t[s])
      BY <1>7, <1>x, <2>1, <3>3, RunsConcat
    <3>q. QED
      BY <2>1, <3>1, <3>4
  <2>q. QED
    BY <2>2, <2>3
<1>15. InputsRun(c, w, gone, f, t2)'
  BY <1>2, <1>4, <1>6 DEF InputsRun, InArcs
<1>16. CopiesRun(c, w, f, t2)'
  <2> SUFFICES ASSUME NEW i \in InArcs(wqe[w].box), NEW s \in c[i]
               PROVE  IF i \in Copied(w)'
                      THEN i \in Pinned(w) =>
                             Runs(SubSeq(queue'[i], 1, wqe'[w].pin[i]), s, f[s], t2[s])
                      ELSE t2[s] = f[s]
    <3>1. Pinned(w)' = Pinned(w) /\ InArcs(wqe[w].box)' = InArcs(wqe[w].box)
      BY <1>2, <1>6 DEF InArcs
    <3>q. QED
      BY <3>1 DEF CopiesRun
  <2>1. CASE i = a
    BY <1>2, <1>11, <1>12, <2>1 DEF p
  <2>2. CASE i # a
    <3>1. s \in InputArcs /\ s \notin c[a]
      BY <1>2, <1>3, <2>2, StreamsOfBox
    <3>2. t2[s] = t[s]
      BY <1>12, <3>1
    <3>3. i \in Copied(w)' <=> i \in Copied(w)
      BY <1>2, <2>2
    <3>4. IF i \in Copied(w)
          THEN i \in Pinned(w) =>
                 Runs(SubSeq(queue[i], 1, wqe[w].pin[i]), s, f[s], t[s])
          ELSE t[s] = f[s]
      BY <1>4 DEF CopiesRun
    <3>5. SubSeq(queue'[i], 1, wqe'[w].pin[i]) = SubSeq(queue[i], 1, wqe[w].pin[i])
      BY <1>2
    <3>q. QED
      BY <3>2, <3>3, <3>4, <3>5
  <2>q. QED
    BY <2>1, <2>2
<1>17. OutputsRun(w, come, f, t2)'
  BY <1>2, <1>4, <1>6 DEF OutputsRun, OutArcs
<1>18. ArcRuns(c, gone, come)'
  <2>1. UNCHANGED <<queue, generated>>
    BY <1>2
  <2>2. ArcRuns(c, gone, come)
    BY DEF Ledger
  <2>q. QED
    BY <2>1, <2>2 DEF ArcRuns, Runs
<1>19. TrainRuns(c, w, gone, come, f, t2)'
  BY <1>14, <1>15, <1>16, <1>17 DEF TrainRuns
<1>20. Ledger(c, gone, come, before, upto2)'
  <2>1. Worker(w)
    BY DEF Worker
  <2>2. AtWork(w)' => /\ wqe'[w] = wqe[w]
                      /\ TrainRuns(c, w, gone, come, before[w], upto2[w])'
    BY <1>2, <1>13, <1>19, <1>x
  <2>3. \A i \in Arcs : DestId[i] # wqe[w].box =>
          /\ gone[i] = gone[i]
          /\ \A n \in Nat : n <= Len(queue[i]) =>
               SubSeq(queue'[i], 1, n) = SubSeq(queue[i], 1, n)
    BY <1>2
  <2>q. QED
    BY <1>2, <1>13, <1>18, <2>1, <2>2, <2>3, OwnLedger
<1>q. QED
  BY <1>13, <1>20 DEF StreamLedger

\* A worker that goes on without loading, removing or storing a tuple keeps
\* its train; past its inputs with nothing in its buffers, all outputs have
\* its results, there being none.
LEMMA SameLedger ==
  ASSUME TypeOK, BoxExclusion, PinsAvailable, NEW c, Carries(c),
         NEW gone \in [Arcs -> Numbers], NEW come \in [Arcs -> Numbers],
         NEW before \in [Workers -> Numbers], NEW upto \in [Workers -> Numbers],
         Ledger(c, gone, come, before, upto),
         NEW w \in Workers, Worker(w), UNCHANGED streamVars, queue' = queue,
         AtWork(w), AtWork(w)',
         ~LoadQueue(w), ~RemoveInput(w), ~WriteOutput(w)
  PROVE  StreamLedger(c)'
<1> DEFINE f == before[w]
           t == upto[w]
<1>1. /\ wqe'[w] = wqe[w] /\ wout'[w] = wout[w]
      /\ Copied(w)' = Copied(w) /\ Pinned(w)' = Pinned(w)
      /\ \/ Placed(w)' = Placed(w)
         \/ wout[w] = <<>> /\ Placed(w) = {} /\ Placed(w)' = OutArcs(wqe[w].box)
  BY WorkSteps
<1>2. w \in Busy
  BY ElementHeld DEF AtWork, Busy
<1>3. /\ BuffersRun(c, w, f, t)
      /\ InputsRun(c, w, gone, f, t)
      /\ CopiesRun(c, w, f, t)
      /\ OutputsRun(w, come, f, t)
  BY DEF Ledger, TrainRuns
<1>4. f \in Numbers /\ t \in Numbers
  OBVIOUS
<1>x. before[w] = f /\ upto[w] = t
  OBVIOUS
<1> HIDE DEF f, t
<1>5. /\ InArcs(wqe[w].box)' = InArcs(wqe[w].box)
      /\ OutArcs(wqe[w].box)' = OutArcs(wqe[w].box)
      /\ generated' = generated
  BY <1>1 DEF InArcs, OutArcs
<1>6. BuffersRun(c, w, f, t)'
  BY <1>1, <1>3, <1>5 DEF BuffersRun, Runs
<1>7. InputsRun(c, w, gone, f, t)'
  BY <1>1, <1>3, <1>5 DEF InputsRun
<1>8. CopiesRun(c, w, f, t)'
  <2> SUFFICES ASSUME NEW i \in InArcs(wqe[w].box), NEW s \in c[i]
               PROVE  IF i \in Copied(w)
                      THEN i \in Pinned(w) =>
                             Runs(SubSeq(queue'[i], 1, wqe'[w].pin[i]), s, f[s], t[s])
                      ELSE t[s] = f[s]
    BY <1>1, <1>5 DEF CopiesRun
  <2>1. IF i \in Copied(w)
        THEN i \in Pinned(w) =>
               Runs(SubSeq(queue[i], 1, wqe[w].pin[i]), s, f[s], t[s])
        ELSE t[s] = f[s]
    BY <1>3 DEF CopiesRun
  <2>2. SubSeq(queue'[i], 1, wqe'[w].pin[i]) = SubSeq(queue[i], 1, wqe[w].pin[i])
    BY <1>1
  <2>q. QED
    BY <2>1, <2>2
<1>9. OutputsRun(w, come, f, t)'
  BY <1>1, <1>3, <1>4, OutputsStay
<1>10. TrainRuns(c, w, gone, come, f, t)'
  BY <1>6, <1>7, <1>8, <1>9 DEF TrainRuns
<1>11. ArcRuns(c, gone, come)'
  BY <1>5 DEF Ledger, ArcRuns, Runs
<1>12. Ledger(c, gone, come, before, upto)'
  <2>1. AtWork(w)' => /\ wqe'[w] = wqe[w]
                      /\ TrainRuns(c, w, gone, come, before[w], upto[w])'
    BY <1>1, <1>10, <1>x
  <2>2. \A i \in Arcs : DestId[i] # wqe[w].box =>
          /\ gone[i] = gone[i]
          /\ \A n \in Nat : n <= Len(queue[i]) =>
               SubSeq(queue'[i], 1, n) = SubSeq(queue[i], 1, n)
    OBVIOUS
  <2>q. QED
    BY <1>2, <1>11, <2>1, <2>2, OwnLedger
<1>q. QED
  BY <1>12 DEF StreamLedger

\* A worker that ends its work leaves the box with its outputs as far as its
\* inputs: either nothing or all of the train is done.
LEMMA EndLedger ==
  ASSUME TypeOK, BoxExclusion, PinsAvailable, NEW c, Carries(c),
         NEW gone \in [Arcs -> Numbers], NEW come \in [Arcs -> Numbers],
         NEW before \in [Workers -> Numbers], NEW upto \in [Workers -> Numbers],
         Ledger(c, gone, come, before, upto),
         NEW w \in Workers, ReleaseBox(w) \/ DoBox(w), UNCHANGED streamVars,
         ~AtWork(w)'
  PROVE  StreamLedger(c)'
<1> DEFINE f == before[w]
           t == upto[w]
<1>1. /\ wpc[w] \in {"unlock", "run"}
      /\ queue' = queue
      /\ Worker(w)
  BY DEF ReleaseBox, DoBox, Worker
<1>2. w \in Busy /\ AtWork(w) /\ wqe[w].box \in Boxes
  BY <1>1, ElementHeld DEF AtWork, Busy
<1>3. InputsRun(c, w, gone, f, t) /\ OutputsRun(w, come, f, t)
  BY <1>2 DEF Ledger, TrainRuns
<1> HIDE DEF f, t
<1>4. Forwarded(c, wqe[w].box, gone, come)
  <2> SUFFICES ASSUME NEW i \in InArcs(wqe[w].box), NEW o \in OutArcs(wqe[w].box),
                      NEW s \in c[i]
               PROVE  come[o][s] = gone[i][s]
    BY DEF Forwarded
  <2>1. s \in InputArcs
    BY <1>2, StreamsOfBox
  <2>2. CASE wpc[w] = "unlock"
    <3>1. Pinned(w) = {} /\ Placed(w) = OutArcs(wqe[w].box)
      BY <2>2 DEF Pinned, Placed
    <3>q. QED
      BY <1>3, <2>1, <3>1 DEF InputsRun, OutputsRun
  <2>3. CASE wpc[w] = "run"
    <3>1. Pinned(w) = InArcs(wqe[w].box) /\ Placed(w) = {}
      BY <2>3 DEF Pinned, Placed, Stored
    <3>q. QED
      BY <1>3, <2>1, <3>1 DEF InputsRun, OutputsRun
  <2>q. QED
    BY <1>1, <2>2, <2>3
<1>5. ArcRuns(c, gone, come)'
  BY <1>1 DEF Ledger, ArcRuns, Runs
<1>6. Ledger(c, gone, come, before, upto)'
  <2>1. \A i \in Arcs : DestId[i] # wqe[w].box =>
          /\ gone[i] = gone[i]
          /\ \A n \in Nat : n <= Len(queue[i]) =>
               SubSeq(queue'[i], 1, n) = SubSeq(queue[i], 1, n)
    BY <1>1
  <2>q. QED
    BY <1>1, <1>2, <1>4, <1>5, <2>1, OwnLedger
<1>q. QED
  BY <1>6 DEF StreamLedger

\* A worker that starts on a box finds it at rest, its outputs as far as its
\* inputs, and nothing in its own buffers.
LEMMA StartLedger ==
  ASSUME TypeOK, TypeOK', BoxExclusion, PinsAvailable, BuffersEmpty,
         NEW c, Carries(c),
         NEW gone \in [Arcs -> Numbers], NEW come \in [Arcs -> Numbers],
         NEW before \in [Workers -> Numbers], NEW upto \in [Workers -> Numbers],
         Ledger(c, gone, come, before, upto),
         NEW w \in Workers, CheckStop(w), UNCHANGED streamVars, AtWork(w)'
  PROVE  StreamLedger(c)'
<1> USE DEF TypeOK, Typing
<1>0. WorkerTyping
  OBVIOUS
<1>1. /\ wpc[w] = "popped" /\ wpc'[w] = "load"
      /\ UNCHANGED <<wqe, wout, warc, queue>>
      /\ Worker(w)
  BY <1>0 DEF CheckStop, GoTo, WorkerTyping, AtWork, Worker
<1>2. w \in Busy
  <2>1. wqe'[w] # NoQE
    BY <1>1 DEF WorkerPhases, WorkerPhase
  <2>q. QED
    BY <1>1, <2>1 DEF Busy
<1>3. wqe[w].box \in Boxes /\ Rests(wqe[w].box)
  <2>1. ~AtWork(w)
    BY <1>1 DEF AtWork
  <2>q. QED
    BY <1>2, <2>1, OwnBox DEF Rests
<1>4. /\ wout'[w] = <<>> /\ warc'[w] = 1
      /\ wqe'[w] = wqe[w]
  BY <1>1 DEF BuffersEmpty, WorkerPhases, WorkerPhase
<1>5. PICK o : o \in OutArcs(wqe[w].box)
  BY <1>3, CatalogAssumption
<1>6. Forwarded(c, wqe[w].box, gone, come)
  BY <1>3 DEF Ledger
<1>7. /\ \A i \in InArcs(wqe[w].box) : i \in Arcs /\ c[i] \subseteq InputArcs
      /\ \A i \in OutArcs(wqe[w].box) : i \in Arcs /\ \A s : s \in c[i] <=>
           \E j \in InArcs(wqe[w].box) : s \in c[j]
  BY <1>3, StreamsOfBox
<1> DEFINE f == come[o]
           before2 == [before EXCEPT ![w] = f]
           upto2 == [upto EXCEPT ![w] = f]
<1>8. /\ f \in Numbers /\ before2 \in [Workers -> Numbers]
      /\ upto2 \in [Workers -> Numbers]
      /\ before2[w] = f /\ upto2[w] = f
      /\ \A v \in Workers \ {w} : before2[v] = before[v] /\ upto2[v] = upto[v]
  <2>1. f \in Numbers
    BY <1>5, <1>7
  <2>q. QED
    BY <2>1, WorkerRows
<1>9. ASSUME NEW s \in InputArcs
      PROVE  /\ f[s] <= generated[s] /\ f[s] \in Nat
             /\ (\A i \in InArcs(wqe[w].box) : s \notin c[i]) =>
                  \A i \in OutArcs(wqe[w].box) : come[i][s] = 0
             /\ \A i \in InArcs(wqe[w].box) : s \in c[i] =>
                  /\ gone[i][s] = f[s]
                  /\ \A j \in OutArcs(wqe[w].box) : come[j][s] = f[s]
  <2>1. \A i \in Arcs : come[i][s] <= generated[s] /\ (s \notin c[i] => come[i][s] = 0)
    BY DEF Ledger, ArcRuns
  <2>2. \A i \in InArcs(wqe[w].box), j \in OutArcs(wqe[w].box) :
          s \in c[i] => come[j][s] = gone[i][s]
    BY <1>6 DEF Forwarded
  <2>3. f[s] <= generated[s] /\ f[s] \in Nat
    BY <1>5, <1>7, <1>8, <2>1 DEF Numbers
  <2>4. ASSUME \A i \in InArcs(wqe[w].box) : s \notin c[i],
               NEW j \in OutArcs(wqe[w].box)
        PROVE  come[j][s] = 0
    <3>1. j \in Arcs /\ s \notin c[j]
      BY <1>7, <2>4
    <3>q. QED
      BY <2>1, <3>1
  <2>5. ASSUME NEW i \in InArcs(wqe[w].box), s \in c[i]
        PROVE  /\ gone[i][s] = f[s]
               /\ \A j \in OutArcs(wqe[w].box) : come[j][s] = f[s]
    BY <1>5, <2>2, <2>5
  <2>q. QED
    BY <2>3, <2>4, <2>5
<1> HIDE DEF f, before2, upto2
<1>10. /\ InArcs(wqe[w].box)' = InArcs(wqe[w].box)
       /\ OutArcs(wqe[w].box)' = OutArcs(wqe[w].box)
       /\ Pinned(w)' = InArcs(wqe[w].box)
       /\ Placed(w)' = {}
       /\ generated' = generated
  BY <1>1 DEF InArcs, OutArcs, Pinned, Placed, Stored
<1>11. Copied(w)' = {}
  <2>1. 1..(warc'[w] - 1) = {}
    BY <1>4
  <2>q. QED
    BY <1>1, <2>1 DEF Copied
<1>12. BuffersRun(c, w, f, f)'
  <2> SUFFICES ASSUME NEW s \in InputArcs
               PROVE  /\ f[s] <= f[s] /\ f[s] <= generated[s]
                      /\ Runs(<<>>, s, f[s], f[s])
                      /\ (\A i \in InArcs(wqe[w].box) : s \notin c[i]) => f[s] = 0
    BY <1>4, <1>10 DEF BuffersRun
  <2>1. f[s] \in Nat
    BY <1>9
  <2>2. f = come[o]
    BY DEF f
  <2>q. QED
    BY <1>5, <1>9, <2>1, <2>2, RunsEmpty
<1>13. InputsRun(c, w, gone, f, f)'
  BY <1>7, <1>9, <1>10 DEF InputsRun
<1>14. CopiesRun(c, w, f, f)'
  BY <1>11 DEF CopiesRun
<1>15. OutputsRun(w, come, f, f)'
  <2> SUFFICES ASSUME NEW j \in OutArcs(wqe[w].box), NEW s \in InputArcs
               PROVE  come[j][s] = f[s]
    BY <1>10 DEF OutputsRun
  <2>1. CASE \E i \in InArcs(wqe[w].box) : s \in c[i]
    BY <1>9, <2>1
  <2>2. CASE \A i \in InArcs(wqe[w].box) : s \notin c[i]
    BY <1>5, <1>9, <2>2 DEF f
  <2>q. QED
    BY <2>1, <2>2
<1>16. TrainRuns(c, w, gone, come, f, f)'
  BY <1>12, <1>13, <1>14, <1>15 DEF TrainRuns
<1>17. ArcRuns(c, gone, come)'
  <2>1. UNCHANGED <<queue, generated>>
    BY <1>1
  <2>2. ArcRuns(c, gone, come)
    BY DEF Ledger
  <2>q. QED
    BY <2>1, <2>2 DEF ArcRuns, Runs
<1>18. Ledger(c, gone, come, before2, upto2)'
  <2>1. AtWork(w)' => /\ wqe'[w] = wqe[w]
                      /\ TrainRuns(c, w, gone, come, before2[w], upto2[w])'
    BY <1>4, <1>8, <1>16
  <2>2. \A i \in Arcs : DestId[i] # wqe[w].box =>
          /\ gone[i] = gone[i]
          /\ \A n \in Nat : n <= Len(queue[i]) =>
               SubSeq(queue'[i], 1, n) = SubSeq(queue[i], 1, n)
    BY <1>1
  <2>q. QED
    BY <1>1, <1>2, <1>8, <1>17, <2>1, <2>2, OwnLedger
<1>q. QED
  BY <1>8, <1>18 DEF StreamLedger

\* Removing the front of an input's run leaves the run from the train's end.
LEMMA RemoveLedger ==
  ASSUME TypeOK, BoxExclusion, CountsConsistent, PinsAvailable, NEW c, Carries(c),
         NEW gone \in [Arcs -> Numbers], NEW come \in [Arcs -> Numbers],
         NEW before \in [Workers -> Numbers], NEW upto \in [Workers -> Numbers],
         Ledger(c, gone, come, before, upto),
         NEW w \in Workers, RemoveInput(w), UNCHANGED streamVars
  PROVE  StreamLedger(c)'
<1> DEFINE f == before[w]
           t == upto[w]
<1>1. PICK a : a = Inputs(w)[warc[w]]
  OBVIOUS
<1>2. /\ a \in Arcs /\ a \in InArcs(wqe[w].box)
      /\ w \in Busy
      /\ wqe[w].pin[a] \in Nat /\ wqe[w].pin[a] <= Len(queue[a])
      /\ a \in Pinned(w)
      /\ Pinned(w)' = Pinned(w) \ {a}
      /\ Copied(w) = InArcs(wqe[w].box)
      /\ queue'[a] = SubSeq(queue[a], wqe[w].pin[a] + 1, Len(queue[a]))
      /\ \A i \in Arcs \ {a} : queue'[i] = queue[i]
      /\ AtWork(w) /\ AtWork(w)'
  BY <1>1, RemoveTakes
<1>3. wqe[w].box \in Boxes
  BY <1>2, OwnBox
<1>4. /\ BuffersRun(c, w, f, t)
      /\ InputsRun(c, w, gone, f, t)
      /\ CopiesRun(c, w, f, t)
      /\ OutputsRun(w, come, f, t)
  BY <1>2 DEF Ledger, TrainRuns
<1>5. f \in Numbers /\ t \in Numbers
  OBVIOUS
<1>6. /\ wqe' = wqe /\ wout'[w] = wout[w]
      /\ Copied(w)' = Copied(w)
      /\ \/ Placed(w)' = Placed(w)
         \/ wout[w] = <<>> /\ Placed(w) = {} /\ Placed(w)' = OutArcs(wqe[w].box)
      /\ Worker(w)
  <2>1. ~LoadQueue(w) /\ ~WriteOutput(w) /\ Worker(w) /\ wqe' = wqe
    BY DEF LoadQueue, RemoveInput, WriteOutput, Worker
  <2>q. QED
    BY <1>2, <2>1, WorkSteps
<1>7. /\ InArcs(wqe[w].box)' = InArcs(wqe[w].box)
      /\ \A i \in InArcs(wqe[w].box) : i \in Arcs /\ DestId[i] = wqe[w].box
      /\ c[a] \subseteq InputArcs
      /\ generated' = generated
  BY <1>2, <1>3, <1>6, StreamsOfBox DEF InArcs
<1>8. ASSUME NEW s \in InputArcs
      PROVE  /\ gone[a][s] \in Nat /\ come[a][s] \in Nat
             /\ gone[a][s] <= come[a][s] /\ come[a][s] <= generated[s]
             /\ Runs(queue[a], s, gone[a][s], come[a][s])
             /\ s \notin c[a] => come[a][s] = 0
             /\ f[s] \in Nat /\ t[s] \in Nat /\ f[s] <= t[s]
  <2>1. f[s] <= t[s]
    BY <1>4 DEF BuffersRun
  <2>q. QED
    BY <1>2, <1>5, <2>1 DEF Ledger, ArcRuns, Numbers
<1>9. queue[a] \in Seq(Tuples)
  BY <1>2 DEF TypeOK, Typing, StorageTyping
<1> DEFINE row == [s \in InputArcs |-> IF s \in c[a] THEN t[s] ELSE gone[a][s]]
           gone2 == [gone EXCEPT ![a] = row]
<1>10. /\ row \in Numbers
       /\ \A s \in InputArcs : row[s] = IF s \in c[a] THEN t[s] ELSE gone[a][s]
  BY <1>8 DEF Numbers
<1>11. /\ gone2 \in [Arcs -> Numbers] /\ gone2[a] = row
       /\ \A i \in Arcs \ {a} : gone2[i] = gone[i]
  BY <1>2, <1>10, Rows
<1>x. before[w] = f /\ upto[w] = t
  OBVIOUS
<1> HIDE DEF f, t, row, gone2
<1>12. ASSUME NEW s \in InputArcs
       PROVE  row[s] <= come[a][s] /\ Runs(queue'[a], s, row[s], come[a][s])
  <2>1. CASE s \in c[a]
    <3>1. row[s] = t[s] /\ gone[a][s] = f[s]
      BY <1>2, <1>4, <1>10, <2>1 DEF InputsRun
    <3>2. Runs(SubSeq(queue[a], 1, wqe[w].pin[a]), s, f[s], t[s])
      BY <1>2, <1>4, <2>1 DEF CopiesRun
    <3>3. t[s] <= come[a][s]
      BY <1>2, <1>8, <1>9, <3>1, <3>2, RunsWithin
    <3>4. Runs(SubSeq(queue[a], wqe[w].pin[a] + 1, Len(queue[a])), s, t[s], come[a][s])
      BY <1>2, <1>8, <1>9, <3>1, <3>2, RunsRest
    <3>q. QED
      BY <1>2, <3>1, <3>3, <3>4
  <2>2. CASE s \notin c[a]
    <3>1. row[s] = 0 /\ come[a][s] = 0 /\ Runs(queue[a], s, 0, 0)
      BY <1>8, <1>10, <2>2
    <3>2. \E m \in 0..0 : Runs(SubSeq(queue[a], 1, wqe[w].pin[a]), s, 0, m)
      BY <1>2, <1>9, <3>1, RunsFront
    <3>3. Runs(SubSeq(queue[a], 1, wqe[w].pin[a]), s, 0, 0)
      BY <3>2
    <3>4. Runs(SubSeq(queue[a], wqe[w].pin[a] + 1, Len(queue[a])), s, 0, 0)
      BY <1>2, <1>9, <3>1, <3>3, RunsRest
    <3>q. QED
      BY <1>2, <3>1, <3>4
  <2>q. QED
    BY <2>1, <2>2
<1>13. ArcRuns(c, gone2, come)'
  <2> SUFFICES ASSUME NEW i \in Arcs, NEW s \in InputArcs
               PROVE  /\ gone2[i][s] <= come[i][s]
                      /\ come[i][s] <= generated[s]
                      /\ Runs(queue'[i], s, gone2[i][s], come[i][s])
                      /\ s \notin c[i] => come[i][s] = 0
    BY <1>7 DEF ArcRuns
  <2>1. CASE i = a
    BY <1>8, <1>11, <1>12, <2>1
  <2>2. CASE i # a
    <3>1. queue'[i] = queue[i] /\ gone2[i] = gone[i]
      BY <1>2, <1>11, <2>2
    <3>2. /\ gone[i][s] <= come[i][s]
          /\ come[i][s] <= generated[s]
          /\ Runs(queue[i], s, gone[i][s], come[i][s])
          /\ s \notin c[i] => come[i][s] = 0
      BY DEF Ledger, ArcRuns
    <3>q. QED
      BY <3>1, <3>2
  <2>q. QED
    BY <2>1, <2>2
<1>14. BuffersRun(c, w, f, t)'
  BY <1>4, <1>6, <1>7 DEF BuffersRun, Runs
<1>15. InputsRun(c, w, gone2, f, t)'
  <2> SUFFICES ASSUME NEW i \in InArcs(wqe[w].box), NEW s \in c[i]
               PROVE  gone2[i][s] = IF i \in Pinned(w)' THEN f[s] ELSE t[s]
    BY <1>7 DEF InputsRun
  <2>1. CASE i = a
    BY <1>2, <1>7, <1>10, <1>11, <2>1
  <2>2. CASE i # a
    BY <1>2, <1>4, <1>7, <1>11, <2>2 DEF InputsRun
  <2>q. QED
    BY <2>1, <2>2
<1>16. CopiesRun(c, w, f, t)'
  <2> SUFFICES ASSUME NEW i \in InArcs(wqe[w].box), NEW s \in c[i], i \in Pinned(w)'
               PROVE  Runs(SubSeq(queue'[i], 1, wqe'[w].pin[i]), s, f[s], t[s])
    BY <1>2, <1>6, <1>7 DEF CopiesRun
  <2>1. i \in Pinned(w) /\ queue'[i] = queue[i] /\ i \in Copied(w)
    BY <1>2, <1>7
  <2>2. Runs(SubSeq(queue[i], 1, wqe[w].pin[i]), s, f[s], t[s])
    BY <1>4, <2>1 DEF CopiesRun
  <2>q. QED
    BY <1>6, <2>1, <2>2
<1>17. OutputsRun(w, come, f, t)'
  BY <1>4, <1>5, <1>6, OutputsStay
<1>18. TrainRuns(c, w, gone2, come, f, t)'
  BY <1>14, <1>15, <1>16, <1>17 DEF TrainRuns
<1>19. Ledger(c, gone2, come, before, upto)'
  <2>1. AtWork(w)' => /\ wqe'[w] = wqe[w]
                      /\ TrainRuns(c, w, gone2, come, before[w], upto[w])'
    BY <1>6, <1>18, <1>x
  <2>2. \A i \in Arcs : DestId[i] # wqe[w].box =>
          /\ gone2[i] = gone[i]
          /\ \A n \in Nat : n <= Len(queue[i]) =>
               SubSeq(queue'[i], 1, n) = SubSeq(queue[i], 1, n)
    BY <1>2, <1>7, <1>11
  <2>q. QED
    BY <1>2, <1>6, <1>13, <2>1, <2>2, OwnLedger
<1>q. QED
  BY <1>11, <1>19 DEF StreamLedger

\* Storing the results continues the run of an output to the train's end.
LEMMA WriteLedger ==
  ASSUME TypeOK, BoxExclusion, PinsAvailable, NEW c, Carries(c),
         NEW gone \in [Arcs -> Numbers], NEW come \in [Arcs -> Numbers],
         NEW before \in [Workers -> Numbers], NEW upto \in [Workers -> Numbers],
         Ledger(c, gone, come, before, upto),
         NEW w \in Workers, WriteOutput(w), UNCHANGED streamVars
  PROVE  StreamLedger(c)'
<1> DEFINE f == before[w]
           t == upto[w]
<1>0. WorkerTyping
  BY DEF TypeOK, Typing
<1>1. PICK a : a = Outputs(w)[warc[w]]
  OBVIOUS
<1>2. /\ wpc[w] = "enq" /\ wpc'[w] = "count"
      /\ UNCHANGED <<wqe, wout, warc>>
      /\ Worker(w)
  BY <1>0 DEF WriteOutput, GoTo, WorkerTyping, Worker
<1>3. a \in Arcs /\ a \in OutArcs(wqe[w].box)
  BY <1>1, <1>2, OutputAt
<1>4. /\ w \in Busy /\ wqe[w].box \in Boxes
      /\ AtWork(w) /\ AtWork(w)'
  BY <1>2, ElementHeld DEF Busy, AtWork
<1>5. /\ a \notin Placed(w)
      /\ Placed(w)' = Placed(w) \cup {a}
      /\ Pinned(w) = {} /\ Pinned(w)' = {}
      /\ Copied(w)' = InArcs(wqe[w].box)
  <2>1. ~AnnounceNewAppTuples(w) /\ ~RemoveInput(w) /\ ~ForgetInput(w)
    BY <1>2 DEF AnnounceNewAppTuples, RemoveInput, ForgetInput
  <2>2. Stored(w)' = Stored(w) \cup {a} /\ a \notin Stored(w)
    BY <1>1, <1>2, <2>1, StoredSteps
  <2>q. QED
    BY <1>2, <2>2 DEF Placed, Pinned, Copied, InArcs
<1>6. /\ BuffersRun(c, w, f, t)
      /\ InputsRun(c, w, gone, f, t)
      /\ CopiesRun(c, w, f, t)
      /\ OutputsRun(w, come, f, t)
  BY <1>4 DEF Ledger, TrainRuns
<1>7. f \in Numbers /\ t \in Numbers
  OBVIOUS
<1>8. /\ queue'[a] = queue[a] \o wout[w]
      /\ \A i \in Arcs \ {a} : queue'[i] = queue[i]
      /\ queue[a] \in Seq(Tuples) /\ wout[w] \in Seq(Tuples)
  BY <1>1, <1>3 DEF WriteOutput, EnqueueWrite, TypeOK, Typing, StorageTyping, WorkerTyping
<1>9. /\ InArcs(wqe[w].box)' = InArcs(wqe[w].box)
      /\ OutArcs(wqe[w].box)' = OutArcs(wqe[w].box)
      /\ SrcId[a] = wqe[w].box
      /\ \A s : s \in c[a] <=> \E i \in InArcs(wqe[w].box) : s \in c[i]
      /\ generated' = generated
  BY <1>2, <1>3, <1>4, StreamsOfBox DEF InArcs, OutArcs
<1> DEFINE come2 == [come EXCEPT ![a] = t]
<1>10. /\ come2 \in [Arcs -> Numbers] /\ come2[a] = t
       /\ \A i \in Arcs \ {a} : come2[i] = come[i]
  BY <1>3, <1>7, Rows
<1>x. before[w] = f /\ upto[w] = t
  OBVIOUS
<1> HIDE DEF f, t, come2
<1>11. ASSUME NEW s \in InputArcs
       PROVE  /\ gone[a][s] <= t[s] /\ t[s] <= generated[s]
              /\ Runs(queue[a] \o wout[w], s, gone[a][s], t[s])
              /\ s \notin c[a] => t[s] = 0
  <2>1. /\ gone[a][s] <= come[a][s] /\ Runs(queue[a], s, gone[a][s], come[a][s])
        /\ gone[a][s] \in Nat /\ f[s] \in Nat /\ t[s] \in Nat
    BY <1>3, <1>7 DEF Ledger, ArcRuns, Numbers
  <2>2. come[a][s] = f[s]
    BY <1>3, <1>5, <1>6 DEF OutputsRun
  <2>3. /\ f[s] <= t[s] /\ t[s] <= generated[s]
        /\ Runs(wout[w], s, f[s], t[s])
        /\ (\A i \in InArcs(wqe[w].box) : s \notin c[i]) => t[s] = 0
    BY <1>6 DEF BuffersRun
  <2>4. Runs(queue[a] \o wout[w], s, gone[a][s], t[s])
    BY <1>8, <2>1, <2>2, <2>3, RunsConcat
  <2>5. gone[a][s] <= t[s]
    BY <2>1, <2>2, <2>3
  <2>q. QED
    BY <1>9, <2>3, <2>4, <2>5
<1>12. ArcRuns(c, gone, come2)'
  <2> SUFFICES ASSUME NEW i \in Arcs, NEW s \in InputArcs
               PROVE  /\ gone[i][s] <= come2[i][s]
                      /\ come2[i][s] <= generated[s]
                      /\ Runs(queue'[i], s, gone[i][s], come2[i][s])
                      /\ s \notin c[i] => come2[i][s] = 0
    BY <1>9 DEF ArcRuns
  <2>1. CASE i = a
    BY <1>8, <1>10, <1>11, <2>1
  <2>2. CASE i # a
    <3>1. queue'[i] = queue[i] /\ come2[i] = come[i]
      BY <1>8, <1>10, <2>2
    <3>2. /\ gone[i][s] <= come[i][s]
          /\ come[i][s] <= generated[s]
          /\ Runs(queue[i], s, gone[i][s], come[i][s])
          /\ s \notin c[i] => come[i][s] = 0
      BY DEF Ledger, ArcRuns
    <3>q. QED
      BY <3>1, <3>2
  <2>q. QED
    BY <2>1, <2>2
<1>13. BuffersRun(c, w, f, t)'
  BY <1>2, <1>6, <1>9 DEF BuffersRun, Runs
<1>14. InputsRun(c, w, gone, f, t)'
  BY <1>5, <1>6, <1>9 DEF InputsRun
<1>15. CopiesRun(c, w, f, t)'
  BY <1>5, <1>9 DEF CopiesRun
<1>16. OutputsRun(w, come2, f, t)'
  <2> SUFFICES ASSUME NEW o \in OutArcs(wqe[w].box), NEW s \in InputArcs
               PROVE  come2[o][s] = IF o \in Placed(w)' THEN t[s] ELSE f[s]
    BY <1>9 DEF OutputsRun
  <2>1. CASE o = a
    BY <1>5, <1>10, <2>1
  <2>2. CASE o # a
    <3>1. come2[o] = come[o]
      BY <1>4, <1>10, <2>2, CatalogAssumption
    <3>q. QED
      BY <1>5, <1>6, <2>2, <3>1 DEF OutputsRun
  <2>q. QED
    BY <2>1, <2>2
<1>17. TrainRuns(c, w, gone, come2, f, t)'
  BY <1>13, <1>14, <1>15, <1>16 DEF TrainRuns
<1>18. Ledger(c, gone, come2, before, upto)'
  <2>1. AtWork(w)' => /\ wqe'[w] = wqe[w]
                      /\ TrainRuns(c, w, gone, come2, before[w], upto[w])'
    BY <1>2, <1>17, <1>x
  <2>2. \A i \in Arcs, n \in Nat : n <= Len(queue[i]) =>
          SubSeq(queue'[i], 1, n) = SubSeq(queue[i], 1, n)
    <3> SUFFICES ASSUME NEW i \in Arcs, NEW n \in Nat, n <= Len(queue[i])
                 PROVE  SubSeq(queue'[i], 1, n) = SubSeq(queue[i], 1, n)
      OBVIOUS
    <3>1. CASE i = a
      BY <1>8, <3>1, FrontStays
    <3>2. CASE i # a
      BY <1>8, <3>2
    <3>q. QED
      BY <3>1, <3>2
  <2>3. \A i \in Arcs : SrcId[i] # wqe[w].box => come2[i] = come[i]
    BY <1>9, <1>10
  <2>4. \A i \in Arcs : DestId[i] # wqe[w].box =>
          /\ gone[i] = gone[i]
          /\ \A n \in Nat : n <= Len(queue[i]) =>
               SubSeq(queue'[i], 1, n) = SubSeq(queue[i], 1, n)
    BY <2>2
  <2>q. QED
    BY <1>2, <1>4, <1>12, <2>1, <2>3, <2>4, OwnLedger
<1>q. QED
  BY <1>10, <1>18 DEF StreamLedger

\* A tuple just made is on no arc yet: nothing is further than it was.
LEMMA GenerateLedger ==
  ASSUME TypeOK, NEW c,
         NEW gone \in [Arcs -> Numbers], NEW come \in [Arcs -> Numbers],
         NEW before \in [Workers -> Numbers], NEW upto \in [Workers -> Numbers],
         Ledger(c, gone, come, before, upto),
         NEW a \in InputArcs, GenerateTuple(a), UNCHANGED workerVars
  PROVE  StreamLedger(c)'
<1>1. /\ ppc = "idle" /\ ppc' = "enq" /\ parc' = a
      /\ generated' = [generated EXCEPT ![a] = generated[a] + 1]
      /\ queue' = queue
  BY DEF GenerateTuple
<1>2. /\ generated \in [InputArcs -> Nat]
      /\ generated'[a] = generated[a] + 1
      /\ \A s \in InputArcs \ {a} : generated'[s] = generated[s]
  BY <1>1 DEF TypeOK, Typing, StreamTyping
<1>3. ASSUME NEW s \in InputArcs, NEW n \in Nat, n <= generated[s]
      PROVE  n <= generated'[s]
  BY <1>2, <1>3
<1>4. ArcRuns(c, gone, come)'
  <2> SUFFICES ASSUME NEW i \in Arcs, NEW s \in InputArcs
               PROVE  /\ gone[i][s] <= come[i][s]
                      /\ come[i][s] <= generated'[s]
                      /\ Runs(queue[i], s, gone[i][s], come[i][s])
                      /\ s \notin c[i] => come[i][s] = 0
    BY <1>1 DEF ArcRuns
  <2>1. come[i][s] \in Nat
    BY DEF Numbers
  <2>2. /\ gone[i][s] <= come[i][s]
        /\ come[i][s] <= generated[s]
        /\ Runs(queue[i], s, gone[i][s], come[i][s])
        /\ s \notin c[i] => come[i][s] = 0
    BY DEF Ledger, ArcRuns
  <2>q. QED
    BY <1>3, <2>1, <2>2
<1>5. EndRuns(gone, come)'
  <2>1. \A i \in InputArcs : Arrived(i)' = Arrived(i)
    BY <1>1, <1>2 DEF Arrived
  <2>q. QED
    BY <2>1 DEF Ledger, EndRuns
<1>6. ASSUME NEW b \in Boxes, Rests(b)' PROVE Forwarded(c, b, gone, come)'
  <2>1. Rests(b)
    BY <1>6 DEF Rests, AtWork
  <2>q. QED
    BY <2>1 DEF Ledger, Forwarded, InArcs, OutArcs
<1>7. ASSUME NEW v \in Workers, AtWork(v)'
      PROVE  TrainRuns(c, v, gone, come, before[v], upto[v])'
  <2> DEFINE f == before[v]
             t == upto[v]
  <2>1. AtWork(v)
    BY <1>7 DEF AtWork
  <2>2. TrainRuns(c, v, gone, come, f, t)
    BY <2>1 DEF Ledger
  <2>3. \A s \in InputArcs : t[s] <= generated[s] => t[s] <= generated'[s]
    BY <1>3 DEF Numbers
  <2> HIDE DEF f, t
  <2>4. TrainRuns(c, v, gone, come, f, t)'
    BY <1>1, <2>1, <2>2, <2>3, TrainFrame
  <2>q. QED
    BY <2>4 DEF f, t
<1>8. Ledger(c, gone, come, before, upto)'
  BY <1>4, <1>5, <1>6, <1>7 DEF Ledger
<1>q. QED
  BY <1>8 DEF StreamLedger

\* A tuple that is stored on its input arc continues the run there.
LEMMA StoreLedger ==
  ASSUME TypeOK, PinsAvailable, NEW c, Carries(c),
         NEW gone \in [Arcs -> Numbers], NEW come \in [Arcs -> Numbers],
         NEW before \in [Workers -> Numbers], NEW upto \in [Workers -> Numbers],
         Ledger(c, gone, come, before, upto),
         StoreTuple, UNCHANGED workerVars
  PROVE  StreamLedger(c)'
<1>1. PICK a : a = parc
  OBVIOUS
<1>2. /\ ppc = "enq" /\ ppc' = "count" /\ parc' = parc /\ generated' = generated
      /\ EnqueueWrite(Stream, parc, <<<<parc, generated[parc]>>>>)
  BY DEF StoreTuple
<1>3. /\ a \in InputArcs /\ a \in Arcs /\ SrcId[a] = NoBox
      /\ generated \in [InputArcs -> Nat]
  BY <1>1, <1>2 DEF TypeOK, Typing, StreamTyping, StreamPhases, InputArcs
<1>4. PICK n : n = generated[a]
  OBVIOUS
<1>5. come[a][a] = n - 1 /\ n \in Nat \ {0} /\ come[a][a] \in Nat
  <2>1. come[a][a] = n - 1 /\ come[a][a] \in Nat /\ n \in Nat
    BY <1>1, <1>2, <1>3, <1>4 DEF Ledger, EndRuns, Arrived, Numbers
  <2>q. QED
    BY <2>1
<1> DEFINE new == <<<<a, n>>>>
<1>6. /\ new \in Seq(Tuples)
      /\ Runs(new, a, n - 1, n)
      /\ \A s, l : s # a /\ l \in Nat => Runs(new, s, l, l)
  BY <1>3, <1>5, RunsOne
<1>7. /\ queue'[a] = queue[a] \o new
      /\ \A i \in Arcs \ {a} : queue'[i] = queue[i]
      /\ queue[a] \in Seq(Tuples)
  BY <1>1, <1>2, <1>3, <1>4 DEF EnqueueWrite, TypeOK, Typing, StorageTyping
<1> DEFINE row == [come[a] EXCEPT ![a] = n]
           come2 == [come EXCEPT ![a] = row]
<1>8. /\ row \in Numbers /\ row[a] = n
      /\ \A s \in InputArcs \ {a} : row[s] = come[a][s]
  BY <1>3, <1>5 DEF Numbers
<1>9. /\ come2 \in [Arcs -> Numbers] /\ come2[a] = row
      /\ \A i \in Arcs \ {a} : come2[i] = come[i]
  BY <1>3, <1>8, Rows
<1> HIDE DEF new, row, come2
<1>10. ASSUME NEW s \in InputArcs
       PROVE  /\ gone[a][s] <= row[s] /\ row[s] <= generated[s]
              /\ Runs(queue[a] \o new, s, gone[a][s], row[s])
              /\ s \notin c[a] => row[s] = 0
  <2>1. /\ gone[a][s] <= come[a][s] /\ come[a][s] <= generated[s]
        /\ Runs(queue[a], s, gone[a][s], come[a][s])
        /\ s \notin c[a] => come[a][s] = 0
        /\ gone[a][s] \in Nat /\ come[a][s] \in Nat
    BY <1>3 DEF Ledger, ArcRuns, Numbers
  <2>2. CASE s = a
    <3>1. Runs(queue[a] \o new, a, gone[a][a], n)
      BY <1>5, <1>6, <1>7, <2>1, <2>2, RunsConcat
    <3>2. a \in c[a]
      BY <1>3 DEF Carries
    <3>q. QED
      BY <1>4, <1>5, <1>8, <2>1, <2>2, <3>1, <3>2
  <2>3. CASE s # a
    <3>0. Runs(new, s, come[a][s], come[a][s])
      BY <1>6, <2>1, <2>3
    <3>1. Runs(queue[a] \o new, s, gone[a][s], come[a][s])
      BY <1>6, <1>7, <2>1, <3>0, RunsConcat
    <3>q. QED
      BY <1>8, <2>1, <2>3, <3>1
  <2>q. QED
    BY <2>2, <2>3
<1>11. ArcRuns(c, gone, come2)'
  <2> SUFFICES ASSUME NEW i \in Arcs, NEW s \in InputArcs
               PROVE  /\ gone[i][s] <= come2[i][s]
                      /\ come2[i][s] <= generated[s]
                      /\ Runs(queue'[i], s, gone[i][s], come2[i][s])
                      /\ s \notin c[i] => come2[i][s] = 0
    BY <1>2 DEF ArcRuns
  <2>1. CASE i = a
    BY <1>7, <1>9, <1>10, <2>1
  <2>2. CASE i # a
    <3>1. queue'[i] = queue[i] /\ come2[i] = come[i]
      BY <1>7, <1>9, <2>2
    <3>2. /\ gone[i][s] <= come[i][s]
          /\ come[i][s] <= generated[s]
          /\ Runs(queue[i], s, gone[i][s], come[i][s])
          /\ s \notin c[i] => come[i][s] = 0
      BY DEF Ledger, ArcRuns
    <3>q. QED
      BY <3>1, <3>2
  <2>q. QED
    BY <2>1, <2>2
<1>12. EndRuns(gone, come2)'
  <2>1. EndRuns(gone, come)
    BY DEF Ledger
  <2>2. come2[a][a] = Arrived(a)'
    BY <1>2, <1>4, <1>8, <1>9 DEF Arrived
  <2>3. ASSUME NEW i \in InputArcs \ {a} PROVE come2[i][i] = Arrived(i)'
    <3>1. Arrived(i)' = Arrived(i)
      BY <1>1, <1>2 DEF Arrived
    <3>2. come2[i] = come[i]
      BY <1>9 DEF InputArcs
    <3>q. QED
      BY <2>1, <3>1, <3>2 DEF EndRuns
  <2>q. QED
    BY <2>1, <2>2, <2>3 DEF EndRuns
<1>13. ASSUME NEW b \in Boxes
       PROVE  \A o \in OutArcs(b) : come2[o] = come[o]
  BY <1>3, <1>9, CatalogAssumption
<1>14. ASSUME NEW b \in Boxes, Rests(b)' PROVE Forwarded(c, b, gone, come2)'
  <2>1. Rests(b)
    BY <1>14 DEF Rests, AtWork
  <2>2. Forwarded(c, b, gone, come)
    BY <2>1 DEF Ledger
  <2>q. QED
    BY <1>13, <2>2 DEF Forwarded, InArcs, OutArcs
<1>15. ASSUME NEW v \in Workers, AtWork(v)'
       PROVE  TrainRuns(c, v, gone, come2, before[v], upto[v])'
  <2> DEFINE f == before[v]
             t == upto[v]
  <2>1. AtWork(v)
    BY <1>15 DEF AtWork
  <2>2. TrainRuns(c, v, gone, come, f, t)
    BY <2>1 DEF Ledger
  <2> HIDE DEF f, t
  <2>3. /\ v \in Busy /\ wqe[v].box \in Boxes
        /\ wqe[v].pin \in [Arcs -> Nat]
    BY <2>1, ElementHeld DEF AtWork, Busy
  <2>4. ASSUME NEW i \in InArcs(wqe[v].box), i \in Pinned(v)
        PROVE  SubSeq(queue'[i], 1, wqe[v].pin[i]) = SubSeq(queue[i], 1, wqe[v].pin[i])
    <3>1. i \in Arcs
      BY <2>3, CatalogAssumption
    <3>2. wqe[v].pin[i] <= Len(queue[i]) /\ wqe[v].pin[i] \in Nat
      BY <2>3, <2>4, <3>1 DEF PinsAvailable
    <3>3. CASE i = a
      BY <1>6, <1>7, <3>2, <3>3, FrontStays
    <3>4. CASE i # a
      BY <1>7, <3>1, <3>4
    <3>q. QED
      BY <3>3, <3>4
  <2>5. \A o \in OutArcs(wqe[v].box) : come2[o] = come[o]
    BY <1>13, <2>3
  <2>6. TrainRuns(c, v, gone, come2, f, t)'
    BY <1>2, <2>1, <2>2, <2>4, <2>5, TrainFrame
  <2>q. QED
    BY <2>6 DEF f, t
<1>16. Ledger(c, gone, come2, before, upto)'
  BY <1>11, <1>12, <1>14, <1>15 DEF Ledger
<1>q. QED
  BY <1>9, <1>16 DEF StreamLedger

-----------------------------------------------------------------------------
\* Where a worker starts and ends its work, and which steps move tuples.
LEMMA WorkerMoves ==
  ASSUME TypeOK, NEW w \in Workers, Worker(w)
  PROVE  /\ AtWork(w) /\ ~AtWork(w)' => ReleaseBox(w) \/ DoBox(w)
         /\ ~AtWork(w) /\ AtWork(w)' => CheckStop(w)
         /\ ~LoadQueue(w) /\ ~RemoveInput(w) /\ ~WriteOutput(w) => queue' = queue
         /\ LoadQueue(w) \/ RemoveInput(w) \/ WriteOutput(w) => AtWork(w)
         /\ ~AtWork(w) => ~LoadQueue(w) /\ ~RemoveInput(w) /\ ~WriteOutput(w)
         /\ \A v \in Workers \ {w} :
              /\ wpc'[v] = wpc[v] /\ wqe'[v] = wqe[v]
              /\ wout'[v] = wout[v] /\ warc'[v] = warc[v]
<1>0. WorkerTyping
  BY DEF TypeOK, Typing
<1>1. \A v \in Workers \ {w} :
        /\ wpc'[v] = wpc[v] /\ wqe'[v] = wqe[v]
        /\ wout'[v] = wout[v] /\ warc'[v] = warc[v]
  BY OtherWorkers DEF TypeOK, Typing
<1>2. ASSUME AtWork(w), ~AtWork(w)' PROVE ReleaseBox(w) \/ DoBox(w)
  <2>1. ~(AtTop(w) \/ CheckQueue(w) \/ WaitForWork(w) \/ CheckStop(w) \/ SignalScheduler(w))
    BY <1>2 DEF AtWork, AtTop, CheckQueue, WaitForWork, CheckStop, SignalScheduler
  <2>2. ~LoadQueue(w)
    BY <1>0, <1>2 DEF AtWork, LoadQueue, Advance, GoTo, WorkerTyping
  <2>3. ~RemoveInput(w)
    BY <1>0, <1>2 DEF AtWork, RemoveInput, Advance, GoTo, AfterInputs, WorkerTyping
  <2>4. ~ForgetInput(w)
    BY <1>0, <1>2 DEF AtWork, ForgetInput, Advance, GoTo, AfterInputs, WorkerTyping
  <2>5. ~(WriteOutput(w) \/ CountOutput(w) \/ AnnounceNewAppTuples(w))
    BY <1>0, <1>2 DEF AtWork, WriteOutput, CountOutput, AnnounceNewAppTuples,
                      Advance, GoTo, WorkerTyping
  <2>q. QED
    BY <2>1, <2>2, <2>3, <2>4, <2>5 DEF Worker
<1>3. ASSUME ~AtWork(w), AtWork(w)' PROVE CheckStop(w)
  <2>1. wpc[w] \in {"top", "queue", "nowork", "popped", "signal", "done", "aborted"}
    BY <1>0, <1>3 DEF AtWork, WorkerTyping, WorkerLocations
  <2>2. ~(AtTop(w) \/ CheckQueue(w) \/ WaitForWork(w) \/ SignalScheduler(w))
    BY <1>0, <1>3 DEF AtWork, AtTop, CheckQueue, WaitForWork, SignalScheduler,
                      GoTo, WorkerTyping
  <2>q. QED
    BY <2>1, <2>2 DEF Worker, LoadQueue, DoBox, RemoveInput, ForgetInput, WriteOutput,
                      CountOutput, AnnounceNewAppTuples, ReleaseBox
<1>4. ASSUME ~LoadQueue(w), ~RemoveInput(w), ~WriteOutput(w) PROVE queue' = queue
  BY <1>4 DEF Worker, AtTop, CheckQueue, WaitForWork, CheckStop, DoBox, ForgetInput,
              DequeueForget, CountOutput, EnqueueCount, AnnounceNewAppTuples,
              ReleaseBox, SignalScheduler
<1>5. LoadQueue(w) \/ RemoveInput(w) \/ WriteOutput(w) => AtWork(w)
  BY DEF LoadQueue, RemoveInput, WriteOutput, AtWork
<1>q. QED
  BY <1>1, <1>2, <1>3, <1>4, <1>5

\* Whatever a worker does, there are numbers for the ledger after it.
LEMMA WorkerLedger ==
  ASSUME TypeOK, TypeOK', BoxExclusion, CountsConsistent, PinsAvailable,
         BuffersEmpty, NEW c, Carries(c),
         NEW gone \in [Arcs -> Numbers], NEW come \in [Arcs -> Numbers],
         NEW before \in [Workers -> Numbers], NEW upto \in [Workers -> Numbers],
         Ledger(c, gone, come, before, upto),
         NEW w \in Workers, WorkerStep(w)
  PROVE  StreamLedger(c)'
<1>0. Worker(w) /\ UNCHANGED streamVars
  BY DEF WorkerStep
<1>1. CASE LoadQueue(w)
  BY <1>0, <1>1, LoadLedger
<1>2. CASE RemoveInput(w)
  BY <1>0, <1>2, RemoveLedger
<1>3. CASE WriteOutput(w)
  BY <1>0, <1>3, WriteLedger
<1>4. CASE ~LoadQueue(w) /\ ~RemoveInput(w) /\ ~WriteOutput(w)
  <2>1. queue' = queue
    BY <1>0, <1>4, WorkerMoves
  <2>2. CASE AtWork(w) /\ AtWork(w)'
    BY <1>0, <1>4, <2>1, <2>2, SameLedger
  <2>3. CASE AtWork(w) /\ ~AtWork(w)'
    <3>1. ReleaseBox(w) \/ DoBox(w)
      BY <1>0, <2>3, WorkerMoves
    <3>q. QED
      BY <1>0, <2>3, <3>1, EndLedger
  <2>4. CASE ~AtWork(w) /\ AtWork(w)'
    <3>1. CheckStop(w)
      BY <1>0, <2>4, WorkerMoves
    <3>q. QED
      BY <1>0, <2>4, <3>1, StartLedger
  <2>5. CASE ~AtWork(w) /\ ~AtWork(w)'
    <3>1. \A v \in Workers \ {w} :
            /\ wpc'[v] = wpc[v] /\ wqe'[v] = wqe[v]
            /\ wout'[v] = wout[v] /\ warc'[v] = warc[v]
      BY <1>0, WorkerMoves
    <3>2. \A v \in Workers : AtWork(v)' = AtWork(v)
      BY <2>5, <3>1 DEF AtWork
    <3>3. \A a \in InputArcs : Arrived(a)' = Arrived(a)
      BY <1>0 DEF Arrived
    <3>4. Ledger(c, gone, come, before, upto)'
      BY <1>0, <2>1, <2>5, <3>1, <3>2, <3>3, QuietLedger
    <3>q. QED
      BY <3>4 DEF StreamLedger
  <2>q. QED
    BY <2>2, <2>3, <2>4, <2>5
<1>q. QED
  BY <1>1, <1>2, <1>3, <1>4

\* The steps that leave the queues and the workers alone.
LEMMA StillLedger ==
  ASSUME TypeOK, NEW c,
         NEW gone \in [Arcs -> Numbers], NEW come \in [Arcs -> Numbers],
         NEW before \in [Workers -> Numbers], NEW upto \in [Workers -> Numbers],
         Ledger(c, gone, come, before, upto),
         UNCHANGED <<queue, generated, workerVars>>,
         \A a \in InputArcs : Arrived(a)' = Arrived(a)
  PROVE  StreamLedger(c)'
<1>1. Ledger(c, gone, come, before, upto)'
  BY QuietLedger DEF AtWork
<1>q. QED
  BY <1>1 DEF StreamLedger

\* The scheduler sizes trains by the counts and never touches the queues.
LEMMA QueuesLeft ==
  ASSUME SchedulerNext \/ TimePasses \/ UNCHANGED vars
  PROVE  UNCHANGED <<queue, streamVars, workerVars>>
<1>1. CASE SchedulerNext
  BY <1>1 DEF SchedulerNext, SchedulerStep, JoinWorker, WaitForEvent,
              SchedulerSleeps, SchedulerWoken, SchedulerTimeout, TestForStop,
              ReadSize, CopyWorkSet, TestBox, OrderCandidates, LoadSingleBox,
              SkipLockedBox, PinInput, PushElement, RefillDone, SignalWorker
<1>2. CASE TimePasses
  BY <1>2 DEF TimePasses
<1>3. CASE UNCHANGED vars
  BY <1>3 DEF vars
<1>q. QED
  BY <1>1, <1>2, <1>3

\* Every step of the runtime keeps the ledger.
LEMMA LedgerKept ==
  ASSUME IInv, TypeOK', NEW c, Carries(c), StreamLedger(c), [Next]_vars
  PROVE  StreamLedger(c)'
<1> USE DEF IInv
<1>0. PICK gone \in [Arcs -> Numbers], come \in [Arcs -> Numbers],
           before \in [Workers -> Numbers], upto \in [Workers -> Numbers] :
        Ledger(c, gone, come, before, upto)
  BY DEF StreamLedger
<1>1. ASSUME NEW w \in Workers, WorkerStep(w) PROVE StreamLedger(c)'
  BY <1>0, <1>1, WorkerLedger
<1>2. CASE StreamNext
  <2>0. UNCHANGED workerVars
    BY <1>2 DEF StreamNext
  <2>1. ASSUME NEW a \in InputArcs, GenerateTuple(a) PROVE StreamLedger(c)'
    BY <1>0, <2>0, <2>1, GenerateLedger
  <2>2. CASE StoreTuple
    BY <1>0, <2>0, <2>2, StoreLedger
  <2>3. CASE CountTuple \/ WakeScheduler \/ StreamEnds
    <3>1. /\ UNCHANGED <<queue, generated>>
          /\ ppc # "enq" /\ ppc' # "enq"
      BY <2>3 DEF CountTuple, EnqueueCount, WakeScheduler, StreamEnds
    <3>2. \A a \in InputArcs : Arrived(a)' = Arrived(a)
      BY <3>1 DEF Arrived
    <3>q. QED
      BY <1>0, <2>0, <3>1, <3>2, StillLedger
  <2>q. QED
    BY <1>2, <2>1, <2>2, <2>3 DEF StreamNext, StreamStep
<1>3. CASE SchedulerNext \/ TimePasses \/ UNCHANGED vars
  <2>1. UNCHANGED <<queue, streamVars, workerVars>>
    BY <1>3, QueuesLeft
  <2>2. \A a \in InputArcs : Arrived(a)' = Arrived(a)
    BY <2>1 DEF Arrived
  <2>q. QED
    BY <1>0, <2>1, <2>2, StillLedger
<1>q. QED
  BY <1>1, <1>2, <1>3 DEF Next

\* The ledger holds in every state of every behaviour.
LEMMA LedgerAlways ==
  ASSUME NEW CONSTANT c, Carries(c)
  PROVE  Spec => []StreamLedger(c)
<1>1. Init => StreamLedger(c)
  BY InitLedger
<1>2. IInv /\ IInv' /\ StreamLedger(c) /\ [Next]_vars => StreamLedger(c)'
  <2>1. IInv' => TypeOK'
    BY DEF IInv
  <2>q. QED
    BY <2>1, LedgerKept
<1>q. QED
  BY <1>1, <1>2, Inductive, PTL DEF Spec

-----------------------------------------------------------------------------
\* A run from the first tuple is what a sink may have received of a source.
LEMMA RunsInOrder ==
  ASSUME NEW q \in Seq(Tuples), NEW s \in InputArcs, NEW h \in Nat,
         generated[s] \in Nat, h <= generated[s], Runs(q, s, 0, h)
  PROVE  Streams!InOrder(s, q)
<1> DEFINE mine == {i \in DOMAIN q : q[i][1] = s}
<1>1. \A i, j \in mine : i < j => q[i][2] < q[j][2]
  BY DEF Runs
<1>2. \A i \in DOMAIN q : q[i][2] \in Nat
  BY TupleAt
<1>3. \A i \in mine : q[i][2] \in 1..h
  BY <1>2 DEF Runs
<1>4. \A n \in 1..h : \E i \in mine : q[i][2] = n
  BY DEF Runs
<1>5. {q[i][2] : i \in mine} = 1..h
  BY <1>3, <1>4
<1>6. h \in 0..generated[s]
  OBVIOUS
<1>q. QED
  BY <1>1, <1>5, <1>6 DEF Streams!InOrder

\* What the ledger says of the arc of an application after a step.
LEMMA ReceivedInOrder ==
  ASSUME NEW c, StreamLedger(c)', NEW k \in AppArcs, NEW s \in InputArcs
  PROVE  \E h \in Nat : h <= generated'[s] /\ Runs(queue'[k], s, 0, h)
<1>1. PICK gone \in [Arcs -> Numbers], come \in [Arcs -> Numbers],
           before \in [Workers -> Numbers], upto \in [Workers -> Numbers] :
        Ledger(c, gone, come, before, upto)'
  BY DEF StreamLedger
<1>2. k \in Arcs
  BY DEF AppArcs
<1>3. come[k][s] \in Nat
  BY <1>2 DEF Numbers
<1>4. gone[k][s] = 0
  BY <1>1 DEF Ledger, EndRuns
<1>5. Runs(queue'[k], s, gone[k][s], come[k][s]) /\ come[k][s] <= generated'[s]
  BY <1>1, <1>2 DEF Ledger, ArcRuns
<1>q. QED
  BY <1>3, <1>4, <1>5

\* What is appended to one arc is received there, if it is an application's.
LEMMA AppendReceives ==
  ASSUME TypeOK, TypeOK', NEW c, StreamLedger(c)',
         NEW arc \in Arcs, NEW new \in Seq(Tuples),
         queue' = [queue EXCEPT ![arc] = @ \o new], generated' = generated
  PROVE  [Streams!Next]_<<generated, [a \in AppArcs |-> queue[a]]>>
<1> DEFINE recv == [a \in AppArcs |-> queue[a]]
<1>0. /\ queue \in [Arcs -> Seq(Tuples)] /\ queue' \in [Arcs -> Seq(Tuples)]
      /\ generated \in [InputArcs -> Nat]
  BY DEF TypeOK, Typing, StorageTyping, StreamTyping
<1>1. /\ AppArcs \subseteq Arcs
      /\ \A i \in Arcs \ {arc} : queue'[i] = queue[i]
      /\ queue'[arc] = queue[arc] \o new
  BY <1>0 DEF AppArcs
<1>2. CASE arc \notin AppArcs \/ new = <<>>
  <2>0. new = <<>> => queue[arc] \o new = queue[arc]
    BY <1>0, ConcatEmptySeq
  <2>1. \A k \in AppArcs : queue'[k] = queue[k]
    BY <1>1, <1>2, <2>0
  <2>2. recv' = recv
    BY <2>1
  <2>q. QED
    BY <2>2
<1>3. CASE arc \in AppArcs /\ new # <<>>
  <2>1. Len(new) \in Nat \ {0} /\ Len(queue[arc]) \in Nat
    BY <1>0, <1>3
  <2>2. Len(queue'[arc]) = Len(queue[arc]) + Len(new)
    BY <1>0, <1>1
  <2>3. SubSeq(queue'[arc], 1, Len(queue[arc])) = queue[arc]
    <3>1. SubSeq(queue[arc] \o new, 1, Len(queue[arc])) = SubSeq(queue[arc], 1, Len(queue[arc]))
      BY <1>0, <2>1, FrontStays
    <3>2. SubSeq(queue[arc], 1, Len(queue[arc])) = queue[arc]
      BY <1>0
    <3>q. QED
      BY <1>1, <3>1, <3>2
  <2>4. ASSUME NEW s \in InputArcs PROVE Streams!InOrder(s, queue'[arc])
    <3>1. \E h \in Nat : h <= generated'[s] /\ Runs(queue'[arc], s, 0, h)
      BY <1>3, ReceivedInOrder
    <3>2. PICK h \in Nat : h <= generated[s] /\ Runs(queue'[arc], s, 0, h)
      BY <3>1
    <3>3. queue'[arc] \in Seq(Tuples) /\ generated[s] \in Nat
      BY <1>0
    <3>q. QED
      BY <3>2, <3>3, RunsInOrder
  <2>5. Streams!Receive(arc)
    BY <1>1, <1>3, <2>1, <2>2, <2>3, <2>4 DEF Streams!Receive
  <2>q. QED
    BY <1>3, <2>5 DEF Streams!Next
<1>q. QED
  BY <1>2, <1>3

\* A step that sends nothing and leaves the applications' arcs alone stutters.
LEMMA Stutters ==
  ASSUME generated' = generated, \A k \in AppArcs : queue'[k] = queue[k]
  PROVE  [Streams!Next]_<<generated, [a \in AppArcs |-> queue[a]]>>
OBVIOUS

\* Generating a tuple is sending it, storing on an application's arc is
\* receiving; every other step stutters.
LEMMA StreamsStep ==
  ASSUME IInv, IInv', NEW c, StreamLedger(c)', [Next]_vars
  PROVE  [Streams!Next]_<<generated, [a \in AppArcs |-> queue[a]]>>
<1>0. TypeOK /\ TypeOK' /\ CountsConsistent /\ PinsAvailable
  BY DEF IInv
<1>1. ASSUME NEW w \in Workers, WorkerStep(w)
      PROVE  [Streams!Next]_<<generated, [a \in AppArcs |-> queue[a]]>>
  <2>0. Worker(w) /\ generated' = generated
    BY <1>1 DEF WorkerStep
  <2>1. CASE WriteOutput(w)
    <3>1. PICK arc : arc = Outputs(w)[warc[w]]
      OBVIOUS
    <3>2. arc \in Arcs
      BY <1>0, <2>1, <3>1, OutputAt DEF WriteOutput
    <3>3. wout[w] \in Seq(Tuples)
      BY <1>0 DEF TypeOK, Typing, WorkerTyping
    <3>4. queue' = [queue EXCEPT ![arc] = @ \o wout[w]]
      BY <2>1, <3>1 DEF WriteOutput, EnqueueWrite
    <3>q. QED
      BY <1>0, <2>0, <3>2, <3>3, <3>4, AppendReceives
  <2>2. CASE RemoveInput(w)
    <3>1. PICK arc : arc = Inputs(w)[warc[w]]
      OBVIOUS
    <3>2. /\ arc \in InArcs(wqe[w].box) /\ wqe[w].box \in Boxes
          /\ \A i \in Arcs \ {arc} : queue'[i] = queue[i]
      BY <1>0, <2>2, <3>1, RemoveTakes, ElementHeld DEF RemoveInput
    <3>3. arc \notin AppArcs
      BY <3>2, CatalogAssumption DEF AppArcs
    <3>4. \A k \in AppArcs : queue'[k] = queue[k]
      BY <3>2, <3>3 DEF AppArcs
    <3>q. QED
      BY <2>0, <3>4, Stutters
  <2>3. CASE ~WriteOutput(w) /\ ~RemoveInput(w)
    <3>1. queue' = queue
      BY <1>0, <2>0, <2>3, WorkerMoves DEF LoadQueue
    <3>q. QED
      BY <2>0, <3>1, Stutters
  <2>q. QED
    BY <2>1, <2>2, <2>3
<1>2. ASSUME NEW s \in InputArcs, GenerateTuple(s)
      PROVE  [Streams!Next]_<<generated, [a \in AppArcs |-> queue[a]]>>
  <2>1. Streams!Send(s)
    BY <1>2 DEF GenerateTuple, Streams!Send
  <2>q. QED
    BY <2>1 DEF Streams!Next
<1>3. CASE StoreTuple
  <2>1. parc \in Arcs /\ generated[parc] \in Nat
    BY <1>0, <1>3 DEF StoreTuple, TypeOK, Typing, StreamTyping, StreamPhases, InputArcs
  <2>2. <<<<parc, generated[parc]>>>> \in Seq(Tuples)
    <3>1. <<parc, generated[parc]>> \in Tuples
      BY <2>1 DEF Tuples
    <3>q. QED
      BY <3>1
  <2>q. QED
    BY <1>0, <1>3, <2>1, <2>2, AppendReceives DEF StoreTuple, EnqueueWrite
<1>4. CASE CountTuple \/ WakeScheduler \/ StreamEnds
  <2>1. UNCHANGED <<queue, generated>>
    BY <1>4 DEF CountTuple, EnqueueCount, WakeScheduler, StreamEnds
  <2>q. QED
    BY <2>1, Stutters
<1>5. CASE SchedulerNext \/ TimePasses \/ UNCHANGED vars
  BY <1>5, QueuesLeft, Stutters
<1>q. QED
  BY <1>1, <1>2, <1>3, <1>4, <1>5 DEF Next, StreamNext, StreamStep

\* Nothing is sent or received at first.
LEMMA StreamsInit == Init => Streams!Init
<1>1. Init => /\ generated = [s \in InputArcs |-> 0]
              /\ queue = [a \in Arcs |-> <<>>]
  BY DEF Init, StreamInit, SMInit
<1>2. AppArcs \subseteq Arcs
  BY DEF AppArcs
<1>q. QED
  BY <1>1, <1>2 DEF Streams!Init

\* Whatever the trains, the policy, the number of workers and the
\* interleavings, an application's arc has the tuples of every input arc in
\* the order they were generated, each once and none before the one ahead of
\* it, where a tuple has one way to any arc.
THEOREM StreamsImplemented ==
  ASSUME SinglePath
  PROVE  Spec => ImplementsStreams
<1>1. PICK c \in [Arcs -> SUBSET InputArcs] : Carries(c)
  BY DEF SinglePath
<1>2. Spec => []StreamLedger(c)
  BY <1>1, LedgerAlways
<1>3. Init => Streams!Init
  BY StreamsInit
<1>4. IInv /\ IInv' /\ StreamLedger(c)' /\ [Next]_vars
      => [Streams!Next]_<<generated, [a \in AppArcs |-> queue[a]]>>
  BY StreamsStep
<1>5. Spec => Streams!Spec
  BY <1>2, <1>3, <1>4, Inductive, PTL DEF Spec, Streams!Spec
<1>q. QED
  BY <1>5 DEF ImplementsStreams
=============================================================================
