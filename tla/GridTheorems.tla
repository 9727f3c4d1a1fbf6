---------------------------- MODULE GridTheorems ----------------------------
(***************************************************************************)
(* Scheduling by buckets, for all graphs of utilities, all costs, any      *)
(* number of buckets and boxes.                                            *)
(*                                                                         *)
(* CellsCover is about the tables, which no step changes.  The graph of a  *)
(* box consists of fractions at ascending latencies; the extremes of all   *)
(* graphs are no less than any step of one; so a bucket that a graph       *)
(* reaches has a cell, and the slope and the slack of a latency are among  *)
(* those that its cell is the highest of.                                  *)
(*                                                                         *)
(* GridCorrect rests on GridInv.  In mode "box" what is placed or chosen   *)
(* is always unlocked.  In mode "app" this may fail, so that the argument  *)
(* is about a tidy walk, one that neither came to its limit nor found      *)
(* boxes of an earlier one: it comes to every cell once, as the urgency    *)
(* list is in the order of the cells, and so makes no box a candidate      *)
(* twice.                                                                  *)
(***************************************************************************)
EXTENDS PriorityGrid, FunctionTheorems, SequenceTheorems, SumTheorems

-----------------------------------------------------------------------------
(* Lists *)

\* How many elements of a set are less than x.
Below(S, x) == Cardinality({y \in S : y < x})

\* The rank of an element is less than the size of the set, and less than the
\* rank of whatever is greater.
LEMMA RankFacts ==
  ASSUME NEW S, S \subseteq Int, IsFiniteSet(S)
  PROVE  /\ Cardinality(S) \in Nat
         /\ \A x \in S : Below(S, x) \in 0..(Cardinality(S) - 1)
         /\ \A x, y \in S : x < y => Below(S, x) < Below(S, y)
<1> DEFINE L(x) == {y \in S : y < x}
<1>1. Cardinality(S) \in Nat
  BY FS_CardinalityType
<1>2. ASSUME NEW x \in S
      PROVE  /\ L(x) \in SUBSET S
             /\ IsFiniteSet(L(x)) /\ Cardinality(L(x)) \in Nat
             /\ Cardinality(L(x) \cup {x}) = Cardinality(L(x)) + 1
             /\ IsFiniteSet(L(x) \cup {x})
  <2>1. L(x) \in SUBSET S /\ x \notin L(x)
    OBVIOUS
  <2> HIDE DEF L
  <2>2. IsFiniteSet(L(x)) /\ Cardinality(L(x)) \in Nat
    BY <2>1, FS_Subset, FS_CardinalityType
  <2>q. QED
    BY <2>1, <2>2, FS_AddElement
<1>3. ASSUME NEW x \in S
      PROVE  Below(S, x) \in 0..(Cardinality(S) - 1)
  <2>1. L(x) \cup {x} \in SUBSET S
    OBVIOUS
  <2>2. Cardinality(L(x) \cup {x}) <= Cardinality(S)
    BY <2>1, FS_Subset, Zenon
  <2>3. Below(S, x) = Cardinality(L(x))
    BY DEF Below
  <2> HIDE DEF L
  <2>q. QED
    BY <1>1, <1>2, <2>2, <2>3
<1>4. ASSUME NEW x \in S, NEW y \in S, x < y
      PROVE  Below(S, x) < Below(S, y)
  <2>1. L(x) \cup {x} \in SUBSET L(y)
    <3> SUFFICES ASSUME NEW z \in L(x) \cup {x} PROVE z \in S /\ z < y
      OBVIOUS
    <3>1. z \in S /\ (z = x \/ z < x)
      OBVIOUS
    <3>2. x \in Int /\ y \in Int /\ z \in Int
      BY <3>1
    <3> HIDE DEF L
    <3>q. QED
      BY <1>4, <3>1, <3>2
  <2>3. Below(S, x) = Cardinality(L(x)) /\ Below(S, y) = Cardinality(L(y))
    BY DEF Below
  <2>4. /\ IsFiniteSet(L(y)) /\ Cardinality(L(y)) \in Nat
        /\ Cardinality(L(x)) \in Nat
        /\ Cardinality(L(x) \cup {x}) = Cardinality(L(x)) + 1
    BY <1>2
  <2> HIDE DEF L
  <2>2. Cardinality(L(x) \cup {x}) <= Cardinality(L(y))
    BY <2>1, <2>4, FS_Subset, Zenon
  <2>q. QED
    BY <2>2, <2>3, <2>4
<1>q. QED
  BY <1>1, <1>3, <1>4

\* What Ascending returns has all elements of the set, in ascending order.
LEMMA AscendingProperties ==
  ASSUME NEW S, S \subseteq Int, IsFiniteSet(S)
  PROVE  /\ Cardinality(S) \in Nat
         /\ Ascending(S) \in [1..Cardinality(S) -> S]
         /\ Ascending(S) \in Seq(S)
         /\ Len(Ascending(S)) = Cardinality(S)
         /\ DOMAIN Ascending(S) = 1..Cardinality(S)
         /\ \A i, j \in 1..Cardinality(S) : i < j => Ascending(S)[i] < Ascending(S)[j]
         /\ \A x \in S : \E n \in 1..Cardinality(S) : Ascending(S)[n] = x
<1> DEFINE N == Cardinality(S)
           rank == [x \in S |-> Below(S, x) + 1]
           f == Ascending(S)
<1>1. /\ N \in Nat
      /\ \A x \in S : Below(S, x) \in 0..(N - 1)
      /\ \A x, y \in S : x < y => Below(S, x) < Below(S, y)
  BY RankFacts
<1>2. rank \in Injection(S, 1..N)
  <2>1. rank \in [S -> 1..N]
    BY <1>1
  <2>2. ASSUME NEW x \in S, NEW y \in S, rank[x] = rank[y] PROVE x = y
    <3>1. Below(S, x) = Below(S, y)
      BY <1>1, <2>2
    <3>2. ~(x < y) /\ ~(y < x)
      BY <1>1, <3>1
    <3>3. x \in Int /\ y \in Int
      OBVIOUS
    <3>q. QED
      BY <3>2, <3>3
  <2> HIDE DEF rank, N
  <2>q. QED
    BY <2>1, <2>2, Fun_IsInj
<1>3. rank \in Surjection(S, 1..N)
  <2>1. IsFiniteSet(1..N) /\ Cardinality(1..N) = N
    <3> HIDE DEF N
    <3>1. IsFiniteSet(1..N) /\ Cardinality(1..N) = IF 1 > N THEN 0 ELSE N - 1 + 1
      BY <1>1, FS_Interval
    <3>q. QED
      BY <1>1, <3>1
  <2>2. Cardinality(S) = Cardinality(1..N)
    BY <2>1
  <2> HIDE DEF rank, N
  <2>q. QED
    BY <1>2, <2>1, <2>2, FS_Injection
<1>4. \A n \in 1..N : \E x \in S : Below(S, x) = n - 1
  <2> SUFFICES ASSUME NEW n \in 1..N PROVE \E x \in S : Below(S, x) = n - 1
    OBVIOUS
  <2>0. \A t \in 1..N : \E x \in S : rank[x] = t
    <3> HIDE DEF rank, N
    <3> QED BY <1>3, Fun_SurjectionProperties
  <2>1. PICK x \in S : rank[x] = n
    <3> HIDE DEF rank, N
    <3> QED BY <2>0
  <2>2. Below(S, x) + 1 = n /\ Below(S, x) \in Int
    BY <1>1, <2>1
  <2>q. QED
    BY <2>2
<1>5. f = [n \in 1..N |-> CHOOSE x \in S : Below(S, x) = n - 1]
  BY DEF Ascending, Below
<1>6. \A n \in 1..N : f[n] \in S /\ Below(S, f[n]) = n - 1
  <2> HIDE DEF f, N
  <2> QED BY <1>4, <1>5
<1>7. f \in [1..N -> S]
  <2> HIDE DEF f, N
  <2> QED BY <1>5, <1>6
<1>8. f \in Seq(S) /\ Len(f) = N /\ DOMAIN f = 1..N
  <2> HIDE DEF f, N
  <2> QED BY <1>1, <1>7
<1>9. ASSUME NEW i \in 1..N, NEW j \in 1..N, i < j PROVE f[i] < f[j]
  <2> HIDE DEF f, N
  <2>1. f[i] \in Int /\ f[j] \in Int
    BY <1>6
  <2>2. f[i] # f[j]
    BY <1>6, <1>9
  <2>3. ~(f[j] < f[i])
    <3> SUFFICES ASSUME f[j] < f[i] PROVE FALSE
      OBVIOUS
    <3>1. Below(S, f[j]) < Below(S, f[i])
      BY <1>1, <1>6
    <3>2. j - 1 < i - 1
      BY <1>6, <3>1
    <3>q. QED
      BY <1>9, <3>2
  <2>q. QED
    BY <2>1, <2>2, <2>3
<1>10. ASSUME NEW x \in S PROVE \E n \in 1..N : f[n] = x
  <2> HIDE DEF f, N
  <2>1. Below(S, x) + 1 \in 1..N
    BY <1>1
  <2>2. f[Below(S, x) + 1] \in S /\ Below(S, f[Below(S, x) + 1]) = Below(S, x)
    BY <1>1, <1>6, <2>1
  <2>3. f[Below(S, x) + 1] = x
    <3> DEFINE y == f[Below(S, x) + 1]
    <3>1. y \in Int /\ x \in Int /\ Below(S, y) = Below(S, x) /\ y \in S
      BY <2>2
    <3> HIDE DEF y
    <3>2. ~(x < y) /\ ~(y < x)
      BY <1>1, <3>1
    <3>3. x = y
      BY <3>1, <3>2
    <3>q. QED
      BY <3>3 DEF y
  <2>q. QED
    BY <2>1, <2>3
<1>q. QED
  BY <1>1, <1>7, <1>8, <1>9, <1>10

\* What Keep returns is in the list and in the set, and nothing twice that the
\* list has once.
LEMMA KeepProperties ==
  ASSUME NEW T, NEW s \in Seq(T), NEW S
  PROVE  /\ Keep(s, S) \in Seq(T)
         /\ ToSet(Keep(s, S)) = ToSet(s) \cap S
         /\ IsInjective(s) => IsInjective(Keep(s, S))
<1> DEFINE P == {i \in DOMAIN s : s[i] \in S}
           at == Ascending(P)
           N == Cardinality(P)
           k == Keep(s, S)
<1>1. Len(s) \in Nat /\ DOMAIN s = 1..Len(s) /\ \A i \in 1..Len(s) : s[i] \in T
  OBVIOUS
<1>2. P \subseteq 1..Len(s) /\ P \subseteq Int
  BY <1>1
<1>3. IsFiniteSet(P)
  <2>1. IsFiniteSet(1..Len(s))
    BY <1>1, FS_Interval
  <2> HIDE DEF P
  <2>q. QED
    BY <1>2, <2>1, FS_Subset
<1>4. /\ N \in Nat /\ at \in [1..N -> P] /\ DOMAIN at = 1..N
      /\ \A i, j \in 1..N : i < j => at[i] < at[j]
      /\ \A x \in P : \E n \in 1..N : at[n] = x
  <2> HIDE DEF P
  <2> QED BY <1>2, <1>3, AscendingProperties
<1>5. k = [n \in 1..N |-> s[at[n]]]
  BY <1>4 DEF Keep
<1>6. \A i \in P : i \in 1..Len(s) /\ s[i] \in T /\ s[i] \in S
  BY <1>1
<1>7. \A i \in 1..Len(s) : s[i] \in S => i \in P
  BY <1>1
<1> HIDE DEF P, at, N, k
<1>8. k \in Seq(T) /\ DOMAIN k = 1..N
  <2>1. \A n \in 1..N : s[at[n]] \in T
    BY <1>4, <1>6
  <2>q. QED
    BY <1>4, <1>5, <2>1
<1>9. ToSet(k) = ToSet(s) \cap S
  <2>1. ASSUME NEW x \in ToSet(k) PROVE x \in ToSet(s) \cap S
    <3>1. PICK n \in 1..N : x = s[at[n]]
      BY <1>5, <1>8, <2>1 DEF ToSet
    <3>q. QED
      BY <1>1, <1>4, <1>6, <3>1 DEF ToSet
  <2>2. ASSUME NEW x \in ToSet(s) \cap S PROVE x \in ToSet(k)
    <3>1. PICK i \in 1..Len(s) : x = s[i]
      BY <1>1 DEF ToSet
    <3>2. i \in P
      BY <1>7, <3>1
    <3>3. PICK n \in 1..N : at[n] = i
      BY <1>4, <3>2
    <3>q. QED
      BY <1>5, <1>8, <3>1, <3>3 DEF ToSet
  <2>q. QED
    BY <2>1, <2>2
<1>10. ASSUME IsInjective(s) PROVE IsInjective(k)
  <2> SUFFICES ASSUME NEW m \in 1..N, NEW n \in 1..N, k[m] = k[n] PROVE m = n
    BY <1>8 DEF IsInjective
  <2>1. at[m] \in P /\ at[n] \in P /\ s[at[m]] = s[at[n]]
    BY <1>4, <1>5
  <2>2. at[m] = at[n]
    BY <1>1, <1>6, <1>10, <2>1 DEF IsInjective
  <2>3. ~(m < n) /\ ~(n < m)
    <3>1. at[m] \in Int
      BY <1>2, <2>1
    <3>q. QED
      BY <1>4, <2>2, <3>1
  <2>q. QED
    BY <1>4, <2>3
<1>q. QED
  BY <1>8, <1>9, <1>10 DEF k

\* What FlattenSeq recurses with.
FlatStep(g, ss, n) == IF n = 1 THEN ss[n] ELSE g[n - 1] \o ss[n]

\* There is such a function: it is built up from one list to the next.
LEMMA FlatExists ==
  ASSUME NEW ss, NEW N \in Nat
  PROVE  \E g : g = [n \in 1..N |-> FlatStep(g, ss, n)]
<1> DEFINE Upto(g, m) == g = [n \in 1..m |-> FlatStep(g, ss, n)]
           T == {m \in Nat : \E g : Upto(g, m)}
<1>0. ASSUME NEW g, NEW h, NEW n \in Nat, n # 1 => g[n - 1] = h[n - 1]
      PROVE  FlatStep(g, ss, n) = FlatStep(h, ss, n)
  BY <1>0 DEF FlatStep
<1>1. 0 \in T
  <2>1. 1..0 = {}
    OBVIOUS
  <2>2. Upto(<<>>, 0)
    BY <2>1
  <2>q. QED
    BY <2>2
<1>2. ASSUME NEW m \in Nat, m \in T PROVE m + 1 \in T
  <2> PICK g : Upto(g, m)
    BY <1>2
  <2> DEFINE h == [n \in 1..(m + 1) |-> FlatStep(g, ss, n)]
  <2>1. \A n \in 1..m : h[n] = g[n]
    OBVIOUS
  <2> HIDE DEF h
  <2>2. ASSUME NEW n \in 1..(m + 1)
        PROVE  FlatStep(g, ss, n) = FlatStep(h, ss, n)
    <3>1. n # 1 => n - 1 \in 1..m
      OBVIOUS
    <3>2. n # 1 => g[n - 1] = h[n - 1]
      BY <3>1, <2>1
    <3>q. QED
      BY <3>2, <1>0
  <2>3. Upto(h, m + 1)
    <3>1. h = [n \in 1..(m + 1) |-> FlatStep(g, ss, n)]
      BY DEF h
    <3>q. QED
      BY <3>1, <2>2, Zenon
  <2>q. QED
    BY <2>3
<1>3. \A m \in Nat : m \in T
  <2> HIDE DEF T
  <2> QED BY <1>1, <1>2, NatSetInduction
<1>q. QED
  BY <1>3

(***************************************************************************)
(* A list is made of the first n lists of ss: block and offset say where   *)
(* each of its elements comes from, and nothing of them is missing.        *)
(***************************************************************************)
MadeOf(flat, ss, n, block, offset) ==
  /\ \A p \in DOMAIN flat :
       /\ block[p] \in 1..n
       /\ offset[p] \in DOMAIN ss[block[p]]
       /\ flat[p] = ss[block[p]][offset[p]]
  /\ \A p, q \in DOMAIN flat :
       p < q => \/ block[p] < block[q]
                \/ block[p] = block[q] /\ offset[p] < offset[q]
  /\ \A i \in 1..n : \A j \in DOMAIN ss[i] :
       \E p \in DOMAIN flat : block[p] = i /\ offset[p] = j

\* One list more.
LEMMA MadeOfNext ==
  ASSUME NEW T, NEW ss \in Seq(Seq(T)), NEW n \in Nat, n + 1 \in DOMAIN ss,
         NEW flat \in Seq(T), NEW block, NEW offset, MadeOf(flat, ss, n, block, offset)
  PROVE  /\ flat \o ss[n + 1] \in Seq(T)
         /\ \E b, o : MadeOf(flat \o ss[n + 1], ss, n + 1, b, o)
<1> DEFINE t == ss[n + 1]
           L == Len(flat)
           M == Len(t)
           new == flat \o t
           b == [p \in 1..(L + M) |-> IF p <= L THEN block[p] ELSE n + 1]
           o == [p \in 1..(L + M) |-> IF p <= L THEN offset[p] ELSE p - L]
<1>1. t \in Seq(T)
  OBVIOUS
<1>2. /\ L \in Nat /\ DOMAIN flat = 1..L
      /\ M \in Nat /\ DOMAIN t = 1..M
  <2> HIDE DEF t
  <2> QED BY <1>1
<1>3. /\ new \in Seq(T) /\ DOMAIN new = 1..(L + M)
      /\ \A p \in 1..(L + M) : new[p] = IF p <= L THEN flat[p] ELSE t[p - L]
  <2>1. /\ new \in Seq(T) /\ Len(new) = L + M
        /\ \A p \in 1..(L + M) : new[p] = IF p <= L THEN flat[p] ELSE t[p - L]
    <3> HIDE DEF t
    <3> QED BY <1>1, ConcatProperties
  <2>2. DOMAIN new = 1..Len(new)
    <3> HIDE DEF new
    <3> QED BY <2>1
  <2>q. QED
    BY <2>1, <2>2
<1>4. /\ \A p \in 1..(L + M) : p <= L => b[p] = block[p] /\ o[p] = offset[p]
      /\ \A p \in 1..(L + M) : p > L => b[p] = n + 1 /\ o[p] = p - L
  BY <1>2
<1>5. \A p \in 1..L : block[p] \in 1..n
  BY <1>2 DEF MadeOf
<1> HIDE DEF t, L, M, new, b, o
<1>6. ASSUME NEW p \in 1..(L + M)
      PROVE  b[p] \in 1..(n + 1) /\ o[p] \in DOMAIN ss[b[p]] /\ new[p] = ss[b[p]][o[p]]
  <2>1. CASE p <= L
    <3>1. p \in DOMAIN flat /\ b[p] = block[p] /\ o[p] = offset[p] /\ new[p] = flat[p]
      BY <1>2, <1>3, <1>4, <2>1
    <3>2. block[p] \in 1..n /\ offset[p] \in DOMAIN ss[block[p]] /\ flat[p] = ss[block[p]][offset[p]]
      BY <3>1 DEF MadeOf
    <3>q. QED
      BY <3>1, <3>2
  <2>2. CASE ~(p <= L)
    <3>1. b[p] = n + 1 /\ o[p] = p - L /\ new[p] = t[p - L] /\ p - L \in 1..M
      BY <1>2, <1>3, <1>4, <2>2
    <3>q. QED
      BY <1>2, <3>1 DEF t
  <2>q. QED
    BY <2>1, <2>2
<1>7. ASSUME NEW p \in 1..(L + M), NEW q \in 1..(L + M), p < q
      PROVE  b[p] < b[q] \/ (b[p] = b[q] /\ o[p] < o[q])
  <2>1. CASE q <= L
    <3>1. /\ p \in DOMAIN flat /\ q \in DOMAIN flat
          /\ b[p] = block[p] /\ o[p] = offset[p] /\ b[q] = block[q] /\ o[q] = offset[q]
      BY <1>2, <1>4, <1>7, <2>1
    <3>q. QED
      BY <1>7, <3>1 DEF MadeOf
  <2>2. CASE p <= L /\ ~(q <= L)
    <3>1. b[p] = block[p] /\ block[p] \in 1..n /\ b[q] = n + 1
      BY <1>2, <1>4, <1>5, <2>2
    <3>q. QED
      BY <3>1
  <2>3. CASE ~(p <= L)
    <3>1. b[p] = n + 1 /\ b[q] = n + 1 /\ o[p] = p - L /\ o[q] = q - L
      BY <1>2, <1>4, <1>7, <2>3
    <3>q. QED
      BY <1>2, <1>7, <3>1
  <2>q. QED
    BY <1>2, <2>1, <2>2, <2>3
<1>8. ASSUME NEW i \in 1..(n + 1), NEW j \in DOMAIN ss[i]
      PROVE  \E p \in 1..(L + M) : b[p] = i /\ o[p] = j
  <2>1. CASE i \in 1..n
    <3>1. PICK p \in DOMAIN flat : block[p] = i /\ offset[p] = j
      BY <2>1 DEF MadeOf
    <3>2. p \in 1..(L + M) /\ p <= L
      BY <1>2
    <3>q. QED
      BY <1>4, <3>1, <3>2
  <2>2. CASE i = n + 1
    <3>1. j \in 1..M
      BY <1>2, <2>2 DEF t
    <3>2. L + j \in 1..(L + M) /\ L + j > L /\ (L + j) - L = j
      BY <1>2, <3>1
    <3>q. QED
      BY <1>4, <2>2, <3>2
  <2>3. i \in 1..n \/ i = n + 1
    OBVIOUS
  <2>q. QED
    BY <2>1, <2>2, <2>3, Zenon
<1>9. MadeOf(new, ss, n + 1, b, o)
  <2>1. \A p \in DOMAIN new :
          b[p] \in 1..(n + 1) /\ o[p] \in DOMAIN ss[b[p]] /\ new[p] = ss[b[p]][o[p]]
    BY <1>3, <1>6, Zenon
  <2>2. \A p, q \in DOMAIN new : p < q => b[p] < b[q] \/ (b[p] = b[q] /\ o[p] < o[q])
    BY <1>3, <1>7, Zenon
  <2>3. \A i \in 1..(n + 1) : \A j \in DOMAIN ss[i] :
          \E p \in DOMAIN new : b[p] = i /\ o[p] = j
    <3> SUFFICES ASSUME NEW i \in 1..(n + 1), NEW j \in DOMAIN ss[i]
                 PROVE  \E p \in DOMAIN new : b[p] = i /\ o[p] = j
      OBVIOUS
    <3>1. PICK p \in 1..(L + M) : b[p] = i /\ o[p] = j
      BY <1>8
    <3>q. QED
      BY <1>3, <3>1
  <2>q. QED
    BY <2>1, <2>2, <2>3, Zenon DEF MadeOf
<1>q. QED
  BY <1>3, <1>9 DEF new, t

\* FlattenSeq puts lists one behind the other.
LEMMA FlattenProperties ==
  ASSUME NEW T, NEW ss \in Seq(Seq(T)), ss # <<>>
  PROVE  /\ FlattenSeq(ss) \in Seq(T)
         /\ \E b, o : MadeOf(FlattenSeq(ss), ss, Len(ss), b, o)
<1> DEFINE N == Len(ss)
           g == CHOOSE f : f = [n \in 1..N |-> IF n = 1 THEN ss[n] ELSE f[n - 1] \o ss[n]]
           Good(m) == g[m] \in Seq(T) /\ \E b, o : MadeOf(g[m], ss, m, b, o)
           M == {m \in Nat : m + 1 <= N => Good(m + 1)}
<1>1. N \in Nat /\ 1 <= N /\ DOMAIN ss = 1..N /\ \A n \in 1..N : ss[n] \in Seq(T)
  OBVIOUS
<1>2. g = [n \in 1..N |-> IF n = 1 THEN ss[n] ELSE g[n - 1] \o ss[n]]
  <2>1. PICK f : f = [n \in 1..N |-> FlatStep(f, ss, n)]
    BY <1>1, FlatExists, Zenon
  <2>2. f = [n \in 1..N |-> IF n = 1 THEN ss[n] ELSE f[n - 1] \o ss[n]]
    BY <2>1, Zenon DEF FlatStep
  <2>q. QED
    BY <2>2, Zenon
<1>3. FlattenSeq(ss) = g[N]
  BY <1>1 DEF FlattenSeq
<1> HIDE DEF g, N
<1>4. g[1] = ss[1] /\ \A n \in 1..N : n # 1 => g[n] = g[n - 1] \o ss[n]
  <2>1. g = [n \in 1..N |-> FlatStep(g, ss, n)]
    BY <1>2, Zenon DEF FlatStep
  <2>2. \A n \in 1..N : g[n] = FlatStep(g, ss, n)
    BY <2>1
  <2>3. 1 \in 1..N
    BY <1>1
  <2>q. QED
    BY <2>2, <2>3 DEF FlatStep
<1>5. 0 \in M
  <2> DEFINE t == ss[1]
             b == [p \in DOMAIN t |-> 1]
             o == [p \in DOMAIN t |-> p]
  <2>a. t \in Seq(T) /\ DOMAIN t \subseteq Int /\ g[1] = t
    BY <1>1, <1>4
  <2>b. \A p \in DOMAIN t : b[p] = 1 /\ o[p] = p
    OBVIOUS
  <2> HIDE DEF b, o
  <2>c. \A i \in 1..1 : i = 1
    OBVIOUS
  <2>1. MadeOf(t, ss, 1, b, o)
    <3>1. ASSUME NEW p \in DOMAIN t
          PROVE  b[p] \in 1..1 /\ o[p] \in DOMAIN ss[b[p]] /\ t[p] = ss[b[p]][o[p]]
      BY <2>b
    <3>2. \A p, q \in DOMAIN t : p < q => b[p] < b[q] \/ (b[p] = b[q] /\ o[p] < o[q])
      BY <2>b
    <3>3. ASSUME NEW i \in 1..1, NEW j \in DOMAIN ss[i]
          PROVE  \E p \in DOMAIN t : b[p] = i /\ o[p] = j
      BY <2>b, <2>c
    <3>4. \A p \in DOMAIN t : b[p] \in 1..1 /\ o[p] \in DOMAIN ss[b[p]] /\ t[p] = ss[b[p]][o[p]]
      BY <3>1
    <3>5. \A i \in 1..1 : \A j \in DOMAIN ss[i] : \E p \in DOMAIN t : b[p] = i /\ o[p] = j
      BY <3>3
    <3> HIDE DEF t
    <3>q. QED
      BY <3>2, <3>4, <3>5, Zenon DEF MadeOf
  <2>2. Good(1)
    BY <1>1, <2>a, <2>1
  <2>q. QED
    BY <2>2
<1>6. ASSUME NEW m \in Nat, m \in M PROVE m + 1 \in M
  <2>1. SUFFICES ASSUME m + 1 + 1 <= N PROVE Good(m + 1 + 1)
    <3> HIDE DEF Good
    <3> QED OBVIOUS
  <2>2. Good(m + 1)
    <3> HIDE DEF Good
    <3> QED BY <1>1, <1>6, <2>1
  <2>3. m + 1 \in Nat /\ m + 1 + 1 \in DOMAIN ss /\ m + 1 + 1 # 1 /\ (m + 1 + 1) - 1 = m + 1
    BY <1>1, <2>1
  <2>4. g[m + 1 + 1] = g[m + 1] \o ss[m + 1 + 1]
    BY <1>1, <1>4, <2>3
  <2>5. PICK b, o : MadeOf(g[m + 1], ss, m + 1, b, o)
    BY <2>2
  <2>6. /\ g[m + 1] \o ss[m + 1 + 1] \in Seq(T)
        /\ \E c, d : MadeOf(g[m + 1] \o ss[m + 1 + 1], ss, m + 1 + 1, c, d)
    BY <2>2, <2>3, <2>5, MadeOfNext
  <2>q. QED
    BY <2>4, <2>6
<1>7. \A m \in Nat : m \in M
  <2> HIDE DEF M
  <2> QED BY <1>5, <1>6, NatSetInduction
<1>8. Good(N)
  <2>1. N - 1 \in Nat /\ (N - 1) + 1 = N
    BY <1>1
  <2>2. N - 1 \in M
    BY <1>7, <2>1
  <2> HIDE DEF Good
  <2>q. QED
    BY <2>1, <2>2
<1>q. QED
  BY <1>3, <1>8 DEF N

-----------------------------------------------------------------------------
(* Numbers *)

\* What can be told of quotients and remainders.
LEMMA DivFacts ==
  ASSUME NEW a \in Int, NEW b \in Nat \ {0}
  PROVE  /\ a \div b \in Int /\ a % b \in 0..(b - 1)
         /\ a = b * (a \div b) + (a % b)
OBVIOUS

\* A quotient is the last number of divisors that fit.
LEMMA DivBounds ==
  ASSUME NEW a \in Int, NEW b \in Nat \ {0}
  PROVE  /\ a \div b \in Int
         /\ (a \div b) * b <= a
         /\ a < (a \div b) * b + b
BY DivFacts

\* Products with the same factor are in the order of the others.
LEMMA MulLe ==
  ASSUME NEW a \in Int, NEW b \in Int, NEW c \in Nat, a <= b
  PROVE  a * c <= b * c
OBVIOUS

\* A positive factor can be taken away,
LEMMA MulCancel ==
  ASSUME NEW a \in Int, NEW b \in Int, NEW c \in Nat \ {0}, a * c <= b * c
  PROVE  a <= b
OBVIOUS

\* and put in.
LEMMA MulLt ==
  ASSUME NEW a \in Int, NEW b \in Int, NEW c \in Nat \ {0}, a < b
  PROVE  a * c < b * c
OBVIOUS

\* Products of integers are integers,
LEMMA MulType ==
  ASSUME NEW a \in Int, NEW b \in Int
  PROVE a * b \in Int
OBVIOUS

\* and those of positive numbers positive.
LEMMA MulPositive ==
  ASSUME NEW a \in Nat \ {0}, NEW b \in Nat \ {0}
  PROVE  a * b \in Nat \ {0}
OBVIOUS

\* A set is finite if it is reached from a finite one.
LEMMA Reached ==
  ASSUME NEW S, IsFiniteSet(S), NEW T, NEW f, \A t \in T : \E x \in S : t = f[x]
  PROVE  IsFiniteSet(T)
<1> DEFINE g == [x \in S |-> f[x]]
           R == {g[x] : x \in S}
<1>1. g \in Surjection(S, R)
  <2>1. g \in [S -> R]
    OBVIOUS
  <2>2. \A t \in R : \E x \in S : g[x] = t
    OBVIOUS
  <2> HIDE DEF g, R
  <2>q. QED
    BY <2>1, <2>2, Fun_IsSurj
<1>2. IsFiniteSet(R)
  <2> HIDE DEF g, R
  <2> QED BY <1>1, FS_Surjection
<1>3. T \in SUBSET R
  OBVIOUS
<1> HIDE DEF R
<1>q. QED
  BY <1>2, <1>3, FS_Subset

\* A finite set of integers has a highest one.
LEMMA HighestProperties ==
  ASSUME NEW S, S \subseteq Int, IsFiniteSet(S), S # {}
  PROVE  Highest(S) \in S /\ \A m \in S : m <= Highest(S)
<1> DEFINE N == Cardinality(S)
           f == Ascending(S)
<1>1. /\ N \in Nat /\ f \in [1..N -> S]
      /\ \A i, j \in 1..N : i < j => f[i] < f[j]
      /\ \A x \in S : \E n \in 1..N : f[n] = x
  BY AscendingProperties
<1>2. N \in 1..N
  <2>1. N # 0
    BY FS_EmptySet
  <2>q. QED
    BY <1>1, <2>1
<1> HIDE DEF N, f
<1>3. \A m \in S : m <= f[N]
  <2> SUFFICES ASSUME NEW m \in S PROVE m <= f[N]
    OBVIOUS
  <2>1. PICK n \in 1..N : f[n] = m
    BY <1>1
  <2>2. f[N] \in Int /\ f[n] \in Int
    BY <1>1, <1>2
  <2>3. CASE n = N
    BY <2>1, <2>2, <2>3
  <2>4. CASE n < N
    BY <1>1, <1>2, <2>1, <2>2, <2>4
  <2>q. QED
    BY <1>1, <2>3, <2>4
<1>4. \E h \in S : \A m \in S : m <= h
  BY <1>1, <1>2, <1>3
<1>q. QED
  BY <1>4, Zenon DEF Highest

\* Fractions have a positive denominator.
Fractions == Int \X (Nat \ {0})

\* Neither a fraction nor what does not exceed it exceeds a greater one.
LEMMA ExceedsOrder ==
  ASSUME NEW a \in Fractions, NEW b \in Fractions, NEW c \in Fractions
  PROVE  /\ ~Exceeds(a, a)
         /\ (~Exceeds(a, b) /\ Exceeds(c, b)) => ~Exceeds(a, c)
<1> DEFINE a1 == a[1]
           a2 == a[2]
           b1 == b[1]
           b2 == b[2]
           c1 == c[1]
           c2 == c[2]
<1>1. a1 \in Int /\ a2 \in Nat \ {0} /\ b1 \in Int /\ b2 \in Nat \ {0} /\ c1 \in Int /\ c2 \in Nat \ {0}
  BY DEF Fractions
<1> HIDE DEF a1, a2, b1, b2, c1, c2
<1>2. a1 * a2 \in Int
  BY <1>1
<1>3. ASSUME a1 * b2 <= b1 * a2, c1 * b2 > b1 * c2
      PROVE  a1 * c2 <= c1 * a2
  <2>1. /\ a1 * b2 \in Int /\ b1 * a2 \in Int /\ c1 * b2 \in Int /\ b1 * c2 \in Int
        /\ a1 * c2 \in Int /\ c1 * a2 \in Int
    BY <1>1
  <2>2. (a1 * b2) * c2 <= (b1 * a2) * c2
    BY <1>1, <1>3, <2>1, MulLe
  <2>3. (b1 * c2) * a2 <= (c1 * b2) * a2
    BY <1>1, <1>3, <2>1, MulLe
  <2>4. /\ (a1 * b2) * c2 = (a1 * c2) * b2
        /\ (b1 * a2) * c2 = (b1 * c2) * a2
        /\ (c1 * b2) * a2 = (c1 * a2) * b2
    BY <1>1
  <2>5. (a1 * c2) * b2 \in Int /\ (c1 * a2) * b2 \in Int /\ (b1 * c2) * a2 \in Int
    BY <1>1, <2>1
  <2>6. (a1 * c2) * b2 <= (c1 * a2) * b2
    BY <2>2, <2>3, <2>4, <2>5
  <2>q. QED
    BY <1>1, <2>1, <2>6, MulCancel
<1>4. Exceeds(a, a) <=> a1 * a2 > a1 * a2
  BY DEF Exceeds, a1, a2
<1>5. /\ Exceeds(a, b) <=> a1 * b2 > b1 * a2
      /\ Exceeds(c, b) <=> c1 * b2 > b1 * c2
      /\ Exceeds(a, c) <=> a1 * c2 > c1 * a2
  BY DEF Exceeds, a1, a2, b1, b2, c1, c2
<1>6. /\ a1 * b2 \in Int /\ b1 * a2 \in Int /\ a1 * c2 \in Int /\ c1 * a2 \in Int
  BY <1>1
<1>q. QED
  BY <1>2, <1>3, <1>4, <1>5, <1>6

\* A finite set of fractions has a largest one.
LEMMA LargestProperties ==
  ASSUME NEW S, S \subseteq Fractions, IsFiniteSet(S), S # {}
  PROVE  Largest(S) \in S /\ \A b \in S : ~Exceeds(b, Largest(S))
<1> DEFINE Tops(s) == {a \in s : \A b \in s : ~Exceeds(b, a)}
           C == {s \in SUBSET S : s # {} => Tops(s) # {}}
<1>1. {} \in C
  OBVIOUS
<1>2. ASSUME NEW s \in SUBSET S, s # {}, \A x \in s : s \ {x} \in C PROVE s \in C
  <2>1. PICK x \in s : TRUE
    BY <1>2
  <2>2. x \in Fractions /\ ~Exceeds(x, x)
    BY <2>1, ExceedsOrder
  <2>3. CASE s \ {x} = {}
    <3>1. x \in Tops(s)
      BY <2>1, <2>2, <2>3
    <3>q. QED
      BY <3>1
  <2>4. CASE s \ {x} # {}
    <3>1. PICK a \in s \ {x} : \A b \in s \ {x} : ~Exceeds(b, a)
      BY <1>2, <2>4
    <3>2. a \in Fractions
      OBVIOUS
    <3>3. CASE Exceeds(x, a)
      <4>1. \A b \in s : ~Exceeds(b, x)
        BY <2>2, <3>1, <3>2, <3>3, ExceedsOrder
      <4>2. x \in Tops(s)
        BY <4>1
      <4>q. QED
        BY <4>2
    <3>4. CASE ~Exceeds(x, a)
      <4>1. a \in Tops(s)
        BY <3>1, <3>4
      <4>q. QED
        BY <4>1
    <3>q. QED
      BY <3>3, <3>4
  <2>q. QED
    BY <2>3, <2>4
<1>3. S \in C
  <2> HIDE DEF C
  <2> QED BY <1>1, <1>2, FiniteSetInduction
<1>4. \E a \in S : \A b \in S : ~Exceeds(b, a)
  BY <1>3
<1>q. QED
  BY <1>4, Zenon DEF Largest
-----------------------------------------------------------------------------
(* Graphs *)

\* A graph of an application: utilities at ascending latencies.
Rising(g) == \A i, j \in DOMAIN g : i < j => g[i].x < g[j].x
QosGraph(g) == g \in Seq(QosPoints) /\ Rising(g)

\* Fractions remain fractions.
LEMMA FractionTypes ==
  ASSUME NEW a \in Fractions
  PROVE  /\ \A b \in Fractions : Plus(a, b) \in Fractions
         /\ \A n \in Nat \ {0} : Over(a, n) \in Fractions
         /\ Positive(a) \in Fractions
<1>1. a[1] \in Int /\ a[2] \in Nat \ {0}
  BY DEF Fractions
<1>2. ASSUME NEW b \in Fractions PROVE Plus(a, b) \in Fractions
  <2>1. b[1] \in Int /\ b[2] \in Nat \ {0}
    BY DEF Fractions
  <2>2. /\ a[1] * b[2] + b[1] * a[2] \in Int
        /\ a[2] * b[2] \in Nat \ {0}
    BY <1>1, <2>1
  <2>q. QED
    BY <2>2 DEF Plus, Fractions
<1>3. ASSUME NEW n \in Nat \ {0} PROVE Over(a, n) \in Fractions
  <2>1. a[2] * n \in Nat \ {0}
    BY <1>1
  <2>q. QED
    BY <1>1, <2>1 DEF Over, Fractions
<1>4. Positive(a) \in Fractions
  BY <1>1 DEF Positive, Fractions
<1>q. QED
  BY <1>2, <1>3, <1>4

\* The utility of an application at a latency is a fraction.
LEMMA FindYType ==
  ASSUME NEW g, QosGraph(g), NEW x \in Nat
  PROVE  FindYGivenXAndQos(x, g) \in Fractions
<1> DEFINE under == {i \in 1..(Len(g) - 1) : g[i].x <= x /\ x < g[i + 1].x}
           i == CHOOSE j \in under : TRUE
<1>1. /\ g \in Seq(QosPoints) /\ Len(g) \in Nat /\ DOMAIN g = 1..Len(g)
      /\ \A j \in 1..Len(g) : g[j] \in QosPoints
  BY DEF QosGraph
<1>2. <<0, 1>> \in Fractions
  BY DEF Fractions
<1>3. ASSUME under # {}
      PROVE  <<g[i].y * (g[i + 1].x - g[i].x) + (g[i + 1].y - g[i].y) * (x - g[i].x),
               g[i + 1].x - g[i].x>> \in Fractions
  <2>0. i \in under
    BY <1>3
  <2>1. i \in 1..(Len(g) - 1)
    BY <2>0
  <2> HIDE DEF i, under
  <2>2. i \in DOMAIN g /\ i + 1 \in DOMAIN g /\ i < i + 1
    BY <1>1, <2>1
  <2>3. /\ g[i].x \in Nat /\ g[i].y \in Int /\ g[i + 1].x \in Nat /\ g[i + 1].y \in Int
    <3>1. g[i] \in QosPoints /\ g[i + 1] \in QosPoints
      BY <1>1, <2>2
    <3>q. QED
      BY <3>1 DEF QosPoints
  <2>4. g[i].x < g[i + 1].x
    BY <2>2 DEF QosGraph, Rising
  <2>5. g[i + 1].x - g[i].x \in Nat \ {0}
    BY <2>3, <2>4
  <2>6. g[i].y * (g[i + 1].x - g[i].x) + (g[i + 1].y - g[i].y) * (x - g[i].x) \in Int
    BY <2>3
  <2>q. QED
    BY <2>5, <2>6 DEF Fractions
<1>q. QED
  BY <1>2, <1>3 DEF FindYGivenXAndQos

\* What TotalY recurses with.
TotalStep(t, c, apps, x, n) ==
  IF n = 0 THEN <<0, 1>> ELSE Plus(FindYGivenXAndQos(x, c.qos[apps[n]]), t[n - 1])

Totals(t, c, apps, x, N) == t = [n \in 0..N |-> TotalStep(t, c, apps, x, n)]

\* There is such a function: each of its values is a fraction.
LEMMA TotalExists ==
  ASSUME NEW c, NEW apps, NEW x, NEW N \in Nat
  PROVE  \E t : Totals(t, c, apps, x, N)
<1> DEFINE Upto(t, m) == t = [n \in 0..m |-> TotalStep(t, c, apps, x, n)]
           T == {m \in Nat : \E t : Upto(t, m)}
<1>0. ASSUME NEW g, NEW h, NEW n \in Nat, n # 0 => g[n - 1] = h[n - 1]
      PROVE  TotalStep(g, c, apps, x, n) = TotalStep(h, c, apps, x, n)
  BY <1>0 DEF TotalStep
<1>1. 0 \in T
  <2> DEFINE h == [n \in 0..0 |-> <<0, 1>>]
  <2>1. \A n \in 0..0 : TotalStep(h, c, apps, x, n) = <<0, 1>>
    BY DEF TotalStep
  <2>2. h = [n \in 0..0 |-> TotalStep(h, c, apps, x, n)]
    <3>1. h = [n \in 0..0 |-> <<0, 1>>]
      OBVIOUS
    <3> HIDE DEF h
    <3>q. QED
      BY <2>1, <3>1, Zenon
  <2>q. QED
    BY <2>2
<1>2. ASSUME NEW m \in Nat, m \in T PROVE m + 1 \in T
  <2> PICK g : Upto(g, m)
    BY <1>2
  <2> DEFINE h == [n \in 0..(m + 1) |-> TotalStep(g, c, apps, x, n)]
  <2>1. \A n \in 0..m : h[n] = g[n]
    OBVIOUS
  <2> HIDE DEF h
  <2>2. ASSUME NEW n \in 0..(m + 1)
        PROVE  TotalStep(g, c, apps, x, n) = TotalStep(h, c, apps, x, n)
    <3>1. n # 0 => n - 1 \in 0..m
      OBVIOUS
    <3>2. n # 0 => g[n - 1] = h[n - 1]
      BY <3>1, <2>1
    <3>q. QED
      BY <3>2, <1>0
  <2>3. Upto(h, m + 1)
    <3>1. h = [n \in 0..(m + 1) |-> TotalStep(g, c, apps, x, n)]
      BY DEF h
    <3>q. QED
      BY <3>1, <2>2, Zenon
  <2>q. QED
    BY <2>3
<1>3. \A m \in Nat : m \in T
  <2> HIDE DEF T
  <2> QED BY <1>1, <1>2, NatSetInduction
<1>q. QED
  BY <1>3 DEF Totals

\* So is the sum over the applications of a box.
LEMMA TotalType ==
  ASSUME NEW c, NEW b, NEW x \in Nat, c.apps[b] \subseteq Int, IsFiniteSet(c.apps[b]),
         \A a \in c.apps[b] : QosGraph(c.qos[a])
  PROVE  TotalY(c, b, x) \in Fractions
<1> DEFINE apps == Ascending(c.apps[b])
           N == Len(apps)
           t == CHOOSE f : f = [n \in 0..N |->
                  IF n = 0 THEN <<0, 1>> ELSE Plus(FindYGivenXAndQos(x, c.qos[apps[n]]), f[n - 1])]
           M == {m \in Nat : m <= N => t[m] \in Fractions}
<1>1. N \in Nat /\ \A n \in 1..N : apps[n] \in c.apps[b]
  BY AscendingProperties
<1>2. \A n \in 0..N : t[n] = TotalStep(t, c, apps, x, n)
  <2>1. PICK f : f = [n \in 0..N |-> TotalStep(f, c, apps, x, n)]
    <3>1. N \in Nat
      BY <1>1
    <3> HIDE DEF apps, N
    <3>2. \E f : Totals(f, c, apps, x, N)
      BY <3>1, TotalExists, Zenon
    <3>q. QED
      BY <3>2, Zenon DEF Totals
  <2>2. f = [n \in 0..N |->
               IF n = 0 THEN <<0, 1>> ELSE Plus(FindYGivenXAndQos(x, c.qos[apps[n]]), f[n - 1])]
    BY <2>1, Zenon DEF TotalStep
  <2>3. t = [n \in 0..N |->
               IF n = 0 THEN <<0, 1>> ELSE Plus(FindYGivenXAndQos(x, c.qos[apps[n]]), t[n - 1])]
    BY <2>2, Zenon
  <2> HIDE DEF t
  <2>4. t = [n \in 0..N |-> TotalStep(t, c, apps, x, n)]
    BY <2>3, Zenon DEF TotalStep
  <2>q. QED
    BY <2>4
<1>3. TotalY(c, b, x) = t[N]
  BY DEF TotalY
<1> HIDE DEF t, apps
<1>4. 0 \in M
  BY <1>1, <1>2 DEF TotalStep, Fractions
<1>5. ASSUME NEW m \in Nat, m \in M PROVE m + 1 \in M
  <2> SUFFICES ASSUME m + 1 <= N PROVE t[m + 1] \in Fractions
    OBVIOUS
  <2>1. m + 1 \in 1..N /\ m + 1 # 0 /\ (m + 1) - 1 = m /\ m <= N /\ m + 1 \in 0..N
    BY <1>1
  <2>2. t[m + 1] = Plus(FindYGivenXAndQos(x, c.qos[apps[m + 1]]), t[m])
    BY <1>2, <2>1 DEF TotalStep
  <2>3. FindYGivenXAndQos(x, c.qos[apps[m + 1]]) \in Fractions
    BY <1>1, <2>1, FindYType
  <2>q. QED
    BY <1>5, <2>1, <2>2, <2>3, FractionTypes
<1>6. \A m \in Nat : m \in M
  <2> HIDE DEF M
  <2> QED BY <1>4, <1>5, NatSetInduction
<1>q. QED
  BY <1>1, <1>3, <1>6

\* The graph of a box: utilities that are fractions, at ascending latencies.
GraphPoints == [x : Nat, y : Fractions]
BoxGraph(g) == g \in Seq(GraphPoints) /\ g # <<>> /\ Rising(g)

\* The higher of 0 and a number.
LEMMA HigherThanZero ==
  ASSUME NEW v \in Int
  PROVE  Highest({0, v}) \in Nat /\ v <= Highest({0, v}) /\ (v <= 0 => Highest({0, v}) = 0)
         /\ (v >= 0 => Highest({0, v}) = v)
<1>1. IsFiniteSet({0, v}) /\ {0, v} \subseteq Int /\ {0, v} # {}
  <2>1. IsFiniteSet({0}) /\ IsFiniteSet({v})
    BY FS_Singleton
  <2>2. IsFiniteSet({0} \cup {v})
    BY <2>1, FS_Union
  <2>3. {0, v} = {0} \cup {v}
    OBVIOUS
  <2>q. QED
    BY <2>2, <2>3
<1>2. Highest({0, v}) \in {0, v} /\ \A m \in {0, v} : m <= Highest({0, v})
  BY <1>1, HighestProperties
<1>q. QED
  BY <1>2

\* The latencies of the points of the graphs of the applications of a box.
Xs(c, b) == UNION {{c.qos[a][i].x : i \in DOMAIN c.qos[a]} : a \in c.apps[b]}

\* They are finitely many, at least one, and the last one of each graph is one.
LEMMA XsProperties ==
  ASSUME NEW c \in GridCases, NEW b \in DOMAIN c.apps
  PROVE  /\ Xs(c, b) \subseteq Nat /\ IsFiniteSet(Xs(c, b)) /\ Xs(c, b) # {}
         /\ \A a \in c.apps[b] : LastX(c.qos[a]) \in Xs(c, b)
<1> DEFINE X(a) == {c.qos[a][i].x : i \in DOMAIN c.qos[a]}
           XX == {X(a) : a \in c.apps[b]}
<1>1. /\ c.apps[b] # {} /\ c.apps[b] \subseteq DOMAIN c.qos
      /\ IsFiniteSet(DOMAIN c.qos)
      /\ \A a \in DOMAIN c.qos : c.qos[a] \in Seq(QosPoints) /\ c.qos[a] # <<>>
  BY GridAssumption
<1>2. ASSUME NEW a \in c.apps[b]
      PROVE  /\ X(a) \subseteq Nat /\ IsFiniteSet(X(a)) /\ LastX(c.qos[a]) \in X(a)
  <2> DEFINE g == c.qos[a]
             f == [i \in DOMAIN g |-> g[i].x]
  <2>1. g \in Seq(QosPoints) /\ g # <<>>
    BY <1>1
  <2> HIDE DEF g
  <2>2. /\ Len(g) \in Nat /\ DOMAIN g = 1..Len(g) /\ Len(g) \in DOMAIN g
        /\ \A i \in 1..Len(g) : g[i] \in QosPoints
    BY <2>1
  <2>3. \A i \in DOMAIN g : g[i].x \in Nat
    BY <2>2 DEF QosPoints
  <2>4. X(a) = {g[i].x : i \in DOMAIN g}
    BY DEF g
  <2>5. IsFiniteSet(DOMAIN g)
    BY <2>2, FS_Interval
  <2>6. \A t \in X(a) : \E i \in DOMAIN g : t = f[i]
    BY <2>4
  <2>7. IsFiniteSet(X(a))
    <3> HIDE DEF X, f
    <3> QED BY <2>5, <2>6, Reached
  <2>q. QED
    BY <2>2, <2>3, <2>4, <2>7 DEF LastX, g
<1>3. IsFiniteSet(c.apps[b])
  BY <1>1, FS_Subset
<1>4. IsFiniteSet(XX)
  <2> DEFINE f == [a \in c.apps[b] |-> X(a)]
  <2>1. \A t \in XX : \E a \in c.apps[b] : t = f[a]
    OBVIOUS
  <2> HIDE DEF XX, f
  <2>q. QED
    BY <1>3, <2>1, Reached
<1>5. \A t \in XX : IsFiniteSet(t) /\ t \subseteq Nat
  BY <1>2
<1>6. Xs(c, b) = UNION XX
  BY DEF Xs
<1>7. \A a \in c.apps[b] : X(a) \in XX /\ LastX(c.qos[a]) \in X(a)
  BY <1>2
<1> HIDE DEF XX, X
<1>8. IsFiniteSet(UNION XX)
  BY <1>4, <1>5, FS_UNION
<1>q. QED
  BY <1>1, <1>5, <1>6, <1>7, <1>8

\* The graph of a box rises from point to point, and it lasts for longer than
\* nothing if that of one of its applications lasts for longer than the cost.
LEMMA LoadedGraph ==
  ASSUME NEW c \in GridCases, NEW b \in DOMAIN c.apps
  PROVE  /\ BoxGraph(LoadBoxQosGraph(c, b))
         /\ \A a \in c.apps[b] :
              LastX(c.qos[a]) > c.cost[b] => LastX(LoadBoxQosGraph(c, b)) > 0
<1> DEFINE xs == Xs(c, b)
           first == Ascending(xs)[1]
           cost == c.cost[b]
           K == {first} \cup {x \in xs : x > cost}
           N == Cardinality(K)
           kept == Ascending(K)
           X(i) == Highest({0, kept[i] - cost})
           Y(i) == Over(TotalY(c, b, kept[i]), Cardinality(c.apps[b]))
           g == LoadBoxQosGraph(c, b)
<1>1. /\ c.apps[b] # {} /\ c.apps[b] \subseteq DOMAIN c.qos
      /\ IsFiniteSet(DOMAIN c.qos) /\ DOMAIN c.qos \subseteq Nat
      /\ \A a \in DOMAIN c.qos : QosGraph(c.qos[a])
      /\ cost \in Nat
  BY GridAssumption DEF QosGraph, Rising
<1>2. xs \subseteq Nat /\ IsFiniteSet(xs) /\ xs # {} /\ \A a \in c.apps[b] : LastX(c.qos[a]) \in xs
  BY XsProperties
<1>g. g = [i \in DOMAIN kept |-> [x |-> X(i), y |-> Y(i)]]
  BY DEF LoadBoxQosGraph, Xs
<1> HIDE DEF xs, cost, g
<1>3. first \in xs /\ \A x \in xs : first <= x
  <2> DEFINE M == Cardinality(xs)
             asc == Ascending(xs)
  <2>1. /\ M \in Nat /\ asc \in [1..M -> xs]
        /\ \A i, j \in 1..M : i < j => asc[i] < asc[j]
        /\ \A x \in xs : \E n \in 1..M : asc[n] = x
    <3>1. xs \subseteq Int
      BY <1>2
    <3>q. QED
      BY <1>2, <3>1, AscendingProperties
  <2> HIDE DEF M, asc
  <2>2. 1 \in 1..M
    <3>1. PICK x \in xs : TRUE
      BY <1>2
    <3>2. PICK n \in 1..M : asc[n] = x
      BY <2>1, <3>1
    <3>q. QED
      BY <2>1, <3>2
  <2>3. \A x \in xs : asc[1] <= x
    <3> SUFFICES ASSUME NEW x \in xs PROVE asc[1] <= x
      OBVIOUS
    <3>1. PICK n \in 1..M : asc[n] = x
      BY <2>1
    <3>2. asc[1] \in Nat /\ x \in Nat
      BY <1>2, <2>1, <2>2
    <3>q. QED
      BY <2>1, <2>2, <3>1, <3>2
  <2>q. QED
    BY <2>1, <2>2, <2>3 DEF asc
<1> HIDE DEF first
<1>4. K \in SUBSET xs /\ first \in K /\ \A x \in xs : x > cost => x \in K
  BY <1>3
<1>5. \A x \in K : x \in Nat /\ x \in xs /\ (x = first \/ x > cost)
  BY <1>2, <1>3
<1> HIDE DEF K
<1>6. /\ N \in Nat /\ kept \in [1..N -> K] /\ DOMAIN kept = 1..N
      /\ \A i, j \in 1..N : i < j => kept[i] < kept[j]
      /\ \A x \in K : \E n \in 1..N : kept[n] = x
  <2>1. IsFiniteSet(K)
    BY <1>2, <1>4, FS_Subset, Zenon
  <2>2. K \subseteq Int
    BY <1>5
  <2>q. QED
    BY <2>1, <2>2, AscendingProperties
<1> HIDE DEF N, kept
<1>7. N \in 1..N
  BY <1>4, <1>6
<1>8. \A i \in 1..N : kept[i] \in Nat /\ kept[i] \in K /\ kept[i] - cost \in Int
  BY <1>1, <1>5, <1>6
<1>9. \A i \in 1..N : /\ X(i) \in Nat
                      /\ kept[i] - cost <= X(i)
                      /\ kept[i] - cost >= 0 => X(i) = kept[i] - cost
                      /\ kept[i] - cost <= 0 => X(i) = 0
  BY <1>8, HigherThanZero
<1>10. \A i \in 1..N : Y(i) \in Fractions
  <2> SUFFICES ASSUME NEW i \in 1..N PROVE Y(i) \in Fractions
    OBVIOUS
  <2>1. IsFiniteSet(c.apps[b])
    BY <1>1, FS_Subset
  <2>2. Cardinality(c.apps[b]) \in Nat \ {0}
    BY <1>1, <2>1, FS_CardinalityType, FS_EmptySet
  <2>3. TotalY(c, b, kept[i]) \in Fractions
    <3>1. c.apps[b] \subseteq Int /\ \A a \in c.apps[b] : QosGraph(c.qos[a])
      BY <1>1
    <3>2. kept[i] \in Nat
      BY <1>8
    <3>q. QED
      BY <2>1, <3>1, <3>2, TotalType
  <2>q. QED
    BY <2>2, <2>3, FractionTypes
<1> HIDE DEF X, Y
<1>11. /\ g \in Seq(GraphPoints) /\ g # <<>> /\ Len(g) = N /\ DOMAIN g = 1..N
       /\ \A i \in 1..N : g[i].x = X(i)
  <2>1. \A i \in 1..N : [x |-> X(i), y |-> Y(i)] \in GraphPoints
    BY <1>9, <1>10 DEF GraphPoints
  <2>2. g = [i \in 1..N |-> [x |-> X(i), y |-> Y(i)]]
    BY <1>6, <1>g
  <2>3. g \in [1..N -> GraphPoints]
    BY <2>1, <2>2
  <2>4. g \in Seq(GraphPoints) /\ Len(g) = N /\ DOMAIN g = 1..N
    BY <1>6, <2>3
  <2>5. g # <<>>
    BY <1>6, <1>7, <2>4
  <2>6. \A i \in 1..N : g[i].x = X(i)
    BY <2>2
  <2>q. QED
    BY <2>4, <2>5, <2>6
<1>12. Rising(g)
  <2> SUFFICES ASSUME NEW i \in 1..N, NEW j \in 1..N, i < j PROVE g[i].x < g[j].x
    BY <1>11 DEF Rising
  <2>1. kept[i] < kept[j]
    BY <1>6
  <2>2. first <= kept[i] /\ first \in Nat
    BY <1>2, <1>3, <1>5, <1>8
  <2>3. kept[j] > cost
    BY <1>5, <1>8, <2>1, <2>2
  <2>4. X(j) = kept[j] - cost
    BY <1>1, <1>8, <1>9, <2>3
  <2>5. X(i) = kept[i] - cost \/ X(i) = 0
    BY <1>8, <1>9
  <2>6. X(i) < X(j)
    BY <1>1, <1>8, <2>1, <2>3, <2>4, <2>5
  <2>q. QED
    BY <1>11, <2>6
<1>13. ASSUME NEW a \in c.apps[b], LastX(c.qos[a]) > cost PROVE LastX(g) > 0
  <2>1. LastX(c.qos[a]) \in K
    BY <1>2, <1>4, <1>13
  <2>2. PICK n \in 1..N : kept[n] = LastX(c.qos[a])
    BY <1>6, <2>1
  <2>3. kept[n] <= kept[N]
    <3>1. kept[n] \in Nat /\ kept[N] \in Nat /\ (n = N \/ n < N)
      BY <1>6, <1>7, <1>8
    <3>2. n < N => kept[n] < kept[N]
      BY <1>6, <1>7
    <3>q. QED
      BY <3>1, <3>2
  <2>4. X(N) > 0
    BY <1>1, <1>7, <1>8, <1>9, <1>13, <2>2, <2>3
  <2>q. QED
    BY <1>7, <1>11, <2>4 DEF LastX
<1>q. QED
  BY <1>11, <1>12, <1>13 DEF BoxGraph, g, cost
-----------------------------------------------------------------------------
(* Cells *)

\* The higher of two numbers.
LEMMA HigherOfTwo ==
  ASSUME NEW u \in Int, NEW v \in Int
  PROVE  /\ Highest({u, v}) \in {u, v} /\ Highest({u, v}) \in Int
         /\ u <= Highest({u, v}) /\ v <= Highest({u, v})
<1>1. IsFiniteSet({u, v}) /\ {u, v} \subseteq Int /\ {u, v} # {}
  <2>1. IsFiniteSet({u}) /\ IsFiniteSet({v})
    BY FS_Singleton
  <2>2. IsFiniteSet({u} \cup {v})
    BY <2>1, FS_Union
  <2>3. {u, v} = {u} \cup {v}
    OBVIOUS
  <2>q. QED
    BY <2>2, <2>3
<1>2. Highest({u, v}) \in {u, v} /\ \A m \in {u, v} : m <= Highest({u, v})
  BY <1>1, HighestProperties
<1>q. QED
  BY <1>2

\* Quotients are in the order of what is divided.
LEMMA DivMonotone ==
  ASSUME NEW a \in Int, NEW b \in Int, NEW c \in Nat \ {0}, a <= b
  PROVE  a \div c <= b \div c
<1> DEFINE p == a \div c
           q == b \div c
<1>1. /\ p \in Int /\ q \in Int /\ p * c \in Int /\ q * c \in Int
      /\ p * c <= a /\ b < q * c + c
  BY DivBounds
<1> HIDE DEF p, q
<1>2. SUFFICES ASSUME ~(p <= q) PROVE FALSE
  BY DEF p, q
<1>3. q + 1 <= p
  BY <1>1, <1>2
<1>4. (q + 1) * c <= p * c
  BY <1>1, <1>3, MulLe
<1>5. (q + 1) * c = q * c + c
  BY <1>1
<1>q. QED
  BY <1>1, <1>4, <1>5

\* The slope of a step of a graph is a fraction.
LEMMA SlopeType ==
  ASSUME NEW g, BoxGraph(g), NEW i \in 2..Len(g)
  PROVE  /\ Slope(g, i) \in Fractions
         /\ g[i].x \in Nat /\ g[i - 1].x \in Nat /\ g[i - 1].x < g[i].x
         /\ i \in DOMAIN g /\ i - 1 \in DOMAIN g
<1>1. /\ g \in Seq(GraphPoints) /\ Len(g) \in Nat /\ DOMAIN g = 1..Len(g)
      /\ \A j \in 1..Len(g) : g[j] \in GraphPoints
  BY DEF BoxGraph
<1>2. i \in DOMAIN g /\ i - 1 \in DOMAIN g /\ i - 1 < i
  BY <1>1
<1>3. g[i] \in GraphPoints /\ g[i - 1] \in GraphPoints /\ g[i - 1].x < g[i].x
  BY <1>1, <1>2 DEF BoxGraph, Rising
<1> DEFINE u == g[i - 1].y
           v == g[i].y
           w == g[i].x - g[i - 1].x
<1>4. /\ g[i].x \in Nat /\ g[i - 1].x \in Nat /\ u \in Fractions /\ v \in Fractions
      /\ w \in Nat \ {0}
  BY <1>3 DEF GraphPoints
<1>5. Slope(g, i) = Over(<<u[1] * v[2] - v[1] * u[2], v[2] * u[2]>>, w)
  BY DEF Slope
<1> HIDE DEF u, v, w
<1>6. u[1] \in Int /\ u[2] \in Nat \ {0} /\ v[1] \in Int /\ v[2] \in Nat \ {0}
  BY <1>4 DEF Fractions
<1>7. u[1] * v[2] - v[1] * u[2] \in Int /\ v[2] * u[2] \in Nat \ {0}
  <2>1. u[1] * v[2] \in Int /\ v[1] * u[2] \in Int
    BY <1>6, MulType
  <2>2. v[2] * u[2] \in Nat \ {0}
    BY <1>6, MulPositive
  <2>q. QED
    BY <2>1, <2>2
<1>8. <<u[1] * v[2] - v[1] * u[2], v[2] * u[2]>> \in Fractions
  BY <1>7 DEF Fractions
<1>q. QED
  BY <1>2, <1>3, <1>4, <1>5, <1>8, FractionTypes

\* What the largest slack, slope and latency are to a graph.
Covered(g, max) ==
  /\ max.latency \in Nat \ {0} /\ LastX(g) <= max.latency
  /\ max.slack \in Nat \ {0}
  /\ max.slope \in Fractions /\ max.slope[1] >= 0
  /\ \A i \in 2..Len(g) :
       /\ g[i].x - g[i - 1].x <= max.slack
       /\ ~Exceeds(Slope(g, i), max.slope)

\* A graph that does not begin after the latency 0.
RootedGraph(g) == BoxGraph(g) /\ g[1].x = 0

\* The points of a bucket all have a point before them.
LEMMA InBucketProperties ==
  ASSUME NEW g, RootedGraph(g), NEW max, Covered(g, max), NEW i \in 0..(NumBuckets - 1)
  PROVE  /\ InBucket(g, i, max) \subseteq 2..Len(g)
         /\ IsFiniteSet(InBucket(g, i, max))
         /\ i * max.latency \in Nat
<1>1. /\ Len(g) \in Nat /\ DOMAIN g = 1..Len(g) /\ g[1].x = 0
      /\ max.latency \in Nat /\ NumBuckets \in Nat \ {0}
  BY GridAssumption DEF RootedGraph, BoxGraph, Covered
<1>2. i * max.latency \in Nat
  BY <1>1
<1>3. InBucket(g, i, max) \subseteq 2..Len(g)
  <2> SUFFICES ASSUME NEW j \in InBucket(g, i, max) PROVE j \in 2..Len(g)
    OBVIOUS
  <2>1. j \in 1..Len(g) /\ g[j].x * NumBuckets > i * max.latency
    BY <1>1 DEF InBucket
  <2>2. j # 1
    <3> SUFFICES ASSUME j = 1 PROVE FALSE
      OBVIOUS
    <3>1. g[j].x * NumBuckets = 0
      BY <1>1
    <3>q. QED
      BY <1>2, <2>1, <3>1
  <2>q. QED
    BY <1>1, <2>1, <2>2
<1>4. IsFiniteSet(2..Len(g))
  BY <1>1, FS_Interval
<1>q. QED
  BY <1>2, <1>3, <1>4, FS_Subset

\* What is left of a step of the graph in bucket i.
SlackIn(g, i, max, j) == g[j].x * NumBuckets - Highest({g[j - 1].x * NumBuckets, i * max.latency})

\* A bucket that is not beyond the graph has a slack of the grid, which is no less
\* than any that is left in it.
LEMMA SlackBucket ==
  ASSUME NEW g, RootedGraph(g), NEW max, Covered(g, max), NEW i \in 0..(NumBuckets - 1),
         ~Beyond(g, i, max)
  PROVE  /\ CalcSlackBucket(g, i, max) \in 0..(NumBuckets - 1)
         /\ \A j \in InBucket(g, i, max) :
              /\ SlackIn(g, i, max, j) \in Int
              /\ SlackIn(g, i, max, j) \div max.slack <= CalcSlackBucket(g, i, max) + 1
<1> DEFINE B == InBucket(g, i, max)
           slacks == {SlackIn(g, i, max, j) : j \in B}
           S == {0} \cup slacks
           H == Highest(S)
           q == H \div max.slack
<1>1. B \subseteq 2..Len(g) /\ IsFiniteSet(B) /\ i * max.latency \in Nat
  BY InBucketProperties
<1>2. NumBuckets \in Nat \ {0} /\ max.slack \in Nat \ {0}
  BY GridAssumption DEF Covered
<1>c. CalcSlackBucket(g, i, max) = Capped(q)
  BY DEF CalcSlackBucket, SlackIn
<1>3. ASSUME NEW j \in B
      PROVE  SlackIn(g, i, max, j) \in Int /\ SlackIn(g, i, max, j) <= max.slack * NumBuckets
  <2>1. j \in 2..Len(g)
    BY <1>1
  <2>2. g[j].x \in Nat /\ g[j - 1].x \in Nat
    BY <2>1, SlopeType DEF RootedGraph
  <2>3. g[j].x - g[j - 1].x <= max.slack
    BY <2>1 DEF Covered
  <2> DEFINE u == g[j].x
             v == g[j - 1].x
             L == i * max.latency
             h == Highest({v * NumBuckets, L})
  <2> HIDE DEF u, v, L
  <2>4. u \in Nat /\ v \in Nat /\ u - v <= max.slack /\ L \in Nat
    BY <1>1, <2>2, <2>3 DEF u, v, L
  <2>5. v * NumBuckets \in Int /\ u * NumBuckets \in Int /\ max.slack * NumBuckets \in Int
    BY <1>2, <2>4
  <2>6. h \in Int /\ v * NumBuckets <= h
    <3>1. L \in Int
      BY <2>4
    <3>q. QED
      BY <2>5, <3>1, HigherOfTwo
  <2>7. (u - v) * NumBuckets <= max.slack * NumBuckets
    BY <1>2, <2>4, MulLe
  <2>8. (u - v) * NumBuckets = u * NumBuckets - v * NumBuckets
    BY <1>2, <2>4
  <2>9. SlackIn(g, i, max, j) = u * NumBuckets - h
    BY DEF SlackIn, u, v, L
  <2> HIDE DEF h
  <2>q. QED
    BY <2>5, <2>6, <2>7, <2>8, <2>9
<1>4. IsFiniteSet(S) /\ S \subseteq Int /\ S # {}
  <2> DEFINE f == [j \in B |-> SlackIn(g, i, max, j)]
  <2>1. \A t \in slacks : \E j \in B : t = f[j]
    OBVIOUS
  <2>2. IsFiniteSet(slacks)
    <3> HIDE DEF B, slacks, f
    <3> QED BY <1>1, <2>1, Reached
  <2>3. IsFiniteSet({0})
    BY FS_Singleton
  <2>4. IsFiniteSet(S)
    <3> HIDE DEF slacks
    <3> QED BY <2>2, <2>3, FS_Union
  <2>5. S \subseteq Int
    BY <1>3
  <2>q. QED
    BY <2>4, <2>5
<1>5. H \in S /\ \A m \in S : m <= H
  <2> HIDE DEF S
  <2> QED BY <1>4, HighestProperties
<1>6. /\ 0 \in S
      /\ \A j \in B : SlackIn(g, i, max, j) \in S
      /\ \A m \in S : m \in Int /\ m <= max.slack * NumBuckets
  <2>1. 0 <= max.slack * NumBuckets
    BY <1>2
  <2>q. QED
    BY <1>3, <2>1
<1> HIDE DEF B, S, H
<1>7. H \in Nat /\ H <= max.slack * NumBuckets
  BY <1>5, <1>6
<1>8. q \in Nat /\ q <= NumBuckets
  <2>1. q \in Int /\ q * max.slack <= H /\ H < q * max.slack + max.slack
    <3>1. H \in Int
      BY <1>7
    <3>q. QED
      BY <1>2, <3>1, DivBounds
  <2> HIDE DEF q
  <2>2. q >= 0
    <3> SUFFICES ASSUME q + 1 <= 0 PROVE FALSE
      BY <2>1
    <3>1. (q + 1) * max.slack <= 0 * max.slack
      BY <1>2, <2>1, MulLe
    <3>2. (q + 1) * max.slack = q * max.slack + max.slack /\ 0 * max.slack = 0 /\ q * max.slack \in Int
      BY <1>2, <2>1
    <3>q. QED
      BY <1>2, <1>7, <2>1, <3>1, <3>2
  <2>3. q * max.slack <= NumBuckets * max.slack
    <3>1. max.slack * NumBuckets = NumBuckets * max.slack /\ q * max.slack \in Int
          /\ max.slack * NumBuckets \in Int
      BY <1>2, <2>1
    <3>q. QED
      BY <1>7, <2>1, <3>1
  <2>4. q <= NumBuckets
    BY <1>2, <2>1, <2>3, MulCancel
  <2>q. QED
    BY <2>1, <2>2, <2>4
<1>9. \A j \in B : SlackIn(g, i, max, j) \in Int /\ SlackIn(g, i, max, j) \div max.slack <= q
  <2> SUFFICES ASSUME NEW j \in B
               PROVE  SlackIn(g, i, max, j) \in Int /\ SlackIn(g, i, max, j) \div max.slack <= q
    OBVIOUS
  <2>1. SlackIn(g, i, max, j) \in Int /\ SlackIn(g, i, max, j) <= H
    BY <1>5, <1>6
  <2>q. QED
    BY <1>2, <1>7, <2>1, DivMonotone
<1>10. Capped(q) \in 0..(NumBuckets - 1) /\ q <= Capped(q) + 1
  BY <1>2, <1>8 DEF Capped
<1>11. \A j \in B : SlackIn(g, i, max, j) \div max.slack \in Int
  BY <1>2, <1>9, DivBounds
<1>q. QED
  <2> HIDE DEF q
  <2>1. ASSUME NEW j \in B PROVE SlackIn(g, i, max, j) \div max.slack <= Capped(q) + 1
    <3>1. Capped(q) \in Int
      BY <1>10
    <3>q. QED
      BY <1>8, <1>9, <1>10, <1>11, <3>1
  <2>q. QED
    BY <1>9, <1>10, <1>c, <2>1 DEF B

\* If e does not exceed s, and q is how often m goes into s in units of k, e is
\* less than q + 1 such units.
LEMMA QuotientBound ==
  ASSUME NEW s1 \in Nat, NEW s2 \in Nat \ {0}, NEW m1 \in Nat \ {0}, NEW m2 \in Nat \ {0},
         NEW e1 \in Int, NEW e2 \in Nat \ {0}, NEW k \in Nat,
         s1 * m2 <= m1 * s2, e1 * s2 <= s1 * e2
  PROVE  LET q == (s1 * m2 * k) \div (s2 * m1)
         IN /\ q \in 0..k
            /\ q * m1 * e2 + m1 * e2 > e1 * m2 * k
<1> DEFINE A == s1 * m2 * k
           D == s2 * m1
           q == A \div D
<1>1. A \in Nat /\ D \in Nat \ {0}
  <2>1. s1 * m2 \in Nat
    BY MulPositive
  <2>q. QED
    BY <2>1, MulPositive
<1>2. q \in Int /\ q * D <= A /\ A < q * D + D
  <2>1. A \in Int
    BY <1>1
  <2> HIDE DEF A, D
  <2>q. QED
    BY <1>1, <2>1, DivBounds
<1>3. A <= k * D
  <2>1. s1 * m2 \in Int /\ m1 * s2 \in Int
    BY MulType
  <2>2. (s1 * m2) * k <= (m1 * s2) * k
    BY <2>1, MulLe
  <2>3. (m1 * s2) * k = k * (s2 * m1)
    OBVIOUS
  <2>q. QED
    BY <2>2, <2>3
<1>4. A * e2 \in Int /\ A = s1 * m2 * k /\ D = s2 * m1
  BY <1>1
<1> HIDE DEF A, D, q
<1>5. q <= k
  <2>1. q * D <= k * D
    BY <1>1, <1>2, <1>3
  <2>q. QED
    BY <1>1, <1>2, <2>1, MulCancel
<1>6. q >= 0
  <2> SUFFICES ASSUME q + 1 <= 0 PROVE FALSE
    BY <1>2
  <2>1. (q + 1) * D <= 0 * D
    BY <1>1, <1>2, MulLe
  <2>2. (q + 1) * D = q * D + D /\ 0 * D = 0 /\ q * D \in Int
    BY <1>1, <1>2
  <2>q. QED
    BY <1>1, <1>2, <2>1, <2>2
<1>7. q * m1 * e2 + m1 * e2 > e1 * m2 * k
  <2> DEFINE P == q * m1 * e2 + m1 * e2
             R == e1 * m2 * k
  <2>1. P \in Int /\ R \in Int
    BY <1>2
  <2>2. P * s2 = (q * D + D) * e2
    <3>1. P * s2 = (q * m1 * e2) * s2 + (m1 * e2) * s2
      BY <1>2
    <3>2. (q * m1 * e2) * s2 = (q * (s2 * m1)) * e2 /\ (m1 * e2) * s2 = (s2 * m1) * e2
      BY <1>2
    <3>3. (q * D + D) * e2 = (q * D) * e2 + D * e2
      BY <1>1, <1>2
    <3>q. QED
      BY <1>4, <3>1, <3>2, <3>3
  <2>3. R * s2 <= A * e2
    <3>1. R * s2 = (e1 * s2) * (m2 * k)
      OBVIOUS
    <3>2. A * e2 = (s1 * e2) * (m2 * k)
      BY <1>4
    <3>3. e1 * s2 \in Int /\ s1 * e2 \in Int /\ m2 * k \in Nat
      BY MulType
    <3>4. (e1 * s2) * (m2 * k) <= (s1 * e2) * (m2 * k)
      BY <3>3, MulLe
    <3>q. QED
      BY <3>1, <3>2, <3>4
  <2>4. A * e2 < (q * D + D) * e2
    <3>1. q * D + D \in Int /\ A \in Int
      BY <1>1, <1>2
    <3>q. QED
      BY <1>2, <3>1, MulLt
  <2> HIDE DEF P, R
  <2>5. ASSUME P <= R PROVE FALSE
    <3>1. P * s2 <= R * s2
      BY <2>1, <2>5, MulLe
    <3>2. P * s2 \in Int /\ R * s2 \in Int /\ A * e2 \in Int
      BY <1>4, <2>1
    <3>q. QED
      BY <2>2, <2>3, <2>4, <3>1, <3>2
  <2>q. QED
    BY <2>1, <2>5 DEF P, R
<1>q. QED
  BY <1>2, <1>5, <1>6, <1>7 DEF q, A, D

\* It has a slope of the grid, which is no less than that of any step in it.
LEMMA SlopeBucket ==
  ASSUME NEW g, RootedGraph(g), NEW max, Covered(g, max), NEW i \in 0..(NumBuckets - 1),
         ~Beyond(g, i, max), max.slope[1] # 0
  PROVE  /\ CalcSlopeBucket(g, i, max) \in 0..(NumBuckets - 1)
         /\ \A j \in InBucket(g, i, max) :
              CalcSlopeBucket(g, i, max) * max.slope[1] * Slope(g, j)[2]
                 + max.slope[1] * Slope(g, j)[2]
                > Slope(g, j)[1] * max.slope[2] * (NumBuckets - 1)
<1> DEFINE B == InBucket(g, i, max)
           slopes == {Slope(g, j) : j \in B}
           S == {<<0, 1>>} \cup slopes
           st == Largest(S)
           m == max.slope
           q == (st[1] * m[2] * (NumBuckets - 1)) \div (st[2] * m[1])
<1>1. B \subseteq 2..Len(g) /\ IsFiniteSet(B)
  BY InBucketProperties
<1>2. NumBuckets - 1 \in Nat /\ m \in Fractions /\ m[1] \in Nat \ {0} /\ m[2] \in Nat \ {0}
  BY GridAssumption DEF Covered, Fractions
<1>3. CalcSlopeBucket(g, i, max) = Capped(q)
  BY DEF CalcSlopeBucket
<1>4. \A j \in B : Slope(g, j) \in Fractions /\ ~Exceeds(Slope(g, j), m)
  BY <1>1, SlopeType DEF RootedGraph, Covered
<1>z. <<0, 1>> \in Fractions /\ ~Exceeds(<<0, 1>>, m)
  BY <1>2 DEF Fractions, Exceeds
<1>5. S \subseteq Fractions /\ IsFiniteSet(S) /\ S # {} /\ <<0, 1>> \in S
  <2> DEFINE f == [j \in B |-> Slope(g, j)]
  <2>1. \A t \in slopes : \E j \in B : t = f[j]
    OBVIOUS
  <2>2. IsFiniteSet(slopes)
    <3> HIDE DEF B, slopes, f
    <3> QED BY <1>1, <2>1, Reached
  <2>3. IsFiniteSet({<<0, 1>>})
    BY FS_Singleton
  <2>4. IsFiniteSet(S)
    <3> HIDE DEF slopes
    <3> QED BY <2>2, <2>3, FS_Union
  <2>q. QED
    BY <1>4, <1>z, <2>4
<1>6. \A s \in S : ~Exceeds(s, m)
  BY <1>4, <1>z
<1>7. \A j \in B : Slope(g, j) \in S
  OBVIOUS
<1> HIDE DEF B, S, m, slopes
<1>8. st \in S /\ \A s \in S : ~Exceeds(s, st)
  BY <1>5, LargestProperties
<1>9. st \in Fractions /\ ~Exceeds(st, m) /\ ~Exceeds(<<0, 1>>, st)
  BY <1>5, <1>6, <1>8
<1> HIDE DEF st
<1>10. st[1] \in Nat /\ st[2] \in Nat \ {0} /\ st[1] * m[2] <= m[1] * st[2]
  <2>1. st[1] \in Int /\ st[2] \in Nat \ {0}
    BY <1>9 DEF Fractions
  <2>2. ~(st[1] * m[2] > m[1] * st[2])
    BY <1>9 DEF Exceeds
  <2>3. ~(0 * st[2] > st[1] * 1)
    BY <1>9 DEF Exceeds
  <2>4. st[1] * m[2] \in Int /\ m[1] * st[2] \in Int
    BY <1>2, <2>1, MulType
  <2>q. QED
    BY <2>1, <2>2, <2>3, <2>4
<1> DEFINE st1 == st[1]
           st2 == st[2]
           m1 == m[1]
           m2 == m[2]
           K == NumBuckets - 1
<1>11. /\ st1 \in Nat /\ st2 \in Nat \ {0} /\ m1 \in Nat \ {0} /\ m2 \in Nat \ {0} /\ K \in Nat
       /\ st1 * m2 <= m1 * st2
  BY <1>2, <1>10
<1>12. q = (st1 * m2 * K) \div (st2 * m1)
  OBVIOUS
<1> HIDE DEF st1, st2, m1, m2, K, q
<1>13. ASSUME NEW e \in Fractions, ~Exceeds(e, st)
       PROVE  q \in 0..K /\ q * m1 * e[2] + m1 * e[2] > e[1] * m2 * K
  <2>1. e[1] \in Int /\ e[2] \in Nat \ {0}
    BY <1>13 DEF Fractions
  <2>2. e[1] * st2 <= st1 * e[2]
    <3>1. ~(e[1] * st2 > st1 * e[2])
      BY <1>13 DEF Exceeds, st1, st2
    <3>2. e[1] * st2 \in Int /\ st1 * e[2] \in Int
      BY <1>11, <2>1, MulType
    <3>q. QED
      BY <3>1, <3>2
  <2>q. QED
    BY <1>11, <1>12, <2>1, <2>2, QuotientBound
<1>14. q \in 0..K
  BY <1>9, <1>13, <1>z
<1>15. Capped(q) = q /\ K = NumBuckets - 1
  BY <1>14 DEF Capped, K
<1>16. \A j \in B : q * m1 * Slope(g, j)[2] + m1 * Slope(g, j)[2] > Slope(g, j)[1] * m2 * K
  BY <1>4, <1>7, <1>8, <1>13
<1>q. QED
  BY <1>3, <1>14, <1>15, <1>16 DEF B, m, m1, m2

\* The steps of the graphs are finitely many, and each is one of a graph.
LEMMA StepsProperties ==
  ASSUME NEW graphs, IsFiniteSet(DOMAIN graphs), \A b \in DOMAIN graphs : BoxGraph(graphs[b])
  PROVE  /\ IsFiniteSet(Steps(graphs))
         /\ \A b \in DOMAIN graphs : \A i \in 2..Len(graphs[b]) : <<graphs[b], i>> \in Steps(graphs)
         /\ \A s \in Steps(graphs) :
              /\ Slope(s[1], s[2]) \in Fractions
              /\ s[1][s[2]].x - s[1][s[2] - 1].x \in Nat
<1> DEFINE Of(b) == {<<graphs[b], i>> : i \in 2..Len(graphs[b])}
           SS == {Of(b) : b \in DOMAIN graphs}
<1>1. Steps(graphs) = UNION SS
  BY DEF Steps
<1>2. ASSUME NEW b \in DOMAIN graphs PROVE IsFiniteSet(Of(b))
  <2> DEFINE I == 2..Len(graphs[b])
             f == [i \in I |-> <<graphs[b], i>>]
  <2>1. Len(graphs[b]) \in Nat
    BY DEF BoxGraph
  <2>2. IsFiniteSet(I)
    BY <2>1, FS_Interval
  <2>3. \A t \in Of(b) : \E i \in I : t = f[i]
    OBVIOUS
  <2> HIDE DEF I, f, Of
  <2>q. QED
    BY <2>2, <2>3, Reached
<1>3. IsFiniteSet(SS)
  <2> DEFINE f == [b \in DOMAIN graphs |-> Of(b)]
  <2>1. \A t \in SS : \E b \in DOMAIN graphs : t = f[b]
    OBVIOUS
  <2> HIDE DEF SS, f
  <2>q. QED
    BY <2>1, Reached
<1>4. \A t \in SS : IsFiniteSet(t)
  BY <1>2
<1>5. IsFiniteSet(UNION SS)
  <2> HIDE DEF SS
  <2> QED BY <1>3, <1>4, FS_UNION
<1>6. ASSUME NEW b \in DOMAIN graphs, NEW i \in 2..Len(graphs[b])
      PROVE  <<graphs[b], i>> \in Steps(graphs)
  <2>1. <<graphs[b], i>> \in Of(b)
    OBVIOUS
  <2>2. Of(b) \in SS
    OBVIOUS
  <2> HIDE DEF Of, SS
  <2>q. QED
    BY <1>1, <2>1, <2>2
<1>7. ASSUME NEW s \in Steps(graphs)
      PROVE  Slope(s[1], s[2]) \in Fractions /\ s[1][s[2]].x - s[1][s[2] - 1].x \in Nat
  <2>1. PICK b \in DOMAIN graphs : s \in Of(b)
    BY <1>1
  <2>2. PICK i \in 2..Len(graphs[b]) : s = <<graphs[b], i>>
    BY <2>1
  <2>3. s[1] = graphs[b] /\ s[2] = i
    BY <2>2
  <2> DEFINE g == graphs[b]
  <2>4. BoxGraph(g) /\ i \in 2..Len(g)
    BY <2>2
  <2> HIDE DEF g
  <2>5. Slope(g, i) \in Fractions /\ g[i].x \in Nat /\ g[i - 1].x \in Nat /\ g[i - 1].x < g[i].x
    BY <2>4, SlopeType
  <2>6. g[i].x - g[i - 1].x \in Nat
    BY <2>5
  <2>q. QED
    BY <2>3, <2>5, <2>6 DEF g
<1>q. QED
  BY <1>1, <1>5, <1>6, <1>7

\* What does not exceed the absolute value of a fraction does not exceed it.
LEMMA PositiveExceeds ==
  ASSUME NEW a \in Fractions, NEW m \in Fractions, ~Exceeds(Positive(a), m)
  PROVE  ~Exceeds(a, m)
<1> DEFINE a1 == a[1]
           m2 == m[2]
           abs == IF a1 < 0 THEN -a1 ELSE a1
<1>1. a1 \in Int /\ a[2] \in Nat \ {0} /\ m[1] \in Int /\ m2 \in Nat \ {0}
  BY DEF Fractions
<1>2. ~(abs * m2 > m[1] * a[2])
  BY DEF Exceeds, Positive
<1>3. Exceeds(a, m) <=> a1 * m2 > m[1] * a[2]
  BY DEF Exceeds
<1>4. abs \in Int /\ a1 <= abs
  BY <1>1
<1> HIDE DEF a1, m2, abs
<1>5. a1 * m2 <= abs * m2
  BY <1>1, <1>4, MulLe
<1>6. a1 * m2 \in Int /\ abs * m2 \in Int /\ m[1] * a[2] \in Int
  BY <1>1, <1>4, MulType
<1>q. QED
  BY <1>2, <1>3, <1>5, <1>6

\* The graph that lasts longest.
LEMMA LongestGraph ==
  ASSUME NEW graphs, IsFiniteSet(DOMAIN graphs),
         \A b \in DOMAIN graphs : BoxGraph(graphs[b]),
         \E b \in DOMAIN graphs : LastX(graphs[b]) > 0
  PROVE  /\ Extremes(graphs).latency \in Nat \ {0}
         /\ \A b \in DOMAIN graphs :
              LastX(graphs[b]) \in Nat /\ LastX(graphs[b]) <= Extremes(graphs).latency
<1> DEFINE D == DOMAIN graphs
           L == {LastX(graphs[b]) : b \in D}
<1>1. \A b \in D : LastX(graphs[b]) \in Nat
  <2> SUFFICES ASSUME NEW g, BoxGraph(g) PROVE LastX(g) \in Nat
    OBVIOUS
  <2>1. Len(g) \in 1..Len(g) /\ \A j \in 1..Len(g) : g[j] \in GraphPoints
    BY DEF BoxGraph
  <2>q. QED
    BY <2>1 DEF LastX, GraphPoints
<1>2. Extremes(graphs).latency = Highest(L)
  BY DEF Extremes
<1>3. L \subseteq Nat /\ IsFiniteSet(L) /\ L # {}
  <2> DEFINE f == [b \in D |-> LastX(graphs[b])]
  <2>1. \A t \in L : \E b \in D : t = f[b]
    OBVIOUS
  <2>2. IsFiniteSet(L)
    <3> HIDE DEF L, f
    <3> QED BY <2>1, Reached
  <2>q. QED
    BY <1>1, <2>2
<1>4. \A b \in D : LastX(graphs[b]) \in L
  OBVIOUS
<1>5. L \subseteq Int
  BY <1>3
<1> HIDE DEF L
<1>6. Highest(L) \in L /\ \A n \in L : n <= Highest(L)
  BY <1>3, <1>5, HighestProperties
<1>7. Highest(L) > 0
  <2>1. PICK b \in D : LastX(graphs[b]) > 0
    OBVIOUS
  <2>2. LastX(graphs[b]) <= Highest(L) /\ LastX(graphs[b]) \in Nat /\ Highest(L) \in Nat
    BY <1>1, <1>3, <1>4, <1>6
  <2>q. QED
    BY <2>1, <2>2
<1>8. \A b \in D : LastX(graphs[b]) <= Highest(L)
  BY <1>4, <1>6
<1>9. Highest(L) \in Nat \ {0}
  <2>1. Highest(L) \in Nat
    BY <1>3, <1>6
  <2>q. QED
    BY <1>7, <2>1
<1>q. QED
  BY <1>1, <1>2, <1>8, <1>9, Zenon

\* The extremes cover every graph.
LEMMA ExtremesProperties ==
  ASSUME NEW graphs, IsFiniteSet(DOMAIN graphs),
         \A b \in DOMAIN graphs : RootedGraph(graphs[b]),
         \E b \in DOMAIN graphs : LastX(graphs[b]) > 0
  PROVE  \A b \in DOMAIN graphs : Covered(graphs[b], Extremes(graphs))
<1> DEFINE D == DOMAIN graphs
           St == Steps(graphs)
           Sl(s) == s[1][s[2]].x - s[1][s[2] - 1].x
           A == {0} \cup {Sl(s) : s \in St}
           F == {<<0, 1>>} \cup {Positive(Slope(s[1], s[2])) : s \in St}
           max == Extremes(graphs)
<1>1. /\ IsFiniteSet(St)
      /\ \A b \in D : \A i \in 2..Len(graphs[b]) : <<graphs[b], i>> \in St
      /\ \A s \in St : Slope(s[1], s[2]) \in Fractions /\ Sl(s) \in Nat
  BY StepsProperties DEF RootedGraph
<1>m. max.slack = Highest(A) /\ max.slope = Largest(F)
  BY DEF Extremes
<1>2. /\ max.latency \in Nat \ {0}
      /\ \A b \in D : LastX(graphs[b]) \in Nat /\ LastX(graphs[b]) <= max.latency
  BY LongestGraph DEF RootedGraph
<1>3. A \subseteq Nat /\ IsFiniteSet(A) /\ 0 \in A
  <2> DEFINE R == {Sl(s) : s \in St}
             f == [s \in St |-> Sl(s)]
  <2>1. \A t \in R : \E s \in St : t = f[s]
    OBVIOUS
  <2>2. IsFiniteSet(R)
    <3> HIDE DEF St, R, f
    <3> QED BY <1>1, <2>1, Reached
  <2>3. IsFiniteSet({0})
    BY FS_Singleton
  <2>4. IsFiniteSet({0} \cup R)
    <3> HIDE DEF R
    <3> QED BY <2>2, <2>3, FS_Union
  <2>q. QED
    BY <1>1, <2>4
<1>4. F \subseteq Fractions /\ IsFiniteSet(F) /\ <<0, 1>> \in F
  <2> DEFINE P(s) == Positive(Slope(s[1], s[2]))
             R == {P(s) : s \in St}
             f == [s \in St |-> P(s)]
  <2>1. \A t \in R : \E s \in St : t = f[s]
    OBVIOUS
  <2>2. IsFiniteSet(R)
    <3> HIDE DEF St, R, f
    <3> QED BY <1>1, <2>1, Reached
  <2>3. IsFiniteSet({<<0, 1>>})
    BY FS_Singleton
  <2>4. IsFiniteSet({<<0, 1>>} \cup R)
    <3> HIDE DEF R
    <3> QED BY <2>2, <2>3, FS_Union
  <2>5. \A s \in St : P(s) \in Fractions
    BY <1>1, FractionTypes
  <2>6. <<0, 1>> \in Fractions
    BY DEF Fractions
  <2>q. QED
    BY <2>4, <2>5, <2>6
<1>6. max.slack \in Nat /\ \A s \in St : Sl(s) <= max.slack
  <2>1. A \subseteq Int /\ A # {}
    BY <1>3
  <2>2. \A s \in St : Sl(s) \in A
    OBVIOUS
  <2> HIDE DEF A, max, St, Sl
  <2>3. Highest(A) \in A /\ \A n \in A : n <= Highest(A)
    BY <1>3, <2>1, HighestProperties
  <2>q. QED
    BY <1>3, <1>m, <2>2, <2>3
<1>7. /\ max.slope \in Fractions /\ max.slope[1] >= 0
      /\ \A s \in St : ~Exceeds(Positive(Slope(s[1], s[2])), max.slope)
  <2>1. \A s \in St : Positive(Slope(s[1], s[2])) \in F
    OBVIOUS
  <2> HIDE DEF F, max, St
  <2>2. Largest(F) \in F /\ \A a \in F : ~Exceeds(a, Largest(F))
    BY <1>4, LargestProperties
  <2>3. max.slope \in Fractions /\ ~Exceeds(<<0, 1>>, max.slope)
    BY <1>4, <1>m, <2>2
  <2>4. max.slope[1] >= 0
    <3> DEFINE m == max.slope
    <3>1. m[1] \in Int /\ m[2] \in Nat
      BY <2>3 DEF Fractions
    <3>2. ~(0 * m[2] > m[1] * 1)
      BY <2>3 DEF Exceeds
    <3> HIDE DEF m
    <3>3. m[1] >= 0
      BY <3>1, <3>2
    <3>q. QED
      BY <3>3 DEF m
  <2>q. QED
    BY <1>m, <2>1, <2>2, <2>3, <2>4
<1> HIDE DEF max
<1>10. max.slack > 0
  <2>1. PICK b \in D : LastX(graphs[b]) > 0
    OBVIOUS
  <2> DEFINE g == graphs[b]
  <2>2. BoxGraph(g) /\ g[1].x = 0 /\ LastX(g) > 0
    BY <2>1 DEF RootedGraph
  <2>3. \A i \in 2..Len(g) : <<g, i>> \in St
    BY <1>1
  <2> HIDE DEF g
  <2>4. Len(g) \in Nat /\ Len(g) \in 2..Len(g) /\ 2 \in 2..Len(g)
    <3>1. Len(g) \in Nat \ {0}
      BY <2>2 DEF BoxGraph
    <3>2. Len(g) # 1
      BY <2>2 DEF LastX
    <3> DEFINE n == Len(g)
    <3>3. n \in Nat \ {0} /\ n # 1
      BY <3>1, <3>2
    <3> HIDE DEF n
    <3>4. n \in Nat /\ n \in 2..n /\ 2 \in 2..n
      BY <3>3
    <3>q. QED
      BY <3>4 DEF n
  <2>5. g[2].x \in Nat /\ g[1].x < g[2].x
    <3>1. g[2].x \in Nat /\ g[2 - 1].x < g[2].x
      BY <2>2, <2>4, SlopeType
    <3>q. QED
      BY <3>1
  <2>6. <<g, 2>> \in St
    BY <2>3, <2>4
  <2>7. Sl(<<g, 2>>) = g[2].x - g[1].x
    OBVIOUS
  <2>8. g[2].x - g[1].x <= max.slack
    BY <1>6, <2>6, <2>7
  <2>q. QED
    BY <1>6, <2>2, <2>5, <2>8
<1>11. ASSUME NEW b \in D, NEW i \in 2..Len(graphs[b])
       PROVE  /\ graphs[b][i].x - graphs[b][i - 1].x <= max.slack
              /\ ~Exceeds(Slope(graphs[b], i), max.slope)
  <2> DEFINE s == <<graphs[b], i>>
  <2>1. s \in St /\ s[1] = graphs[b] /\ s[2] = i
    BY <1>1
  <2> HIDE DEF s
  <2>2. Sl(s) <= max.slack /\ Slope(s[1], s[2]) \in Fractions
        /\ ~Exceeds(Positive(Slope(s[1], s[2])), max.slope)
    BY <1>1, <1>6, <1>7, <2>1
  <2>3. ~Exceeds(Slope(s[1], s[2]), max.slope)
    BY <1>7, <2>2, PositiveExceeds
  <2>q. QED
    BY <2>1, <2>2, <2>3
<1>q. QED
  BY <1>2, <1>6, <1>7, <1>10, <1>11 DEF Covered, max

\* A bucket has a cell of the grid, or none.
LEMMA LoadedCell ==
  ASSUME NEW g, RootedGraph(g), NEW max, Covered(g, max), NEW i \in 0..(NumBuckets - 1)
  PROVE  /\ LoadGridPointers(g, i, max) \in Cells \cup {NoCell}
         /\ LoadGridPointers(g, i, max) # NoCell =>
              /\ ~Beyond(g, i, max) /\ max.slope[1] # 0
              /\ LoadGridPointers(g, i, max) = <<CalcSlackBucket(g, i, max), CalcSlopeBucket(g, i, max)>>
<1>1. CASE Beyond(g, i, max)
  <2>1. CalcSlackBucket(g, i, max) = -1
    BY <1>1 DEF CalcSlackBucket
  <2>q. QED
    BY <2>1 DEF LoadGridPointers
<1>2. CASE ~Beyond(g, i, max) /\ max.slope[1] = 0
  <2>1. CalcSlopeBucket(g, i, max) = -1
    BY <1>2 DEF CalcSlopeBucket
  <2>q. QED
    BY <2>1 DEF LoadGridPointers
<1>3. CASE ~Beyond(g, i, max) /\ max.slope[1] # 0
  <2>1. CalcSlackBucket(g, i, max) \in 0..(NumBuckets - 1)
    BY <1>3, SlackBucket
  <2>2. CalcSlopeBucket(g, i, max) \in 0..(NumBuckets - 1)
    BY <1>3, SlopeBucket
  <2>q. QED
    BY <1>3, <2>1, <2>2, GridAssumption DEF LoadGridPointers, Cells
<1>q. QED
  BY <1>1, <1>2, <1>3

\* What the pointers are for the graphs of a case.
LEMMA PointerProperties ==
  ASSUME NEW c \in GridCases, NEW p, p = InitGridPointers(c)
  PROVE  /\ DOMAIN p.graphs = DOMAIN c.apps
         /\ p.max.latency \in Nat \ {0}
         /\ p.at \in [DOMAIN c.apps -> [0..(NumBuckets - 1) -> Cells \cup {NoCell}]]
         /\ Rooted(p.graphs) =>
              \A b \in DOMAIN c.apps :
                /\ RootedGraph(p.graphs[b]) /\ Covered(p.graphs[b], p.max)
                /\ \A i \in 0..(NumBuckets - 1) :
                     p.at[b][i] = LoadGridPointers(p.graphs[b], i, p.max)
         /\ ~Rooted(p.graphs) =>
              \A b \in DOMAIN c.apps : \A i \in 0..(NumBuckets - 1) : p.at[b][i] = NoCell
<1> DEFINE D == DOMAIN c.apps
           I == 0..(NumBuckets - 1)
           graphs == [b \in D |-> LoadBoxQosGraph(c, b)]
           max == Extremes(graphs)
           Cell(b, i) == IF Rooted(graphs) THEN LoadGridPointers(graphs[b], i, max) ELSE NoCell
<1>1. /\ p.graphs = graphs /\ p.max = max
      /\ p.at = [b \in D |-> [i \in I |-> Cell(b, i)]]
  BY DEF InitGridPointers
<1>2. /\ IsFiniteSet(D)
      /\ \A b \in D : BoxGraph(graphs[b])
      /\ \E b \in D : LastX(graphs[b]) > 0
  <2>1. IsFiniteSet(D)
    BY GridAssumption
  <2>2. PICK b \in D : \E a \in c.apps[b] : LastX(c.qos[a]) > c.cost[b]
    BY GridAssumption
  <2>3. \A d \in D : BoxGraph(LoadBoxQosGraph(c, d))
    BY LoadedGraph
  <2>4. LastX(LoadBoxQosGraph(c, b)) > 0
    BY <2>2, LoadedGraph
  <2>q. QED
    BY <2>1, <2>2, <2>3, <2>4
<1>3. DOMAIN graphs = D
  OBVIOUS
<1> HIDE DEF D, graphs, max, I
<1>4. ASSUME Rooted(graphs)
      PROVE  \A b \in D : RootedGraph(graphs[b]) /\ Covered(graphs[b], max)
  <2>1. \A b \in DOMAIN graphs : RootedGraph(graphs[b])
    BY <1>2, <1>3, <1>4 DEF Rooted, RootedGraph
  <2>2. \A b \in DOMAIN graphs : Covered(graphs[b], max)
    BY <1>2, <1>3, <2>1, ExtremesProperties DEF max
  <2>q. QED
    BY <1>3, <2>1, <2>2
<1>l. max.latency \in Nat \ {0}
  BY <1>2, <1>3, LongestGraph DEF max
<1>5. \A b \in D : \A i \in I : Cell(b, i) \in Cells \cup {NoCell}
  BY <1>4, LoadedCell DEF I
<1>6. p.at \in [D -> [I -> Cells \cup {NoCell}]]
  <2> HIDE DEF Cell
  <2> QED BY <1>1, <1>5
<1>7. \A b \in D : \A i \in I : p.at[b][i] = Cell(b, i)
  BY <1>1
<1>q. QED
  BY <1>1, <1>3, <1>4, <1>6, <1>7, <1>l DEF D, I

\* A latency between two points of a graph lies in the bucket it is put into.
LEMMA BetweenInBucket ==
  ASSUME NEW g, RootedGraph(g), NEW max, Covered(g, max), NEW latency \in Nat,
         NEW j \in 2..Len(g), g[j - 1].x < latency, latency < g[j].x
  PROVE  LET i == (latency * NumBuckets) \div max.latency
         IN /\ i \in 0..(NumBuckets - 1)
            /\ j \in InBucket(g, i, max)
            /\ SlackIn(g, i, max, j) >= (g[j].x - latency) * NumBuckets
<1> DEFINE M == max.latency
           LN == latency * NumBuckets
           i == LN \div M
<1>1. /\ Len(g) \in Nat /\ DOMAIN g = 1..Len(g)
      /\ \A k \in 1..Len(g) : g[k].x \in Nat
      /\ \A k, l \in 1..Len(g) : k < l => g[k].x < g[l].x
  <2>1. \A k \in 1..Len(g) : g[k] \in GraphPoints
    BY DEF RootedGraph, BoxGraph
  <2>2. \A k \in 1..Len(g) : g[k].x \in Nat
    BY <2>1 DEF GraphPoints
  <2>q. QED
    BY <2>2 DEF RootedGraph, BoxGraph, Rising
<1>2. M \in Nat \ {0} /\ NumBuckets \in Nat \ {0} /\ LastX(g) <= M
  BY GridAssumption DEF Covered
<1>3. j \in 1..Len(g) /\ j - 1 \in 1..Len(g) /\ Len(g) \in 1..Len(g)
  BY <1>1
<1>4. latency < M
  <2>1. j = Len(g) \/ g[j].x < g[Len(g)].x
    <3>0. Len(g) \in Nat
      BY <1>1
    <3>1. j = Len(g) \/ j < Len(g)
      BY <3>0
    <3>2. j < Len(g) => g[j].x < g[Len(g)].x
      BY <1>1, <1>3, Zenon
    <3>q. QED
      BY <3>1, <3>2
  <2>2. g[j].x \in Nat /\ g[Len(g)].x \in Nat
    BY <1>1, <1>3
  <2>q. QED
    BY <1>2, <2>1, <2>2 DEF LastX
<1>5. LN \in Nat
  BY <1>2
<1> HIDE DEF M
<1>6. i \in Int /\ i * M <= LN /\ LN < i * M + M
  <2>1. LN \in Int
    BY <1>5
  <2> HIDE DEF LN
  <2>q. QED
    BY <1>2, <2>1, DivBounds
<1>7. LN < NumBuckets * M /\ LN = latency * NumBuckets /\ NumBuckets * M \in Nat
  <2>1. latency * NumBuckets < M * NumBuckets
    BY <1>2, <1>4, MulLt
  <2>2. M * NumBuckets = NumBuckets * M
    BY <1>2
  <2>q. QED
    BY <1>2, <2>1, <2>2
<1> HIDE DEF LN, i
<1>8. i * M \in Int /\ (i + 1) * M = i * M + M /\ (i + 1) * M \in Int
  BY <1>2, <1>6
<1>9. i >= 0
  <2> SUFFICES ASSUME i + 1 <= 0 PROVE FALSE
    BY <1>6
  <2>1. (i + 1) * M <= 0 * M
    BY <1>2, <1>6, MulLe
  <2>2. 0 * M = 0
    BY <1>2
  <2>q. QED
    BY <1>5, <1>6, <1>8, <2>1, <2>2
<1>10. i < NumBuckets
  <2> SUFFICES ASSUME NumBuckets <= i PROVE FALSE
    BY <1>2, <1>6
  <2>1. NumBuckets * M <= i * M
    BY <1>2, <1>6, MulLe
  <2>q. QED
    BY <1>5, <1>6, <1>7, <1>8, <2>1
<1>11. g[j].x * NumBuckets > i * M
  <2>1. latency * NumBuckets < g[j].x * NumBuckets
    <3>1. g[j].x \in Int /\ latency \in Int
      BY <1>1, <1>3
    <3>q. QED
      BY <1>2, <3>1, MulLt
  <2>2. g[j].x * NumBuckets \in Int
    BY <1>1, <1>2, <1>3
  <2>q. QED
    BY <1>5, <1>6, <1>7, <1>8, <2>1, <2>2
<1>12. ASSUME NEW k \in 1..(j - 1) PROVE g[k].x * NumBuckets < (i + 1) * M
  <2>1. k \in 1..Len(g) /\ g[k].x \in Nat /\ g[j - 1].x \in Nat
    BY <1>1, <1>3
  <2>2. k = j - 1 \/ g[k].x < g[j - 1].x
    BY <1>1, <1>3, <2>1
  <2>3. g[k].x < latency
    BY <2>1, <2>2
  <2>4. g[k].x * NumBuckets < latency * NumBuckets /\ g[k].x * NumBuckets \in Int
    BY <1>2, <2>1, <2>3, MulLt
  <2>q. QED
    BY <1>5, <1>6, <1>7, <1>8, <2>4
<1>13. j \in InBucket(g, i, max)
  BY <1>1, <1>3, <1>11, <1>12 DEF InBucket, M
<1>14. SlackIn(g, i, max, j) >= (g[j].x - latency) * NumBuckets
  <2> DEFINE u == g[j].x
             v == g[j - 1].x
             h == Highest({v * NumBuckets, i * M})
  <2>1. u \in Nat /\ v \in Nat /\ v < latency
    BY <1>1, <1>3
  <2>2. SlackIn(g, i, max, j) = u * NumBuckets - h
    BY DEF SlackIn, M
  <2> HIDE DEF u, v
  <2>3. v * NumBuckets < latency * NumBuckets /\ v * NumBuckets \in Int
    BY <1>2, <2>1, MulLt
  <2>4. h \in {v * NumBuckets, i * M} /\ h \in Int
    BY <1>8, <2>3, HigherOfTwo
  <2>5. h <= latency * NumBuckets
    BY <1>5, <1>6, <1>7, <1>8, <2>3, <2>4
  <2>6. (u - latency) * NumBuckets = u * NumBuckets - latency * NumBuckets
        /\ u * NumBuckets \in Int /\ latency * NumBuckets \in Int
    BY <1>2, <2>1
  <2> HIDE DEF h
  <2>7. SlackIn(g, i, max, j) >= (u - latency) * NumBuckets
    BY <2>2, <2>4, <2>5, <2>6
  <2>q. QED
    BY <2>7 DEF u
<1>q. QED
  BY <1>6, <1>2, <1>9, <1>10, <1>13, <1>14 DEF i, LN, M

\* The case and its grid stay what they were.
GridTables ==
  /\ gcase \in GridCases
  /\ gridPointers = InitGridPointers(gcase)
  /\ urgencyList = CreateUrgencyList(gridPointers.at)

\* Every latency has a bucket.
LEMMA LatencyBucketType ==
  ASSUME GridTables, NEW b \in GridBoxes, NEW latency \in Nat
  PROVE  LatencyBucket(b, latency) \in 0..(NumBuckets - 1)
<1> DEFINE M == gridPointers.max.latency
           LN == latency * NumBuckets
           bucket == LN \div M
           slots == {i \in 0..(NumBuckets - 1) : gridPointers.at[b][i] # NoCell}
           S == {0} \cup slots
<1>1. M \in Nat \ {0} /\ NumBuckets \in Nat \ {0}
  BY PointerProperties, GridAssumption DEF GridTables
<1>2. LatencyBucket(b, latency) =
        IF latency > M THEN 0 ELSE IF bucket = NumBuckets THEN Highest(S) ELSE bucket
  BY DEF LatencyBucket
<1>3. Highest(S) \in 0..(NumBuckets - 1)
  <2>1. S \subseteq 0..(NumBuckets - 1) /\ S # {}
    BY <1>1
  <2>2. IsFiniteSet(0..(NumBuckets - 1))
    BY <1>1, FS_Interval
  <2> HIDE DEF S
  <2>3. IsFiniteSet(S)
    BY <2>1, <2>2, FS_Subset
  <2>4. S \subseteq Int
    BY <2>1
  <2>q. QED
    BY <2>1, <2>3, <2>4, HighestProperties
<1> HIDE DEF M, S
<1>4. ASSUME latency <= M PROVE bucket \in 0..NumBuckets
  <2>1. LN \in Nat /\ LN <= NumBuckets * M
    <3>1. latency * NumBuckets <= M * NumBuckets
      BY <1>1, <1>4, MulLe
    <3>2. M * NumBuckets = NumBuckets * M
      BY <1>1
    <3>q. QED
      BY <1>1, <3>1, <3>2
  <2>2. LN \in Int
    BY <2>1
  <2> HIDE DEF LN
  <2>3. bucket \in Int /\ bucket * M <= LN /\ LN < bucket * M + M
    BY <1>1, <2>2, DivBounds
  <2> HIDE DEF bucket
  <2>4. bucket * M \in Int /\ (bucket + 1) * M = bucket * M + M /\ NumBuckets * M \in Int
    BY <1>1, <2>3
  <2>5. bucket >= 0
    <3> SUFFICES ASSUME bucket + 1 <= 0 PROVE FALSE
      BY <2>3
    <3>1. (bucket + 1) * M <= 0 * M
      BY <1>1, <2>3, MulLe
    <3>2. 0 * M = 0
      BY <1>1
    <3>q. QED
      <4>1. LN >= 0 /\ LN < (bucket + 1) * M
        BY <2>1, <2>3, <2>4
      <4>2. (bucket + 1) * M <= 0
        BY <2>4, <3>1, <3>2
      <4> DEFINE X == (bucket + 1) * M
      <4>3. X \in Int /\ LN >= 0 /\ LN < X /\ X <= 0
        BY <1>1, <2>3, <4>1, <4>2
      <4> HIDE DEF X
      <4>q. QED
        BY <2>2, <4>3
  <2>6. bucket <= NumBuckets
    <3>1. bucket * M <= NumBuckets * M
      BY <2>1, <2>3, <2>4
    <3>q. QED
      BY <1>1, <2>3, <3>1, MulCancel
  <2>q. QED
    BY <1>1, <2>3, <2>5, <2>6
<1> HIDE DEF bucket
<1>q. QED
  BY <1>1, <1>2, <1>3, <1>4

\* The argument of CellsCover: a point after the latency is in its bucket, and
\* its slope and its slack are among those the cell is the highest of.
LEMMA CellsCoverOnce ==
  ASSUME GridTables
  PROVE  CellCovers
<1> SUFFICES ASSUME NEW b \in GridBoxes, NEW latency \in GridLatencies,
                    latency <= gridPointers.max.latency, PointedTo(b, latency) # NoCell
             PROVE  LET max   == gridPointers.max
                        exact == FindSlopeAt(gridPointers.graphs[b], latency)
                        cell  == PointedTo(b, latency)
                    IN /\ cell[2] * max.slope[1] * exact.slope[2] + max.slope[1] * exact.slope[2]
                            > exact.slope[1] * max.slope[2] * (NumBuckets - 1)
                       /\ cell[1] + 1 >= (exact.slack * NumBuckets) \div max.slack
  BY DEF CellCovers
<1> DEFINE max == gridPointers.max
           g == gridPointers.graphs[b]
           exact == FindSlopeAt(g, latency)
           k == LatencyBucket(b, latency)
           cell == PointedTo(b, latency)
           m1 == max.slope[1]
           m2 == max.slope[2]
           K == NumBuckets - 1
<1>1. latency \in Nat /\ NumBuckets \in Nat \ {0}
  BY GridAssumption
<1>2. k \in 0..(NumBuckets - 1)
  BY <1>1, LatencyBucketType
<1>3. cell = gridPointers.at[b][k]
  BY DEF PointedTo
<1>4. Rooted(gridPointers.graphs)
  <2> SUFFICES ASSUME ~Rooted(gridPointers.graphs) PROVE cell = NoCell
    OBVIOUS
  <2>q. QED
    BY <1>2, <1>3, PointerProperties DEF GridTables, GridBoxes
<1>5. /\ RootedGraph(g) /\ Covered(g, max)
      /\ cell = LoadGridPointers(g, k, max)
  BY <1>2, <1>3, <1>4, PointerProperties DEF GridTables, GridBoxes
<1> HIDE DEF k, g, max
<1>6. /\ ~Beyond(g, k, max) /\ m1 # 0
      /\ cell = <<CalcSlackBucket(g, k, max), CalcSlopeBucket(g, k, max)>>
  BY <1>2, <1>5, LoadedCell
<1>7. cell[1] \in 0..(NumBuckets - 1) /\ cell[2] \in 0..(NumBuckets - 1)
  BY <1>2, <1>5, <1>6, SlackBucket, SlopeBucket
<1>8. m1 \in Nat \ {0} /\ m2 \in Nat \ {0} /\ max.slack \in Nat \ {0} /\ K \in Nat
  BY <1>1, <1>5, <1>6 DEF Covered, Fractions
<1> DEFINE between == {i \in 2..Len(g) : g[i - 1].x < latency /\ latency < g[i].x}
<1>9. CASE between = {}
  <2>1. exact.slope[1] = 0 /\ exact.slope[2] = 1 /\ exact.slack = 0
    BY <1>9 DEF FindSlopeAt
  <2> HIDE DEF m1, m2, cell, exact, K
  <2>2. cell[2] * m1 * 1 + m1 * 1 > 0 * m2 * K
    <3> DEFINE q == cell[2]
    <3>1. q \in Nat /\ q * m1 \in Nat
      BY <1>7, <1>8
    <3> HIDE DEF q
    <3>2. q * m1 * 1 + m1 * 1 = q * m1 + m1 /\ 0 * m2 * K = 0
      BY <1>8, <3>1
    <3>3. q * m1 * 1 + m1 * 1 > 0 * m2 * K
      BY <1>8, <3>1, <3>2
    <3>q. QED
      BY <3>3 DEF q
  <2>3. (0 * NumBuckets) \div max.slack <= 0
    <3>1. 0 * NumBuckets = 0
      BY <1>1
    <3>2. 0 \div max.slack \in Int /\ (0 \div max.slack) * max.slack <= 0 * max.slack
      <4>1. 0 * max.slack = 0
        BY <1>8
      <4>q. QED
        BY <1>8, <4>1, DivBounds
    <3>3. 0 \div max.slack <= 0
      BY <1>8, <3>2, MulCancel
    <3>q. QED
      BY <3>1, <3>3
  <2>4. (0 * NumBuckets) \div max.slack \in Int
    <3>1. 0 * NumBuckets \in Int
      BY <1>1
    <3>q. QED
      BY <1>8, <3>1, DivBounds
  <2>q. QED
    BY <1>7, <2>1, <2>2, <2>3, <2>4 DEF m1, m2, cell, exact, K, g, max
<1>10. CASE between # {}
  <2> DEFINE j == CHOOSE i \in between : TRUE
  <2>1. j \in between
    BY <1>10
  <2>2. j \in 2..Len(g) /\ g[j - 1].x < latency /\ latency < g[j].x
    BY <2>1
  <2>3. exact.slope = Slope(g, j) /\ exact.slack = g[j].x - latency
    BY <1>10 DEF FindSlopeAt
  <2> HIDE DEF j, between
  <2>4. /\ (latency * NumBuckets) \div max.latency \in 0..(NumBuckets - 1)
        /\ j \in InBucket(g, (latency * NumBuckets) \div max.latency, max)
        /\ SlackIn(g, (latency * NumBuckets) \div max.latency, max, j) >= (g[j].x - latency) * NumBuckets
    BY <1>1, <1>5, <2>2, BetweenInBucket
  <2>5. k = (latency * NumBuckets) \div max.latency
    <3>1. latency <= max.latency
      BY DEF max
    <3>2. max.latency \in Nat /\ latency \in Nat
      BY <1>1, <1>5 DEF Covered
    <3> DEFINE i == (latency * NumBuckets) \div max.latency
    <3>3. i # NumBuckets
      <4>1. i \in 0..(NumBuckets - 1)
        BY <2>4
      <4> HIDE DEF i
      <4>q. QED
        BY <1>1, <4>1
    <3>q. QED
      BY <3>1, <3>2, <3>3 DEF k, LatencyBucket, max
  <2>6. cell[2] * m1 * exact.slope[2] + m1 * exact.slope[2] > exact.slope[1] * m2 * K
    BY <1>2, <1>5, <1>6, <2>3, <2>4, <2>5, SlopeBucket
  <2>7. cell[1] + 1 >= (exact.slack * NumBuckets) \div max.slack
    <3> DEFINE e == (g[j].x - latency) * NumBuckets
               s == SlackIn(g, k, max, j)
    <3>1. s \in Int /\ s \div max.slack <= cell[1] + 1
      BY <1>2, <1>5, <1>6, <2>4, <2>5, SlackBucket
    <3>2. e \in Int /\ e <= s
      <4>1. g[j].x \in Nat
        BY <1>5, <2>2, SlopeType DEF RootedGraph
      <4>2. e \in Int
        BY <1>1, <4>1
      <4>q. QED
        BY <2>4, <2>5, <3>1, <4>2
    <3> HIDE DEF e, s
    <3>3. e \div max.slack <= s \div max.slack
      BY <1>8, <3>1, <3>2, DivMonotone
    <3>4. e \div max.slack \in Int /\ s \div max.slack \in Int
      BY <1>8, <3>1, <3>2, DivBounds
    <3>5. cell[1] \in Int
      BY <1>7
    <3> HIDE DEF cell
    <3>6. cell[1] + 1 >= e \div max.slack
      BY <3>1, <3>3, <3>4, <3>5
    <3>q. QED
      BY <2>3, <3>6 DEF e
  <2>q. QED
    BY <2>6, <2>7 DEF g, max
<1>q. QED
  BY <1>9, <1>10
-----------------------------------------------------------------------------
(* The order of the cells *)

\* Quotient and remainder are the only ones that fit.
LEMMA DivUnique ==
  ASSUME NEW b \in Nat \ {0}, NEW q \in Int, NEW r \in 0..(b - 1)
  PROVE  (q * b + r) \div b = q /\ (q * b + r) % b = r
<1> DEFINE a == q * b + r
           p == a \div b
           m == a % b
<1>1. a \in Int /\ q * b \in Int /\ a = q * b + r
  OBVIOUS
<1> HIDE DEF a
<1>2. p \in Int /\ m \in 0..(b - 1) /\ a = b * p + m
  BY <1>1, DivFacts
<1> HIDE DEF p, m
<1>3. p * b \in Int /\ b * p = p * b
  BY <1>2
<1>4. ~(p < q)
  <2> SUFFICES ASSUME p + 1 <= q PROVE FALSE
    BY <1>2
  <2>1. (p + 1) * b <= q * b
    BY <1>2, MulLe
  <2>2. (p + 1) * b = p * b + b
    BY <1>2
  <2>q. QED
    BY <1>1, <1>2, <1>3, <2>1, <2>2
<1>5. ~(q < p)
  <2> SUFFICES ASSUME q + 1 <= p PROVE FALSE
    BY <1>2
  <2>1. (q + 1) * b <= p * b
    BY <1>2, MulLe
  <2>2. (q + 1) * b = q * b + b
    OBVIOUS
  <2>q. QED
    BY <1>1, <1>2, <1>3, <2>1, <2>2
<1>6. p = q
  BY <1>2, <1>4, <1>5
<1>7. m = r
  BY <1>1, <1>2, <1>3, <1>6
<1>q. QED
  BY <1>6, <1>7 DEF p, m, a

\* The quotient of what is less than n times b.
LEMMA DivBelow ==
  ASSUME NEW b \in Nat \ {0}, NEW n \in Nat, NEW a \in Nat, a < n * b
  PROVE  a \div b \in 0..(n - 1) /\ a % b \in 0..(b - 1)
<1> DEFINE p == a \div b
           m == a % b
<1>1. p \in Int /\ m \in 0..(b - 1) /\ a = b * p + m
  BY DivFacts
<1> HIDE DEF p, m
<1>2. b * p = p * b /\ p * b \in Int /\ n * b \in Int
  BY <1>1
<1>3. p >= 0
  <2> SUFFICES ASSUME p + 1 <= 0 PROVE FALSE
    BY <1>1
  <2>1. (p + 1) * b <= 0 * b
    BY <1>1, MulLe
  <2>2. (p + 1) * b = p * b + b /\ 0 * b = 0
    BY <1>1
  <2>q. QED
    BY <1>1, <1>2, <2>1, <2>2
<1>4. p < n
  <2> SUFFICES ASSUME n <= p PROVE FALSE
    BY <1>1
  <2>1. n * b <= p * b
    BY <1>1, MulLe
  <2>q. QED
    BY <1>1, <1>2, <2>1
<1>q. QED
  BY <1>1, <1>3, <1>4 DEF p, m

\* How many cells there are.
CellCount == NumBuckets * NumBuckets

\* Every cell comes once in the order in which they are served, the most urgent first.
LEMMA CellAtProperties ==
  /\ CellCount \in Nat \ {0}
  /\ \A k \in 1..CellCount : CellAt(k) \in Cells
  /\ \A k, l \in 1..CellCount : k < l => Prior(CellAt(k), CellAt(l))
  /\ \A c \in Cells : \E k \in 1..CellCount : CellAt(k) = c
<1> DEFINE B == NumBuckets
<1>1. B \in Nat \ {0} /\ CellCount \in Nat \ {0} /\ CellCount = B * B
  BY MulPositive, GridAssumption DEF CellCount
<1> DEFINE d(k) == (k - 1) \div B
           m(k) == (k - 1) % B
<1>c. \A k : CellAt(k) = <<m(k), B - 1 - d(k)>>
  BY DEF CellAt
<1>d. Cells = (0..(B - 1)) \X (0..(B - 1))
  BY DEF Cells
<1> HIDE DEF B
<1>2. ASSUME NEW k \in 1..CellCount
      PROVE  d(k) \in 0..(B - 1) /\ m(k) \in 0..(B - 1) /\ k - 1 = d(k) * B + m(k)
  <2> DEFINE a == k - 1
  <2>1. a \in Nat /\ a < B * B
    BY <1>1
  <2> HIDE DEF a
  <2>2. a \div B \in 0..(B - 1) /\ a % B \in 0..(B - 1)
    BY <1>1, <2>1, DivBelow
  <2>3. a = B * (a \div B) + (a % B)
    BY <1>1, <2>1, DivFacts
  <2>4. B * (a \div B) = (a \div B) * B
    BY <1>1, <2>2
  <2>q. QED
    BY <2>2, <2>3, <2>4 DEF a
<1>3. \A k \in 1..CellCount : CellAt(k) \in Cells
  <2> SUFFICES ASSUME NEW k \in 1..CellCount PROVE CellAt(k) \in Cells
    OBVIOUS
  <2>1. m(k) \in 0..(B - 1) /\ B - 1 - d(k) \in 0..(B - 1)
    BY <1>1, <1>2
  <2>q. QED
    BY <1>c, <1>d, <2>1
<1>4. ASSUME NEW k \in 1..CellCount, NEW l \in 1..CellCount, k < l
      PROVE  Prior(CellAt(k), CellAt(l))
  <2> DEFINE dk == d(k)
             dl == d(l)
             mk == m(k)
             ml == m(l)
  <2>1. /\ dk \in 0..(B - 1) /\ mk \in 0..(B - 1) /\ k - 1 = dk * B + mk
        /\ dl \in 0..(B - 1) /\ ml \in 0..(B - 1) /\ l - 1 = dl * B + ml
    BY <1>2
  <2>2. CellAt(k) = <<mk, B - 1 - dk>> /\ CellAt(l) = <<ml, B - 1 - dl>>
    BY <1>c
  <2> HIDE DEF dk, dl, mk, ml
  <2>3. dk * B \in Int /\ dl * B \in Int
    BY <1>1, <2>1
  <2>4. ~(dl < dk)
    <3> SUFFICES ASSUME dl + 1 <= dk PROVE FALSE
      BY <2>1
    <3>1. (dl + 1) * B <= dk * B
      BY <1>1, <2>1, MulLe
    <3>2. (dl + 1) * B = dl * B + B
      BY <1>1, <2>1
    <3>q. QED
      BY <1>1, <1>4, <2>1, <2>3, <3>1, <3>2
  <2>5. dk < dl \/ (dk = dl /\ mk < ml)
    BY <1>4, <2>1, <2>3, <2>4
  <2>q. QED
    BY <1>1, <2>1, <2>2, <2>5 DEF Prior
<1>5. ASSUME NEW c \in Cells PROVE \E k \in 1..CellCount : CellAt(k) = c
  <2>1. PICK s \in 0..(B - 1), t \in 0..(B - 1) : c = <<s, t>>
    BY <1>d
  <2> DEFINE q == B - 1 - t
             a == q * B + s
  <2>2. q \in 0..(B - 1)
    BY <1>1
  <2>3. a \div B = q /\ a % B = s
    BY <1>1, <2>2, DivUnique
  <2>4. a \in Nat /\ a < B * B
    <3> HIDE DEF q
    <3>1. q * B \in Nat /\ B * B \in Nat
      BY <1>1, <2>2
    <3>2. (q + 1) * B <= B * B
      BY <1>1, <2>2, MulLe
    <3>3. (q + 1) * B = q * B + B
      BY <1>1, <2>2
    <3>q. QED
      BY <1>1, <3>1, <3>2, <3>3
  <2> HIDE DEF a
  <2>5. a + 1 \in 1..CellCount /\ (a + 1) - 1 = a
    BY <1>1, <2>4
  <2>6. CellAt(a + 1) = <<a % B, B - 1 - (a \div B)>>
    BY <1>c, <2>5
  <2>7. B - 1 - q = t
    BY <1>1
  <2>q. QED
    BY <2>1, <2>3, <2>5, <2>6, <2>7
<1>q. QED
  BY <1>1, <1>3, <1>4, <1>5

\* No cell is more urgent than itself, or than one that is more urgent than it.
LEMMA PriorOrder ==
  ASSUME NEW c \in Cells, NEW d \in Cells
  PROVE  ~Prior(c, c) /\ (Prior(c, d) => ~Prior(d, c))
<1>1. c[1] \in Int /\ c[2] \in Int /\ d[1] \in Int /\ d[2] \in Int
  BY GridAssumption DEF Cells
<1>q. QED
  BY <1>1 DEF Prior

\* The lists of the cells, one behind the other.
LEMMA InOrderProperties ==
  ASSUME NEW T, NEW lists, \A c \in Cells : lists[c] \in Seq(T),
         NEW ss, ss = [k \in 1..CellCount |-> lists[CellAt(k)]]
  PROVE  /\ FlattenSeq(ss) \in Seq(T)
         /\ \E b, o : MadeOf(FlattenSeq(ss), ss, CellCount, b, o)
         /\ \A k \in 1..CellCount : ss[k] = lists[CellAt(k)]
<1>1. CellCount \in Nat \ {0} /\ \A k \in 1..CellCount : lists[CellAt(k)] \in Seq(T)
  BY CellAtProperties
<1>2. ss \in [1..CellCount -> Seq(T)]
  BY <1>1
<1>3. ss \in Seq(Seq(T)) /\ Len(ss) = CellCount
  BY <1>1, <1>2
<1>4. ss # <<>>
  BY <1>1, <1>3
<1>5. \A k \in 1..CellCount : ss[k] = lists[CellAt(k)]
  OBVIOUS
<1>q. QED
  BY <1>3, <1>4, <1>5, FlattenProperties

\* The entries of the urgency list.
Urgencies == [box : GridBoxes, ge : Cells]

\* The urgency list has boxes and cells, and never a less urgent cell before a
\* more urgent one.
LEMMA UrgencyListProperties ==
  ASSUME GridTables
  PROVE  /\ urgencyList \in Seq(Urgencies)
         /\ \A i, j \in DOMAIN urgencyList :
              i < j => \/ urgencyList[i].ge = urgencyList[j].ge
                       \/ Prior(urgencyList[i].ge, urgencyList[j].ge)
<1> DEFINE at == gridPointers.at
           B == NumBuckets
           boxes == Ascending(DOMAIN at)
           N == Len(boxes)
           E(n) == LET b == boxes[((n - 1) \div B) + 1] IN [box |-> b, ge |-> at[b][(n - 1) % B]]
           entries == [n \in 1..(N * B) |-> E(n)]
           Q == [box : GridBoxes, ge : Cells \cup {NoCell}]
           Of(cell) == Keep(entries, {e \in ToSet(entries) : e.ge = cell})
           lists == [c \in Cells |-> Of(c)]
           ss == [k \in 1..CellCount |-> lists[CellAt(k)]]
<1>1. /\ at \in [GridBoxes -> [0..(B - 1) -> Cells \cup {NoCell}]]
      /\ B \in Nat \ {0}
      /\ GridBoxes \subseteq Nat /\ IsFiniteSet(GridBoxes)
  BY PointerProperties, GridAssumption DEF GridTables, GridBoxes
<1> HIDE DEF at, B
<1>2. N \in Nat /\ \A n \in 1..N : boxes[n] \in GridBoxes
  <2>1. DOMAIN at = GridBoxes /\ GridBoxes \subseteq Int
    BY <1>1
  <2>2. boxes \in Seq(GridBoxes)
    BY <1>1, <2>1, AscendingProperties
  <2> HIDE DEF boxes
  <2>q. QED
    BY <2>2
<1> HIDE DEF boxes, N
<1>3. N * B \in Nat
  BY <1>1, <1>2
<1>4. ASSUME NEW n \in 1..(N * B) PROVE E(n) \in Q
  <2> DEFINE a == n - 1
             b == boxes[(a \div B) + 1]
  <2>1. a \in Nat /\ a < N * B
    BY <1>3
  <2> HIDE DEF a
  <2>2. a \div B \in 0..(N - 1) /\ a % B \in 0..(B - 1)
    BY <1>1, <1>2, <2>1, DivBelow
  <2>3. (a \div B) + 1 \in 1..N
    BY <1>2, <2>2
  <2>4. b \in GridBoxes
    BY <1>2, <2>3
  <2> HIDE DEF b
  <2>5. at[b][a % B] \in Cells \cup {NoCell}
    BY <1>1, <2>2, <2>4
  <2>6. E(n) = [box |-> b, ge |-> at[b][a % B]]
    BY DEF a, b
  <2> HIDE DEF E
  <2>q. QED
    BY <2>4, <2>5, <2>6
<1>5. entries \in Seq(Q)
  <2> HIDE DEF E, Q
  <2>1. entries \in [1..(N * B) -> Q]
    BY <1>4
  <2> HIDE DEF entries
  <2>q. QED
    BY <1>3, <2>1
<1>6. urgencyList = FlattenSeq(ss)
  <2>1. urgencyList = FlattenSeq([k \in 1..CellCount |-> Of(CellAt(k))])
    BY DEF GridTables, CreateUrgencyList, InOrderOfCells, CellCount, at, B, boxes, N
  <2>2. \A k \in 1..CellCount : lists[CellAt(k)] = Of(CellAt(k))
    <3> HIDE DEF Of
    <3> QED BY CellAtProperties
  <2>3. ss = [k \in 1..CellCount |-> Of(CellAt(k))]
    <3> HIDE DEF Of, lists
    <3> QED BY <2>2
  <2>q. QED
    BY <2>1, <2>3
<1>7. ASSUME NEW cell \in Cells
      PROVE  /\ Of(cell) \in Seq(Urgencies)
             /\ \A j \in DOMAIN Of(cell) : Of(cell)[j].ge = cell
  <2> DEFINE S == {e \in ToSet(entries) : e.ge = cell}
             k == Keep(entries, S)
  <2>1. k \in Seq(Q) /\ ToSet(k) = ToSet(entries) \cap S
    <3> HIDE DEF S, entries, Q
    <3> QED BY <1>5, KeepProperties
  <2>2. \A e \in S : e.ge = cell
    OBVIOUS
  <2>3. Of(cell) = k
    OBVIOUS
  <2> HIDE DEF S, k, entries, Of
  <2>4. Len(k) \in Nat /\ DOMAIN k = 1..Len(k) /\ \A j \in 1..Len(k) : k[j] \in Q
    <3> HIDE DEF Q
    <3> QED BY <2>1
  <2>5. \A j \in 1..Len(k) : k[j] \in Q /\ k[j].ge = cell
    BY <2>1, <2>2, <2>4 DEF ToSet
  <2>6. \A j \in 1..Len(k) : k[j] \in Urgencies
    BY <2>5 DEF Urgencies
  <2>7. k \in Seq(Urgencies)
    <3>1. k = [j \in 1..Len(k) |-> k[j]]
      BY <2>1, <2>4
    <3>2. k \in [1..Len(k) -> Urgencies]
      BY <2>6, <3>1
    <3>q. QED
      BY <2>4, <3>2
  <2>q. QED
    BY <2>3, <2>4, <2>5, <2>7
<1>8. \A c \in Cells : lists[c] \in Seq(Urgencies) /\ \A j \in DOMAIN lists[c] : lists[c][j].ge = c
  <2> HIDE DEF Of
  <2> QED BY <1>7
<1> HIDE DEF entries, Of, lists, E, Q
<1>9. /\ urgencyList \in Seq(Urgencies)
      /\ \E b, o : MadeOf(urgencyList, ss, CellCount, b, o)
      /\ \A k \in 1..CellCount : ss[k] = lists[CellAt(k)]
  <2>1. ss = [k \in 1..CellCount |-> lists[CellAt(k)]]
    OBVIOUS
  <2> HIDE DEF ss
  <2>q. QED
    BY <1>6, <1>8, <2>1, InOrderProperties
<1> HIDE DEF ss
<1>10. PICK b, o : MadeOf(urgencyList, ss, CellCount, b, o)
  BY <1>9
<1>11. ASSUME NEW p \in DOMAIN urgencyList
       PROVE  b[p] \in 1..CellCount /\ urgencyList[p].ge = CellAt(b[p])
  <2>1. b[p] \in 1..CellCount /\ o[p] \in DOMAIN ss[b[p]] /\ urgencyList[p] = ss[b[p]][o[p]]
    BY <1>10 DEF MadeOf
  <2>2. ss[b[p]] = lists[CellAt(b[p])] /\ CellAt(b[p]) \in Cells
    BY <1>9, <2>1, CellAtProperties
  <2>q. QED
    BY <1>8, <2>1, <2>2
<1>12. ASSUME NEW i \in DOMAIN urgencyList, NEW j \in DOMAIN urgencyList, i < j
       PROVE  urgencyList[i].ge = urgencyList[j].ge \/ Prior(urgencyList[i].ge, urgencyList[j].ge)
  <2>1. b[i] < b[j] \/ b[i] = b[j]
    BY <1>10, <1>12 DEF MadeOf
  <2>q. QED
    BY <1>11, <2>1, CellAtProperties
<1>q. QED
  BY <1>9, <1>12

\* Coming to another cell, no entry before is of that cell.
LEMMA EnteredOnce ==
  ASSUME GridTables, NEW n \in DOMAIN urgencyList, n > 1,
         urgencyList[n - 1].ge # urgencyList[n].ge,
         NEW i \in 1..(n - 1)
  PROVE  urgencyList[i].ge # urgencyList[n].ge
<1> DEFINE ge(k) == urgencyList[k].ge
<1>1. /\ Len(urgencyList) \in Nat /\ DOMAIN urgencyList = 1..Len(urgencyList)
      /\ \A k \in 1..Len(urgencyList) : urgencyList[k] \in Urgencies
      /\ \A k, l \in DOMAIN urgencyList : k < l => ge(k) = ge(l) \/ Prior(ge(k), ge(l))
  BY UrgencyListProperties
<1>2. \A k \in DOMAIN urgencyList : ge(k) \in Cells
  BY <1>1 DEF Urgencies
<1>3. n - 1 \in DOMAIN urgencyList /\ i \in DOMAIN urgencyList /\ n - 1 < n /\ i < n
      /\ (i = n - 1 \/ i < n - 1)
  BY <1>1
<1>4. Prior(ge(n - 1), ge(n))
  BY <1>1, <1>3
<1>5. i = n - 1 \/ ge(i) = ge(n - 1) \/ Prior(ge(i), ge(n - 1))
  BY <1>1, <1>3
<1> SUFFICES ASSUME ge(i) = ge(n) PROVE FALSE
  OBVIOUS
<1>6. ge(i) \in Cells /\ ge(n - 1) \in Cells /\ ge(n) \in Cells
  BY <1>2, <1>3
<1> HIDE DEF ge
<1>q. QED
  BY <1>4, <1>5, <1>6, PriorOrder DEF ge
-----------------------------------------------------------------------------
(* The lists of the cells *)

\* What a list holds.
LEMMA ElementsOf ==
  ASSUME NEW T, NEW s \in Seq(T)
  PROVE  /\ Len(s) \in Nat /\ DOMAIN s = 1..Len(s)
         /\ \A i \in 1..Len(s) : s[i] \in T /\ s[i] \in ToSet(s)
         /\ \A x \in ToSet(s) : x \in T /\ \E i \in 1..Len(s) : s[i] = x
         /\ s = <<>> <=> ToSet(s) = {}
<1>1. Len(s) \in Nat /\ DOMAIN s = 1..Len(s) /\ \A i \in 1..Len(s) : s[i] \in T
  OBVIOUS
<1>2. ToSet(s) = {s[i] : i \in 1..Len(s)}
  BY <1>1 DEF ToSet
<1>3. s = <<>> <=> Len(s) = 0
  OBVIOUS
<1>4. \A i \in 1..Len(s) : s[i] \in ToSet(s)
  BY <1>2
<1>5. \A x \in ToSet(s) : \E i \in 1..Len(s) : s[i] = x
  BY <1>2
<1>6. ToSet(s) \subseteq T
  BY <1>1, <1>5
<1>7. s = <<>> <=> ToSet(s) = {}
  <2>1. Len(s) = 0 => ToSet(s) = {}
    BY <1>2
  <2>2. Len(s) # 0 => 1 \in 1..Len(s)
    BY <1>1
  <2>q. QED
    BY <1>3, <1>4, <2>1, <2>2
<1>q. QED
  BY <1>1, <1>4, <1>5, <1>6, <1>7

\* What a list holds with one element more,
LEMMA AppendElements ==
  ASSUME NEW T, NEW s \in Seq(T), NEW x \in T
  PROVE  /\ Append(s, x) \in Seq(T) /\ ToSet(Append(s, x)) = ToSet(s) \cup {x}
         /\ (IsInjective(s) /\ x \notin ToSet(s)) => IsInjective(Append(s, x))
<1> DEFINE t == Append(s, x)
           n == Len(s)
<1>1. /\ n \in Nat /\ DOMAIN s = 1..n
      /\ t \in Seq(T) /\ DOMAIN t = 1..(n + 1)
      /\ \A i \in 1..n : t[i] = s[i]
      /\ t[n + 1] = x
  OBVIOUS
<1>2. \A i \in 1..(n + 1) : i \in 1..n \/ i = n + 1
  BY <1>1
<1>3. \A i \in 1..n : i \in 1..(n + 1) /\ s[i] \in ToSet(s)
  BY <1>1 DEF ToSet
<1>4. \A y \in ToSet(s) : \E i \in 1..n : s[i] = y
  BY <1>1 DEF ToSet
<1>5. n + 1 \in 1..(n + 1)
  BY <1>1
<1> HIDE DEF t, n
<1>6. ToSet(t) = ToSet(s) \cup {x}
  <2>1. ASSUME NEW y \in ToSet(t) PROVE y \in ToSet(s) \cup {x}
    <3>1. PICK i \in 1..(n + 1) : t[i] = y
      BY <1>1 DEF ToSet
    <3>q. QED
      BY <1>1, <1>2, <1>3, <3>1
  <2>2. \A i \in 1..(n + 1) : t[i] \in ToSet(t)
    BY <1>1 DEF ToSet
  <2>3. ASSUME NEW y \in ToSet(s) PROVE y \in ToSet(t)
    <3>1. PICK i \in 1..n : s[i] = y
      BY <1>4
    <3>q. QED
      BY <1>1, <1>3, <2>2, <3>1
  <2>4. x \in ToSet(t)
    BY <1>1, <1>5, <2>2
  <2>q. QED
    BY <2>1, <2>3, <2>4
<1>7. ASSUME IsInjective(s), x \notin ToSet(s) PROVE IsInjective(t)
  <2>1. \A i, j \in 1..n : s[i] = s[j] => i = j
    BY <1>1, <1>7 DEF IsInjective
  <2>2. \A i \in 1..n : t[i] # x
    BY <1>1, <1>3, <1>7
  <2>3. \A i, j \in 1..(n + 1) : t[i] = t[j] => i = j
    BY <1>1, <1>2, <2>1, <2>2
  <2>q. QED
    BY <1>1, <2>3 DEF IsInjective
<1>q. QED
  BY <1>1, <1>6, <1>7 DEF t

\* with another list behind it,
LEMMA ConcatElements ==
  ASSUME NEW T, NEW s \in Seq(T), NEW t \in Seq(T)
  PROVE  /\ s \o t \in Seq(T) /\ ToSet(s \o t) = ToSet(s) \cup ToSet(t)
         /\ (IsInjective(s) /\ IsInjective(t) /\ ToSet(s) \cap ToSet(t) = {}) => IsInjective(s \o t)
<1> DEFINE u == s \o t
           n == Len(s)
           m == Len(t)
<1>1. /\ n \in Nat /\ DOMAIN s = 1..n /\ m \in Nat /\ DOMAIN t = 1..m
      /\ u \in Seq(T) /\ DOMAIN u = 1..(n + m)
      /\ \A i \in 1..(n + m) : u[i] = IF i <= n THEN s[i] ELSE t[i - n]
  <2>1. /\ u \in Seq(T) /\ Len(u) = n + m
        /\ \A i \in 1..(n + m) : u[i] = IF i <= n THEN s[i] ELSE t[i - n]
    BY ConcatProperties
  <2> HIDE DEF u
  <2>2. DOMAIN u = 1..Len(u)
    BY <2>1
  <2>q. QED
    BY <2>1, <2>2
<1> HIDE DEF u, n, m
<1>2. \A i \in 1..n : i \in 1..(n + m) /\ u[i] = s[i]
  BY <1>1
<1>3. \A i \in 1..m : n + i \in 1..(n + m) /\ u[n + i] = t[i]
  BY <1>1
<1>4. \A i \in 1..(n + m) : i \in 1..n \/ (i - n \in 1..m /\ i = n + (i - n))
  BY <1>1
<1>5. ToSet(s) = {s[i] : i \in 1..n} /\ ToSet(t) = {t[i] : i \in 1..m} /\ ToSet(u) = {u[i] : i \in 1..(n + m)}
  BY <1>1 DEF ToSet
<1>6. ToSet(u) = ToSet(s) \cup ToSet(t)
  <2>1. ASSUME NEW y \in ToSet(u) PROVE y \in ToSet(s) \cup ToSet(t)
    <3>1. PICK i \in 1..(n + m) : u[i] = y
      BY <1>5
    <3>2. CASE i \in 1..n
      BY <1>2, <1>5, <3>1, <3>2
    <3>3. CASE i - n \in 1..m /\ i = n + (i - n)
      BY <1>3, <1>5, <3>1, <3>3
    <3>q. QED
      BY <1>4, <3>2, <3>3
  <2>2. ASSUME NEW y \in ToSet(s) PROVE y \in ToSet(u)
    BY <1>2, <1>5
  <2>3. ASSUME NEW y \in ToSet(t) PROVE y \in ToSet(u)
    <3>1. PICK i \in 1..m : t[i] = y
      BY <1>5
    <3>q. QED
      BY <1>3, <1>5, <3>1
  <2>q. QED
    BY <2>1, <2>2, <2>3
<1>7. ASSUME IsInjective(s), IsInjective(t), ToSet(s) \cap ToSet(t) = {} PROVE IsInjective(u)
  <2>1. \A i, j \in 1..n : s[i] = s[j] => i = j
    BY <1>1, <1>7 DEF IsInjective
  <2>2. \A i, j \in 1..m : t[i] = t[j] => i = j
    BY <1>1, <1>7 DEF IsInjective
  <2>3. \A i \in 1..n : \A j \in 1..m : s[i] # t[j]
    BY <1>5, <1>7
  <2>4. ASSUME NEW i \in 1..(n + m), NEW j \in 1..(n + m), u[i] = u[j] PROVE i = j
    <3>1. CASE i \in 1..n /\ j \in 1..n
      BY <1>2, <2>1, <2>4, <3>1
    <3>2. CASE i \in 1..n /\ j - n \in 1..m /\ j = n + (j - n)
      BY <1>2, <1>3, <2>3, <2>4, <3>2
    <3>3. CASE j \in 1..n /\ i - n \in 1..m /\ i = n + (i - n)
      BY <1>2, <1>3, <2>3, <2>4, <3>3
    <3>4. CASE i - n \in 1..m /\ i = n + (i - n) /\ j - n \in 1..m /\ j = n + (j - n)
      <4>1. t[i - n] = t[j - n]
        BY <1>3, <2>4, <3>4
      <4>q. QED
        BY <2>2, <3>4, <4>1
    <3>q. QED
      BY <1>4, <3>1, <3>2, <3>3, <3>4
  <2>q. QED
    BY <1>1, <2>4 DEF IsInjective
<1>q. QED
  BY <1>1, <1>6, <1>7 DEF u

\* what its first n elements are,
LEMMA FirstOfElements ==
  ASSUME NEW T, NEW s \in Seq(T), NEW n \in Nat
  PROVE  /\ FirstOf(s, n) \in Seq(T)
         /\ Len(FirstOf(s, n)) = IF n < Len(s) THEN n ELSE Len(s)
         /\ \A i \in DOMAIN FirstOf(s, n) : i \in DOMAIN s /\ FirstOf(s, n)[i] = s[i]
         /\ ToSet(FirstOf(s, n)) \subseteq ToSet(s)
         /\ IsInjective(s) => IsInjective(FirstOf(s, n))
         /\ (n > 0 /\ s # <<>>) => FirstOf(s, n) # <<>>
<1> DEFINE m == IF n < Len(s) THEN n ELSE Len(s)
           f == SubSeq(s, 1, m)
<1>1. /\ Len(s) \in Nat /\ DOMAIN s = 1..Len(s)
      /\ m \in Nat /\ m <= Len(s) /\ (s = <<>> <=> Len(s) = 0)
  OBVIOUS
<1>2. FirstOf(s, n) = f
  BY DEF FirstOf
<1>m. m = IF n < Len(s) THEN n ELSE Len(s)
  OBVIOUS
<1> HIDE DEF m
<1>3. f \in Seq(T) /\ Len(f) = m /\ DOMAIN f = 1..m /\ \A i \in 1..m : f[i] = s[i]
  BY <1>1
<1> HIDE DEF f
<1>4. \A i \in 1..m : i \in 1..Len(s)
  BY <1>1
<1>5. ToSet(f) \subseteq ToSet(s)
  BY <1>1, <1>3, <1>4 DEF ToSet
<1>6. IsInjective(s) => IsInjective(f)
  BY <1>1, <1>3, <1>4 DEF IsInjective
<1>7. (n > 0 /\ s # <<>>) => f # <<>>
  <2>1. (n > 0 /\ s # <<>>) => m # 0
    <3> SUFFICES ASSUME n > 0, s # <<>> PROVE m # 0
      OBVIOUS
    <3>1. Len(s) # 0
      BY <1>1
    <3> DEFINE k == Len(s)
    <3>2. k \in Nat /\ k # 0 /\ m = IF n < k THEN n ELSE k
      BY <1>1, <1>m, <3>1
    <3> HIDE DEF k
    <3>q. QED
      BY <3>2
  <2>q. QED
    BY <1>3, <2>1
<1>q. QED
  BY <1>1, <1>2, <1>3, <1>4, <1>5, <1>6, <1>7, <1>m

\* and what it holds without the first.
LEMMA TailElements ==
  ASSUME NEW T, NEW s \in Seq(T), s # <<>>
  PROVE  /\ Tail(s) \in Seq(T) /\ s[1] \in T /\ s[1] \in ToSet(s)
         /\ FirstOf(s, 1) = <<s[1]>> /\ ToSet(FirstOf(s, 1)) = {s[1]}
         /\ ToSet(Tail(s)) \subseteq ToSet(s)
         /\ IsInjective(s) => IsInjective(Tail(s)) /\ s[1] \notin ToSet(Tail(s))
<1> DEFINE n == Len(s)
           t == Tail(s)
<1>1. n \in Nat \ {0} /\ DOMAIN s = 1..n /\ \A i \in 1..n : s[i] \in T
  OBVIOUS
<1>2. t \in Seq(T) /\ DOMAIN t = 1..(n - 1) /\ \A i \in 1..(n - 1) : t[i] = s[i + 1]
  OBVIOUS
<1>f. FirstOf(s, 1) = <<s[1]>>
  <2>1. FirstOf(s, 1) = SubSeq(s, 1, 1)
    BY <1>1 DEF FirstOf
  <2>2. SubSeq(s, 1, 1) = <<s[1]>>
    <3> DEFINE u == SubSeq(s, 1, 1)
    <3>1. u \in Seq(T) /\ Len(u) = 1 /\ u[1] = s[1]
      BY <1>1
    <3> HIDE DEF u
    <3>2. u = <<s[1]>>
      BY <3>1
    <3>q. QED
      BY <3>2 DEF u
  <2>q. QED
    BY <2>1, <2>2
<1>g. ToSet(<<s[1]>>) = {s[1]}
  BY DEF ToSet
<1> HIDE DEF n, t
<1>3. \A i \in 1..(n - 1) : i + 1 \in 1..n /\ i + 1 # 1
  BY <1>1
<1>4. 1 \in 1..n
  BY <1>1
<1>5. ToSet(t) \subseteq ToSet(s)
  BY <1>1, <1>2, <1>3 DEF ToSet
<1>6. ASSUME IsInjective(s) PROVE IsInjective(t) /\ s[1] \notin ToSet(t)
  <2>1. \A i, j \in 1..n : s[i] = s[j] => i = j
    BY <1>1, <1>6 DEF IsInjective
  <2>2. \A i, j \in 1..(n - 1) : t[i] = t[j] => i = j
    <3> SUFFICES ASSUME NEW i \in 1..(n - 1), NEW j \in 1..(n - 1), t[i] = t[j] PROVE i = j
      OBVIOUS
    <3>1. s[i + 1] = s[j + 1]
      BY <1>2
    <3>2. i + 1 = j + 1
      BY <1>3, <2>1, <3>1
    <3>q. QED
      BY <3>2
  <2>3. \A i \in 1..(n - 1) : t[i] # s[1]
    BY <1>2, <1>3, <1>4, <2>1
  <2>q. QED
    BY <1>2, <2>2, <2>3 DEF IsInjective, ToSet
<1>q. QED
  BY <1>1, <1>2, <1>4, <1>5, <1>6, <1>f, <1>g DEF t, ToSet

\* Where the boxes are, and that each is on the list of its cell, once.
PlaceTypes(boxes, loc, lists) ==
  /\ loc \in [boxes -> Cells \cup {NoCell}]
  /\ lists \in [Cells -> Seq(boxes)]

Located(boxes, loc, lists) ==
  \A c \in Cells : /\ IsInjective(lists[c])
                   /\ \A b \in boxes : b \in ToSet(lists[c]) <=> loc[b] = c

\* NoCell is not a cell.
LEMMA NoCellOutside == NoCell \notin Cells
BY GridAssumption DEF NoCell, Cells

\* A box that goes into a cell is erased from the list of its old one.
LEMMA MovedLocated ==
  ASSUME NEW boxes, NEW loc, NEW lists, PlaceTypes(boxes, loc, lists), Located(boxes, loc, lists),
         NEW b \in boxes, NEW cell \in Cells,
         NEW lists2, lists2 = [c \in Cells |->
           LET others == IF c = loc[b] THEN Keep(lists[c], boxes \ {b}) ELSE lists[c]
           IN IF c = cell THEN Append(others, b) ELSE others]
  PROVE  /\ PlaceTypes(boxes, [loc EXCEPT ![b] = cell], lists2)
         /\ Located(boxes, [loc EXCEPT ![b] = cell], lists2)
<1> DEFINE loc2 == [loc EXCEPT ![b] = cell]
           Others(c) == IF c = loc[b] THEN Keep(lists[c], boxes \ {b}) ELSE lists[c]
<1>1. /\ loc2 \in [boxes -> Cells \cup {NoCell}]
      /\ loc2[b] = cell /\ \A a \in boxes : a # b => loc2[a] = loc[a]
  BY DEF PlaceTypes
<1>2. \A c \in Cells : lists[c] \in Seq(boxes)
  BY DEF PlaceTypes
<1>3. \A c \in Cells : lists2[c] = IF c = cell THEN Append(Others(c), b) ELSE Others(c)
  OBVIOUS
<1>4. ASSUME NEW c \in Cells
      PROVE  /\ Others(c) \in Seq(boxes) /\ IsInjective(Others(c))
             /\ \A a \in boxes : a \in ToSet(Others(c)) <=> (a # b /\ loc[a] = c)
  <2>1. /\ lists[c] \in Seq(boxes) /\ IsInjective(lists[c])
        /\ \A a \in boxes : a \in ToSet(lists[c]) <=> loc[a] = c
    BY <1>2 DEF Located
  <2>2. CASE c = loc[b]
    <3>1. Others(c) = Keep(lists[c], boxes \ {b})
      BY <2>2
    <3> HIDE DEF Others
    <3>2. /\ Others(c) \in Seq(boxes) /\ IsInjective(Others(c))
          /\ ToSet(Others(c)) = ToSet(lists[c]) \cap (boxes \ {b})
      BY <2>1, <3>1, KeepProperties
    <3>q. QED
      BY <2>1, <3>2
  <2>3. CASE c # loc[b]
    <3>1. Others(c) = lists[c]
      BY <2>3
    <3> HIDE DEF Others
    <3>q. QED
      BY <2>1, <2>3, <3>1
  <2>q. QED
    BY <2>2, <2>3
<1> HIDE DEF Others, loc2
<1>5. ASSUME NEW c \in Cells
      PROVE  /\ lists2[c] \in Seq(boxes) /\ IsInjective(lists2[c])
             /\ \A a \in boxes : a \in ToSet(lists2[c]) <=> loc2[a] = c
  <2>1. CASE c = cell
    <3>1. lists2[c] = Append(Others(c), b)
      BY <1>3, <2>1
    <3>2. b \notin ToSet(Others(c))
      BY <1>4
    <3> DEFINE s == Others(c)
    <3>s. s \in Seq(boxes) /\ IsInjective(s) /\ b \notin ToSet(s)
      BY <1>4, <3>2
    <3>t. lists2[c] = Append(s, b)
      BY <3>1
    <3>3. /\ lists2[c] \in Seq(boxes) /\ IsInjective(lists2[c])
          /\ ToSet(lists2[c]) = ToSet(Others(c)) \cup {b}
      <4>1. /\ Append(s, b) \in Seq(boxes) /\ IsInjective(Append(s, b))
            /\ ToSet(Append(s, b)) = ToSet(s) \cup {b}
        <5> HIDE DEF s
        <5> QED BY <3>s, AppendElements
      <4>q. QED
        BY <3>t, <4>1
    <3>q. QED
      BY <1>1, <1>4, <2>1, <3>3
  <2>2. CASE c # cell
    <3>1. lists2[c] = Others(c)
      BY <1>3, <2>2
    <3>q. QED
      BY <1>1, <1>4, <2>2, <3>1
  <2>q. QED
    BY <2>1, <2>2
<1>6. lists2 \in [Cells -> Seq(boxes)]
  <2>1. lists2 = [c \in Cells |-> lists2[c]]
    OBVIOUS
  <2>q. QED
    BY <1>5, <2>1
<1>q. QED
  BY <1>1, <1>5, <1>6 DEF Located, PlaceTypes, loc2

\* The boxes of a list are taken off the grid.
LEMMA RemovedLocated ==
  ASSUME NEW boxes, NEW loc, NEW lists, PlaceTypes(boxes, loc, lists), Located(boxes, loc, lists),
         NEW gone,
         NEW loc2, loc2 = [b \in boxes |-> IF b \in gone THEN NoCell ELSE loc[b]],
         NEW lists2, lists2 = [c \in Cells |-> Keep(lists[c], boxes \ gone)]
  PROVE  PlaceTypes(boxes, loc2, lists2) /\ Located(boxes, loc2, lists2)
<1>1. loc2 \in [boxes -> Cells \cup {NoCell}]
  BY DEF PlaceTypes
<1>2. \A b \in boxes : loc2[b] = IF b \in gone THEN NoCell ELSE loc[b]
  OBVIOUS
<1>3. ASSUME NEW c \in Cells
      PROVE  /\ lists2[c] \in Seq(boxes) /\ IsInjective(lists2[c])
             /\ \A a \in boxes : a \in ToSet(lists2[c]) <=> loc2[a] = c
  <2>1. /\ lists[c] \in Seq(boxes) /\ IsInjective(lists[c])
        /\ \A a \in boxes : a \in ToSet(lists[c]) <=> loc[a] = c
    BY DEF Located, PlaceTypes
  <2>2. lists2[c] = Keep(lists[c], boxes \ gone)
    OBVIOUS
  <2>3. /\ lists2[c] \in Seq(boxes) /\ IsInjective(lists2[c])
        /\ ToSet(lists2[c]) = ToSet(lists[c]) \cap (boxes \ gone)
    BY <2>1, <2>2, KeepProperties
  <2>4. c # NoCell
    BY NoCellOutside
  <2>q. QED
    BY <1>2, <2>1, <2>3, <2>4
<1>4. lists2 \in [Cells -> Seq(boxes)]
  <2>1. lists2 = [c \in Cells |-> lists2[c]]
    OBVIOUS
  <2>q. QED
    BY <1>3, <2>1
<1>q. QED
  BY <1>1, <1>3, <1>4 DEF Located, PlaceTypes

\* All boxes of the grid, the most urgent cells first, and each of them once.
LEMMA GridInOrder ==
  ASSUME NEW boxes, NEW loc, NEW lists, PlaceTypes(boxes, loc, lists), Located(boxes, loc, lists),
         NEW flat, flat = FlattenSeq([k \in 1..CellCount |-> lists[CellAt(k)]])
  PROVE  /\ flat \in Seq(boxes) /\ IsInjective(flat)
         /\ \A b \in boxes : b \in ToSet(flat) <=> loc[b] # NoCell
         /\ \A i, j \in DOMAIN flat : i < j => ~Prior(loc[flat[j]], loc[flat[i]])
<1> DEFINE ss == [k \in 1..CellCount |-> lists[CellAt(k)]]
<1>1. \A c \in Cells : lists[c] \in Seq(boxes)
  BY DEF PlaceTypes
<1>2. /\ flat \in Seq(boxes)
      /\ \E b, o : MadeOf(flat, ss, CellCount, b, o)
      /\ \A k \in 1..CellCount : ss[k] = lists[CellAt(k)]
  <2>1. ss = [k \in 1..CellCount |-> lists[CellAt(k)]] /\ flat = FlattenSeq(ss)
    OBVIOUS
  <2> HIDE DEF ss
  <2>2. /\ FlattenSeq(ss) \in Seq(boxes)
        /\ \E b, o : MadeOf(FlattenSeq(ss), ss, CellCount, b, o)
        /\ \A k \in 1..CellCount : ss[k] = lists[CellAt(k)]
    BY <1>1, <2>1, InOrderProperties
  <2>q. QED
    BY <2>1, <2>2
<1> HIDE DEF ss
<1>3. PICK b, o : MadeOf(flat, ss, CellCount, b, o)
  BY <1>2
<1>4. /\ Len(flat) \in Nat /\ DOMAIN flat = 1..Len(flat)
      /\ \A p \in DOMAIN flat : flat[p] \in boxes /\ flat[p] \in ToSet(flat)
      /\ \A x \in ToSet(flat) : x \in boxes /\ \E p \in DOMAIN flat : flat[p] = x
  <2>1. flat \in Seq(boxes)
    BY <1>2
  <2>2. /\ Len(flat) \in Nat /\ DOMAIN flat = 1..Len(flat)
        /\ \A p \in 1..Len(flat) : flat[p] \in boxes /\ flat[p] \in ToSet(flat)
        /\ \A x \in ToSet(flat) : x \in boxes /\ \E p \in 1..Len(flat) : flat[p] = x
    <3>1. Len(flat) \in Nat /\ DOMAIN flat = 1..Len(flat)
      BY <2>1, ElementsOf
    <3>2. \A p \in 1..Len(flat) : flat[p] \in boxes /\ flat[p] \in ToSet(flat)
      BY <2>1, ElementsOf
    <3>3. \A x \in ToSet(flat) : x \in boxes
      BY <2>1, ElementsOf
    <3>4. \A x \in ToSet(flat) : \E p \in 1..Len(flat) : flat[p] = x
      <4>1. ToSet(flat) = {flat[p] : p \in 1..Len(flat)}
        BY <3>1 DEF ToSet
      <4>q. QED
        BY <4>1
    <3>q. QED
      BY <3>1, <3>2, <3>3, <3>4
  <2>q. QED
    BY <2>2
<1>5. ASSUME NEW p \in DOMAIN flat
      PROVE  /\ b[p] \in 1..CellCount /\ CellAt(b[p]) \in Cells
             /\ o[p] \in DOMAIN lists[CellAt(b[p])]
             /\ flat[p] = lists[CellAt(b[p])][o[p]]
             /\ loc[flat[p]] = CellAt(b[p])
  <2>1. b[p] \in 1..CellCount /\ o[p] \in DOMAIN ss[b[p]] /\ flat[p] = ss[b[p]][o[p]]
    BY <1>3 DEF MadeOf
  <2>2. ss[b[p]] = lists[CellAt(b[p])] /\ CellAt(b[p]) \in Cells
    BY <1>2, <2>1, CellAtProperties
  <2> DEFINE l == lists[CellAt(b[p])]
  <2>3. l \in Seq(boxes)
    BY <1>1, <2>2
  <2>4. flat[p] = l[o[p]] /\ o[p] \in DOMAIN l
    BY <2>1, <2>2
  <2>5. l[o[p]] \in ToSet(l) /\ l[o[p]] \in boxes
    <3> HIDE DEF l
    <3> QED BY <2>3, <2>4, ElementsOf
  <2>6. flat[p] \in ToSet(lists[CellAt(b[p])]) /\ flat[p] \in boxes
    BY <2>4, <2>5
  <2>q. QED
    BY <2>1, <2>2, <2>6 DEF Located
<1>6. IsInjective(flat)
  <2> SUFFICES ASSUME NEW p \in DOMAIN flat, NEW q \in DOMAIN flat, flat[p] = flat[q] PROVE p = q
    BY DEF IsInjective
  <2>1. CellAt(b[p]) = CellAt(b[q])
    BY <1>5
  <2>2. b[p] \in 1..CellCount /\ b[q] \in 1..CellCount /\ CellAt(b[p]) \in Cells
    BY <1>5
  <2>3. ~(b[p] < b[q]) /\ ~(b[q] < b[p])
    BY <2>1, <2>2, CellAtProperties, PriorOrder
  <2>4. b[p] = b[q]
    <3>1. CellCount \in Nat
      BY CellAtProperties
    <3>q. QED
      BY <2>2, <2>3, <3>1
  <2> DEFINE l == lists[CellAt(b[p])]
  <2>5. /\ o[p] \in DOMAIN l /\ o[q] \in DOMAIN l /\ l[o[p]] = l[o[q]]
    BY <1>5, <2>4
  <2>6. IsInjective(l) /\ l \in Seq(boxes)
    BY <1>1, <2>2 DEF Located
  <2> HIDE DEF l
  <2>7. o[p] = o[q] /\ o[p] \in Int
    BY <2>5, <2>6 DEF IsInjective
  <2>8. p \in Int /\ q \in Int
    BY <1>4
  <2>9. ~(p < q) /\ ~(q < p)
    <3>1. \A i, j \in DOMAIN flat : i < j => b[i] < b[j] \/ (b[i] = b[j] /\ o[i] < o[j])
      BY <1>3 DEF MadeOf
    <3>2. b[p] \in Int
      BY <2>2
    <3>3. ~(b[p] < b[p]) /\ ~(o[p] < o[p])
      BY <2>7, <3>2
    <3>q. QED
      BY <2>4, <2>7, <3>1, <3>3
  <2>q. QED
    BY <2>8, <2>9
<1>7. ASSUME NEW a \in boxes PROVE a \in ToSet(flat) <=> loc[a] # NoCell
  <2>1. ASSUME a \in ToSet(flat) PROVE loc[a] # NoCell
    <3>1. PICK p \in DOMAIN flat : flat[p] = a
      BY <1>4, <2>1
    <3>q. QED
      BY <1>5, <3>1, NoCellOutside
  <2>2. ASSUME loc[a] # NoCell PROVE a \in ToSet(flat)
    <3>1. loc[a] \in Cells
      BY <2>2 DEF PlaceTypes
    <3>2. PICK k \in 1..CellCount : CellAt(k) = loc[a]
      BY <3>1, CellAtProperties
    <3>3. a \in ToSet(ss[k]) /\ ss[k] \in Seq(boxes)
      BY <1>1, <1>2, <3>1, <3>2 DEF Located
    <3>4. PICK j \in DOMAIN ss[k] : ss[k][j] = a
      BY <3>3, ElementsOf
    <3>5. PICK p \in DOMAIN flat : b[p] = k /\ o[p] = j
      BY <1>3, <3>4 DEF MadeOf
    <3>6. flat[p] = ss[b[p]][o[p]]
      BY <1>3 DEF MadeOf
    <3>q. QED
      BY <1>4, <3>4, <3>5, <3>6
  <2>q. QED
    BY <2>1, <2>2
<1>8. ASSUME NEW i \in DOMAIN flat, NEW j \in DOMAIN flat, i < j
      PROVE  ~Prior(loc[flat[j]], loc[flat[i]])
  <2>1. b[i] < b[j] \/ b[i] = b[j]
    BY <1>3, <1>8 DEF MadeOf
  <2>2. CellAt(b[i]) = CellAt(b[j]) \/ Prior(CellAt(b[i]), CellAt(b[j]))
    BY <1>5, <2>1, CellAtProperties
  <2>q. QED
    BY <1>5, <2>2, PriorOrder
<1>q. QED
  BY <1>2, <1>6, <1>7, <1>8
-----------------------------------------------------------------------------
(* The invariant *)

\* What the state of the scheduler is made of.
GridTyping ==
  /\ GridTables
  /\ gphase \in {"idle", "look", "load", "abort"}
  /\ PlaceTypes(GridBoxes, location, boxList)
  /\ untestedBoxes \subseteq GridBoxes
  /\ gridCandidates \in Seq(GridBoxes)
  /\ walk \in [at : Nat \ {0}, assigned : [Cells -> Nat]]
  /\ lockedBoxes \subseteq GridBoxes /\ withWorker \subseteq GridBoxes
  /\ windowed \subseteq GridBoxes
  /\ stoppedShort \in BOOLEAN /\ foundRemains \in BOOLEAN

\* Each box is on the list of its cell, once, and on no other.
InPlace == Located(GridBoxes, location, boxList)

\* In mode "box" what is placed or chosen may be run, and is not placed twice.
MayRun ==
  gcase.mode = "box" =>
    /\ Placed \cup ToSet(gridCandidates) \subseteq windowed \ lockedBoxes
    /\ lockedBoxes = withWorker
    /\ gphase = "load" => IsInjective(gridCandidates) /\ ToSet(gridCandidates) \cap Placed = {}
    /\ gphase \in {"idle", "look"} => gridCandidates = <<>>

\* In mode "app" there is a candidate to run, and every lock has a worker unless a
\* walk came to its limit.
LocksGiven ==
  gcase.mode = "app" =>
    /\ gphase = "load" => gridCandidates # <<>>
    /\ stoppedShort \/ lockedBoxes = withWorker

\* A walk that comes to no limit and finds nothing of an earlier one places a
\* box once, counts it with its cell, and makes it a candidate once.
TidyWalk ==
  (gcase.mode = "app" /\ gphase = "look" /\ ~stoppedShort /\ ~foundRemains) =>
    /\ Placed \cap untestedBoxes = {}
    /\ \A c \in Cells : walk.assigned[c] > 0 => \E b \in GridBoxes : location[b] = c
    /\ IsInjective(gridCandidates)
    /\ \A b \in ToSet(gridCandidates) :
         \E j \in DOMAIN urgencyList : j < walk.at /\ location[b] = urgencyList[j].ge

\* What a search may be aborted for.
AbortExplained ==
  gphase = "abort" =>
    \/ Homeless # {}
    \/ gcase.mode = "app" /\ (stoppedShort \/ foundRemains \/ Shared # {})

\* The inductive invariant.
GridInv == GridTyping /\ InPlace /\ MayRun /\ LocksGiven /\ TidyWalk /\ AbortExplained

\* The invariant implies GridSound.
LEMMA InvSound == GridInv => GridSound
<1> SUFFICES ASSUME GridInv PROVE GridSound
  OBVIOUS
<1>1. CASE gphase = "abort"
  BY <1>1 DEF GridInv, AbortExplained, GridSound
<1>2. CASE gphase # "abort"
  <2>1. ASSUME NEW b \in Placed
        PROVE  \E i \in DOMAIN boxList[location[b]] :
                 \A j \in DOMAIN boxList[location[b]] : boxList[location[b]][j] = b <=> j = i
    <3>1. b \in GridBoxes /\ location[b] \in Cells
      BY DEF Placed, GridInv, GridTyping, PlaceTypes
    <3> DEFINE l == boxList[location[b]]
    <3>2. l \in Seq(GridBoxes) /\ IsInjective(l) /\ b \in ToSet(l)
      BY <3>1 DEF GridInv, GridTyping, PlaceTypes, InPlace, Located
    <3> HIDE DEF l
    <3>3. \E i \in DOMAIN l : l[i] = b
      BY <3>2 DEF ToSet
    <3>4. \E i \in DOMAIN l : \A j \in DOMAIN l : l[j] = b <=> j = i
      BY <3>2, <3>3 DEF IsInjective
    <3>q. QED
      BY <3>4 DEF l
  <2>2. ASSUME NEW c \in Cells, NEW b \in ToSet(boxList[c]) PROVE location[b] = c
    <3>1. boxList[c] \in Seq(GridBoxes)
      BY DEF GridInv, GridTyping, PlaceTypes
    <3>2. b \in GridBoxes
      BY <3>1, ElementsOf
    <3>q. QED
      BY <3>2 DEF GridInv, InPlace, Located
  <2>3. gcase.mode \in {"box", "app"}
    BY GridAssumption DEF GridInv, GridTyping, GridTables
  <2>q. QED
    BY <1>2, <2>1, <2>2, <2>3 DEF GridInv, MayRun, LocksGiven, GridSound
<1>q. QED
  BY <1>1, <1>2

\* It holds at first: an abort is of a graph that begins late, and leaves no box a cell.
LEMMA GridInitInv == GridInit => GridInv
<1> SUFFICES ASSUME GridInit PROVE GridInv
  OBVIOUS
<1>1. GridTables
  BY DEF GridInit, GridTables
<1>2. /\ location \in [GridBoxes -> Cells \cup {NoCell}] /\ \A b \in GridBoxes : location[b] = NoCell
      /\ boxList \in [Cells -> Seq(GridBoxes)] /\ \A c \in Cells : boxList[c] = <<>>
  BY DEF GridInit
<1>3. ToSet(<<>>) = {} /\ IsInjective(<<>>)
  BY DEF ToSet, IsInjective
<1>4. GridTyping
  <2>1. walk \in [at : Nat \ {0}, assigned : [Cells -> Nat]]
    BY DEF GridInit
  <2>2. gphase \in {"idle", "look", "load", "abort"}
    BY DEF GridInit
  <2>3. PlaceTypes(GridBoxes, location, boxList)
    BY <1>2 DEF PlaceTypes
  <2>4. gridCandidates \in Seq(GridBoxes)
    BY DEF GridInit
  <2>5. /\ untestedBoxes \subseteq GridBoxes /\ lockedBoxes \subseteq GridBoxes
        /\ withWorker \subseteq GridBoxes /\ windowed \subseteq GridBoxes
        /\ stoppedShort \in BOOLEAN /\ foundRemains \in BOOLEAN
    BY DEF GridInit
  <2>q. QED
    BY <1>1, <2>1, <2>2, <2>3, <2>4, <2>5 DEF GridTyping
<1>5. InPlace
  <2>1. \A c \in Cells : c # NoCell
    BY NoCellOutside
  <2>q. QED
    BY <1>2, <1>3, <2>1 DEF InPlace, Located
<1>6. Placed = {}
  BY <1>2 DEF Placed
<1>7. MayRun
  BY <1>3, <1>6 DEF MayRun, GridInit
<1>8. LocksGiven
  BY DEF LocksGiven, GridInit
<1>9. TidyWalk
  BY DEF TidyWalk, GridInit
<1>10. AbortExplained
  <2> SUFFICES ASSUME gphase = "abort" PROVE Homeless # {}
    BY DEF AbortExplained
  <2>1. ~Rooted(gridPointers.graphs)
    BY DEF GridInit
  <2>2. PICK b \in GridBoxes : TRUE
    BY GridAssumption DEF GridInit, GridBoxes
  <2>3. 0 \in 0..(NumBuckets - 1)
    BY GridAssumption
  <2>4. gridPointers.at[b][0] = NoCell
    BY <2>1, <2>2, <2>3, PointerProperties DEF GridInit, GridBoxes
  <2>q. QED
    BY <2>2, <2>4 DEF Homeless
<1>q. QED
  BY <1>4, <1>5, <1>7, <1>8, <1>9, <1>10 DEF GridInv

-----------------------------------------------------------------------------
(* The steps *)

\* Only a box without a first cell can be found without any.
LEMMA AssignedCellType ==
  ASSUME GridTables, NEW b \in GridBoxes, NEW latency \in Nat
  PROVE  /\ PointedTo(b, latency) \in Cells \cup {NoCell}
         /\ AssignedCell(b, latency) \in Cells \cup {NoCell}
         /\ AssignedCell(b, latency) = NoCell => b \in Homeless
<1>1. gridPointers.at \in [GridBoxes -> [0..(NumBuckets - 1) -> Cells \cup {NoCell}]]
  BY PointerProperties DEF GridTables, GridBoxes
<1>2. LatencyBucket(b, latency) \in 0..(NumBuckets - 1) /\ 0 \in 0..(NumBuckets - 1)
  BY LatencyBucketType, GridAssumption
<1>q. QED
  BY <1>1, <1>2 DEF PointedTo, AssignedCell, Homeless

\* A box that is loaded has a cell, and no other box is moved.
LEMMA LoadedPlace ==
  ASSUME GridTables, PlaceTypes(GridBoxes, location, boxList), InPlace,
         NEW b \in GridBoxes, NEW latency \in Nat, LoadPriorityAssignment(b, latency)
  PROVE  /\ PlaceTypes(GridBoxes, location', boxList')
         /\ Located(GridBoxes, location', boxList')
         /\ \A a \in GridBoxes : a # b => location'[a] = location[a]
         /\ location'[b] \in Cells
         /\ location[b] = NoCell => location'[b] = AssignedCell(b, latency)
<1>1. location[b] \in Cells \cup {NoCell}
  BY DEF PlaceTypes
<1>2. CASE location[b] # NoCell /\ location[b] = PointedTo(b, latency)
  <2>1. location' = location /\ boxList' = boxList
    BY <1>2 DEF LoadPriorityAssignment, gridPlaces
  <2>q. QED
    BY <1>1, <1>2, <2>1 DEF InPlace
<1>3. CASE ~(location[b] # NoCell /\ location[b] = PointedTo(b, latency))
  <2> DEFINE cell == AssignedCell(b, latency)
  <2>1. cell \in Cells
    BY <1>3, AssignedCellType DEF LoadPriorityAssignment
  <2>2. MoveTo(cell, b)
    BY <1>3 DEF LoadPriorityAssignment
  <2> HIDE DEF cell
  <2>3. /\ location' = [location EXCEPT ![b] = cell]
        /\ boxList' = [c \in Cells |->
             LET others == IF c = location[b] THEN Keep(boxList[c], GridBoxes \ {b}) ELSE boxList[c]
             IN IF c = cell THEN Append(others, b) ELSE others]
    BY <2>2 DEF MoveTo
  <2>4. /\ PlaceTypes(GridBoxes, [location EXCEPT ![b] = cell], boxList')
        /\ Located(GridBoxes, [location EXCEPT ![b] = cell], boxList')
    BY <2>1, <2>3, MovedLocated DEF InPlace
  <2>5. location'[b] = cell /\ \A a \in GridBoxes : a # b => location'[a] = location[a]
    BY <2>3 DEF PlaceTypes
  <2>q. QED
    BY <2>1, <2>3, <2>4, <2>5 DEF cell
<1>q. QED
  BY <1>2, <1>3

\* What stays when the tables stay.
LEMMA TablesStay ==
  ASSUME GridTables, UNCHANGED gridFixed
  PROVE  /\ GridTables' /\ GridBoxes' = GridBoxes
         /\ gcase' = gcase /\ urgencyList' = urgencyList
         /\ Homeless' = Homeless /\ Shared' = Shared
BY DEF gridFixed, GridTables, GridBoxes, Homeless, Shared

\* A window more takes nothing away.
LEMMA WindowFillsInv ==
  ASSUME GridInv, NEW b \in GridBoxes, WindowFills(b)
  PROVE  GridInv'
<1>0. /\ UNCHANGED gridFixed /\ location' = location /\ boxList' = boxList
      /\ gphase' = gphase /\ untestedBoxes' = untestedBoxes /\ gridCandidates' = gridCandidates
      /\ walk' = walk /\ stoppedShort' = stoppedShort /\ foundRemains' = foundRemains
      /\ lockedBoxes' = lockedBoxes /\ withWorker' = withWorker /\ windowed' = windowed \cup {b}
  BY DEF WindowFills, gridPlaces, gridSearch, gridHistory
<1>1. /\ GridTables' /\ GridBoxes' = GridBoxes /\ gcase' = gcase
      /\ urgencyList' = urgencyList /\ Homeless' = Homeless /\ Shared' = Shared
  BY <1>0, TablesStay DEF GridInv, GridTyping
<1>2. Placed' = Placed
  BY <1>0, <1>1 DEF Placed
<1>3. GridTyping'
  BY <1>0, <1>1 DEF GridInv, GridTyping, PlaceTypes
<1>4. InPlace'
  BY <1>0, <1>1 DEF GridInv, InPlace, Located
<1>5. MayRun'
  BY <1>0, <1>1, <1>2 DEF GridInv, MayRun
<1>6. LocksGiven'
  BY <1>0, <1>1 DEF GridInv, LocksGiven
<1>7. TidyWalk'
  BY <1>0, <1>1, <1>2 DEF GridInv, TidyWalk
<1>8. AbortExplained'
  BY <1>0, <1>1 DEF GridInv, AbortExplained
<1>q. QED
  BY <1>3, <1>4, <1>5, <1>6, <1>7, <1>8 DEF GridInv

\* What a worker gives back is neither in the grid nor a candidate.
LEMMA RunEndsInv ==
  ASSUME GridInv, NEW b \in GridBoxes, RunEnds(b)
  PROVE  GridInv'
<1>0. /\ UNCHANGED gridFixed /\ location' = location /\ boxList' = boxList
      /\ gphase' = gphase /\ untestedBoxes' = untestedBoxes /\ gridCandidates' = gridCandidates
      /\ walk' = walk /\ stoppedShort' = stoppedShort /\ foundRemains' = foundRemains
      /\ lockedBoxes' = lockedBoxes \ {b} /\ withWorker' = withWorker \ {b}
      /\ windowed' \in {windowed, windowed \ {b}} /\ b \in withWorker
  BY DEF RunEnds, gridPlaces, gridSearch, gridHistory
<1>1. /\ GridTables' /\ GridBoxes' = GridBoxes /\ gcase' = gcase
      /\ urgencyList' = urgencyList /\ Homeless' = Homeless /\ Shared' = Shared
  BY <1>0, TablesStay DEF GridInv, GridTyping
<1>2. Placed' = Placed
  BY <1>0, <1>1 DEF Placed
<1>3. GridTyping'
  BY <1>0, <1>1 DEF GridInv, GridTyping, PlaceTypes
<1>4. InPlace'
  BY <1>0, <1>1 DEF GridInv, InPlace, Located
<1>5. MayRun'
  BY <1>0, <1>1, <1>2 DEF GridInv, MayRun
<1>6. LocksGiven'
  BY <1>0, <1>1 DEF GridInv, LocksGiven
<1>7. TidyWalk'
  BY <1>0, <1>1, <1>2 DEF GridInv, TidyWalk
<1>8. AbortExplained'
  BY <1>0, <1>1 DEF GridInv, AbortExplained
<1>q. QED
  BY <1>3, <1>4, <1>5, <1>6, <1>7, <1>8 DEF GridInv

\* A search that finds nothing in the grid begins a tidy walk.
LEMMA BeginSearchInv ==
  ASSUME GridInv, BeginSearch
  PROVE  GridInv'
<1>0. /\ UNCHANGED gridFixed /\ location' = location /\ boxList' = boxList
      /\ gphase' = "look" /\ gridCandidates' = <<>>
      /\ walk' = [at |-> 1, assigned |-> [c \in Cells |-> 0]]
      /\ foundRemains' = (foundRemains \/ Placed # {}) /\ stoppedShort' = stoppedShort
      /\ lockedBoxes' = lockedBoxes /\ withWorker' = withWorker /\ windowed' = windowed
  BY DEF BeginSearch, gridPlaces
<1>1. /\ GridTables' /\ GridBoxes' = GridBoxes /\ gcase' = gcase
      /\ urgencyList' = urgencyList /\ Homeless' = Homeless /\ Shared' = Shared
  BY <1>0, TablesStay DEF GridInv, GridTyping
<1>2. Placed' = Placed
  BY <1>0, <1>1 DEF Placed
<1>u. untestedBoxes' \subseteq GridBoxes
  BY DEF BeginSearch, RunnableBits, NeverCleared
<1>w. /\ walk' \in [at : Nat \ {0}, assigned : [Cells -> Nat]]
      /\ \A c \in Cells : walk'.assigned[c] = 0
  BY <1>0
<1>n. ToSet(<<>>) = {} /\ IsInjective(<<>>)
  BY DEF ToSet, IsInjective
<1>3. GridTyping'
  <2>1. PlaceTypes(GridBoxes, location, boxList)' /\ gridCandidates' \in Seq(GridBoxes)'
    BY <1>0, <1>1 DEF GridInv, GridTyping, PlaceTypes
  <2>2. stoppedShort' \in BOOLEAN /\ foundRemains' \in BOOLEAN
    BY <1>0 DEF GridInv, GridTyping
  <2>q. QED
    BY <1>0, <1>1, <1>u, <1>w, <2>1, <2>2 DEF GridInv, GridTyping
<1>4. InPlace'
  BY <1>0, <1>1 DEF GridInv, InPlace, Located
<1>5. MayRun'
  BY <1>0, <1>1, <1>2, <1>n DEF GridInv, MayRun
<1>6. LocksGiven'
  BY <1>0, <1>1 DEF GridInv, LocksGiven
<1>7. TidyWalk'
  <2> SUFFICES ASSUME ~foundRemains' PROVE TidyWalk'
    BY DEF TidyWalk
  <2>1. Placed' = {}
    BY <1>0, <1>2 DEF GridInv, GridTyping
  <2>2. \A c \in Cells : ~(walk'.assigned[c] > 0)
    BY <1>w
  <2>q. QED
    BY <1>0, <1>n, <2>1, <2>2 DEF TidyWalk
<1>8. AbortExplained'
  BY <1>0 DEF AbortExplained
<1>q. QED
  BY <1>3, <1>4, <1>5, <1>6, <1>7, <1>8 DEF GridInv

\* A box goes into the grid under its lock, with a full window.
LEMMA LookAtInv ==
  ASSUME GridInv, NEW b \in GridBoxes, LookAt(b)
  PROVE  GridInv'
<1>0. /\ UNCHANGED gridFixed /\ gcase.mode = "box" /\ gphase = "look"
      /\ untestedBoxes' = untestedBoxes \ {b} /\ gridCandidates' = gridCandidates
      /\ walk' = walk /\ stoppedShort' = stoppedShort /\ foundRemains' = foundRemains
      /\ lockedBoxes' = lockedBoxes /\ withWorker' = withWorker /\ windowed' = windowed
  BY DEF LookAt, gridHistory
<1>1. /\ GridTables' /\ GridBoxes' = GridBoxes /\ gcase' = gcase
      /\ urgencyList' = urgencyList /\ Homeless' = Homeless /\ Shared' = Shared
  BY <1>0, TablesStay DEF GridInv, GridTyping
<1>b. GridTables /\ PlaceTypes(GridBoxes, location, boxList) /\ InPlace /\ gridCandidates = <<>>
  BY <1>0 DEF GridInv, GridTyping, MayRun
<1> DEFINE Done ==
      /\ gphase' \in {"look", "abort"}
      /\ gphase' = "abort" => Homeless # {}
      /\ PlaceTypes(GridBoxes, location', boxList') /\ Located(GridBoxes, location', boxList')
      /\ Placed' \subseteq Placed \cup {b}
      /\ Placed' # Placed => b \in windowed \ lockedBoxes
<1>2. Done
  <2>1. CASE location' = location /\ boxList' = boxList /\ gphase' = gphase
    <3>1. Placed' = Placed
      BY <1>1, <2>1 DEF Placed
    <3>q. QED
      BY <1>0, <1>b, <2>1, <3>1 DEF InPlace
  <2>2. ASSUME b \in windowed \ lockedBoxes, NEW latency \in GridLatencies,
               AssignedCell(b, latency) = NoCell, gphase' = "abort", UNCHANGED gridPlaces
        PROVE  Done
    <3>1. latency \in Nat
      BY GridAssumption
    <3>2. b \in Homeless
      BY <1>b, <2>2, <3>1, AssignedCellType
    <3>3. Placed' = Placed
      BY <1>1, <2>2 DEF Placed, gridPlaces
    <3>q. QED
      BY <1>b, <2>2, <3>2, <3>3 DEF InPlace, gridPlaces
  <2>3. ASSUME b \in windowed \ lockedBoxes, NEW latency \in GridLatencies,
               LoadPriorityAssignment(b, latency), gphase' = gphase
        PROVE  Done
    <3>1. latency \in Nat
      BY GridAssumption
    <3>2. /\ PlaceTypes(GridBoxes, location', boxList') /\ Located(GridBoxes, location', boxList')
          /\ \A a \in GridBoxes : a # b => location'[a] = location[a]
      BY <1>b, <2>3, <3>1, LoadedPlace
    <3>3. Placed' \subseteq Placed \cup {b}
      BY <1>1, <3>2 DEF Placed
    <3>q. QED
      BY <1>0, <2>3, <3>2, <3>3
  <2>q. QED
    BY <2>1, <2>2, <2>3 DEF LookAt, gridPlaces
<1>3. GridTyping'
  <2>1. PlaceTypes(GridBoxes, location, boxList)' 
    BY <1>1, <1>2 DEF PlaceTypes
  <2>q. QED
    BY <1>0, <1>1, <1>2, <2>1 DEF GridInv, GridTyping
<1>4. InPlace'
  BY <1>1, <1>2 DEF InPlace, Located
<1>5. MayRun'
  <2>1. ToSet(<<>>) = {}
    BY DEF ToSet
  <2>2. Placed' \subseteq windowed \ lockedBoxes
    BY <1>0, <1>2 DEF GridInv, MayRun
  <2>q. QED
    BY <1>0, <1>1, <1>2, <1>b, <2>1, <2>2 DEF GridInv, MayRun
<1>6. LocksGiven'
  BY <1>0, <1>1 DEF LocksGiven
<1>7. TidyWalk'
  BY <1>0, <1>1 DEF TidyWalk
<1>8. AbortExplained'
  BY <1>1, <1>2 DEF AbortExplained
<1>q. QED
  BY <1>3, <1>4, <1>5, <1>6, <1>7, <1>8 DEF GridInv

\* The boxes of a case.
LEMMA BoxesFinite ==
  ASSUME GridTables
  PROVE  GridBoxes \subseteq Nat /\ IsFiniteSet(GridBoxes) /\ GridBoxes # {}
BY GridAssumption DEF GridTables, GridBoxes

\* All boxes of the grid, the most urgent cells first.
GridOrder == FlattenSeq([k \in 1..CellCount |-> boxList[CellAt(k)]])

\* The first boxes of the grid can be taken off it, and are the most urgent ones.
LEMMA ChosenProperties ==
  ASSUME GridTables, PlaceTypes(GridBoxes, location, boxList), InPlace,
         NEW num \in 1..Cardinality(GridBoxes),
         NEW chosen, chosen = FirstOf(GridOrder, num)
  PROVE  /\ chosen \in Seq(GridBoxes) /\ Removable(chosen) /\ ToSet(chosen) \subseteq Placed
         /\ chosen = <<>> => Placed = {}
         /\ \A i, j \in DOMAIN chosen : i < j => ~Prior(location[chosen[j]], location[chosen[i]])
         /\ \A b \in Placed \ ToSet(chosen), i \in DOMAIN chosen :
              ~Prior(location[b], location[chosen[i]])
<1> DEFINE flat == FlattenSeq([k \in 1..CellCount |-> boxList[CellAt(k)]])
<1>2. num \in Nat /\ num > 0
  <2>1. Cardinality(GridBoxes) \in Nat
    BY BoxesFinite, FS_CardinalityType
  <2>q. QED
    BY <2>1
<1>3. /\ flat \in Seq(GridBoxes) /\ IsInjective(flat)
      /\ \A b \in GridBoxes : b \in ToSet(flat) <=> location[b] # NoCell
      /\ \A i, j \in DOMAIN flat : i < j => ~Prior(location[flat[j]], location[flat[i]])
  BY GridInOrder DEF InPlace
<1>4. chosen = FirstOf(flat, num)
  BY DEF GridOrder
<1> HIDE DEF flat
<1>5. /\ chosen \in Seq(GridBoxes)
      /\ Len(chosen) = IF num < Len(flat) THEN num ELSE Len(flat)
      /\ \A i \in DOMAIN chosen : i \in DOMAIN flat /\ chosen[i] = flat[i]
      /\ ToSet(chosen) \subseteq ToSet(flat)
      /\ IsInjective(chosen)
      /\ flat # <<>> => chosen # <<>>
  BY <1>2, <1>3, <1>4, FirstOfElements
<1>6. /\ Len(flat) \in Nat /\ DOMAIN flat = 1..Len(flat)
      /\ \A i \in 1..Len(flat) : flat[i] \in GridBoxes /\ flat[i] \in ToSet(flat)
      /\ \A x \in ToSet(flat) : x \in GridBoxes /\ \E i \in 1..Len(flat) : flat[i] = x
      /\ flat = <<>> <=> ToSet(flat) = {}
  BY <1>3, ElementsOf
<1>7. /\ Len(chosen) \in Nat /\ DOMAIN chosen = 1..Len(chosen)
      /\ \A i \in 1..Len(chosen) : chosen[i] \in ToSet(chosen)
  BY <1>5, ElementsOf
<1>8. Removable(chosen)
  BY <1>3, <1>5, <1>6 DEF Removable
<1>9. ToSet(chosen) \subseteq Placed
  BY <1>3, <1>5, <1>6 DEF Placed
<1>10. chosen = <<>> => Placed = {}
  BY <1>3, <1>5, <1>6 DEF Placed
<1>11. \A i, j \in DOMAIN chosen : i < j => ~Prior(location[chosen[j]], location[chosen[i]])
  BY <1>3, <1>5
<1>12. ASSUME NEW b \in Placed \ ToSet(chosen), NEW i \in DOMAIN chosen
       PROVE  ~Prior(location[b], location[chosen[i]])
  <2>1. b \in ToSet(flat)
    BY <1>3 DEF Placed
  <2>2. PICK p \in 1..Len(flat) : flat[p] = b
    BY <1>6, <2>1
  <2>3. ~(p \in 1..Len(chosen))
    BY <1>5, <1>7, <2>2
  <2>4. i < p
    BY <1>6, <1>7, <2>2, <2>3
  <2>5. i \in DOMAIN flat /\ p \in DOMAIN flat /\ chosen[i] = flat[i]
    BY <1>5, <1>6, <2>2
  <2>q. QED
    BY <1>3, <2>2, <2>4, <2>5
<1>q. QED
  BY <1>5, <1>8, <1>9, <1>10, <1>11, <1>12

\* What is removed leaves the lists, and what stays is where it was.
LEMMA RemovedPlace ==
  ASSUME PlaceTypes(GridBoxes, location, boxList), InPlace, NEW s, RemoveFromGrid(s)
  PROVE  /\ PlaceTypes(GridBoxes, location', boxList') /\ Located(GridBoxes, location', boxList')
         /\ \A b \in GridBoxes : location'[b] = IF b \in ToSet(s) THEN NoCell ELSE location[b]
<1> DEFINE gone == ToSet(s)
<1>1. /\ location' = [b \in GridBoxes |-> IF b \in gone THEN NoCell ELSE location[b]]
      /\ boxList' = [c \in Cells |-> Keep(boxList[c], GridBoxes \ gone)]
  BY DEF RemoveFromGrid
<1>2. PlaceTypes(GridBoxes, location, boxList) /\ Located(GridBoxes, location, boxList)
  BY DEF InPlace
<1>3. \A b \in GridBoxes : location'[b] = IF b \in gone THEN NoCell ELSE location[b]
  BY <1>1
<1>4. PlaceTypes(GridBoxes, location', boxList') /\ Located(GridBoxes, location', boxList')
  <2> DEFINE boxes == GridBoxes
  <2>1. /\ location' = [b \in boxes |-> IF b \in gone THEN NoCell ELSE location[b]]
        /\ boxList' = [c \in Cells |-> Keep(boxList[c], boxes \ gone)]
        /\ PlaceTypes(boxes, location, boxList) /\ Located(boxes, location, boxList)
    BY <1>1, <1>2
  <2> HIDE DEF gone, boxes
  <2>2. PlaceTypes(boxes, location', boxList') /\ Located(boxes, location', boxList')
    BY <2>1, RemovedLocated
  <2>q. QED
    BY <2>2 DEF boxes
<1>q. QED
  BY <1>3, <1>4

\* The boxes chosen leave the grid, and are the most urgent.
LEMMA ChooseInv ==
  ASSUME GridInv, Choose
  PROVE  GridInv' /\ (gphase' = "load" => ChosenFirst)
<1>0. /\ UNCHANGED gridFixed /\ gcase.mode = "box" /\ gphase = "look"
      /\ untestedBoxes' = untestedBoxes
      /\ walk' = walk /\ stoppedShort' = stoppedShort /\ foundRemains' = foundRemains
      /\ lockedBoxes' = lockedBoxes /\ withWorker' = withWorker /\ windowed' = windowed
  BY DEF Choose, gridHistory
<1>1. /\ GridTables' /\ GridBoxes' = GridBoxes /\ gcase' = gcase
      /\ urgencyList' = urgencyList /\ Homeless' = Homeless /\ Shared' = Shared
  BY <1>0, TablesStay DEF GridInv, GridTyping
<1>b. GridTables /\ PlaceTypes(GridBoxes, location, boxList) /\ InPlace /\ gridCandidates = <<>>
  BY <1>0 DEF GridInv, GridTyping, MayRun
<1>2. PICK num \in 1..Cardinality(GridBoxes) :
        LET chosen == FirstOf(GridOrder, num)
        IN IF Removable(chosen)
           THEN /\ RemoveFromGrid(chosen)
                /\ gridCandidates' = chosen
                /\ gphase' = "load"
           ELSE gphase' = "abort" /\ UNCHANGED <<gridPlaces, gridCandidates>>
  BY DEF Choose, InOrderOfCells, GridOrder, CellCount
<1> DEFINE chosen == FirstOf(GridOrder, num)
<1>3. /\ chosen \in Seq(GridBoxes) /\ Removable(chosen) /\ ToSet(chosen) \subseteq Placed
      /\ chosen = <<>> => Placed = {}
      /\ \A i, j \in DOMAIN chosen : i < j => ~Prior(location[chosen[j]], location[chosen[i]])
      /\ \A b \in Placed \ ToSet(chosen), i \in DOMAIN chosen :
           ~Prior(location[b], location[chosen[i]])
  <2>1. chosen = FirstOf(GridOrder, num)
    OBVIOUS
  <2> HIDE DEF chosen
  <2>q. QED
    BY <1>b, <2>1, ChosenProperties
<1>4. RemoveFromGrid(chosen) /\ gridCandidates' = chosen /\ gphase' = "load"
  BY <1>2, <1>3
<1> HIDE DEF chosen
<1>5. /\ PlaceTypes(GridBoxes, location', boxList') /\ Located(GridBoxes, location', boxList')
      /\ \A b \in GridBoxes : location'[b] = IF b \in ToSet(chosen) THEN NoCell ELSE location[b]
  BY <1>b, <1>4, RemovedPlace
<1>6. Placed' = Placed \ ToSet(chosen)
  BY <1>1, <1>5 DEF Placed
<1>7. GridTyping'
  <2>1. PlaceTypes(GridBoxes, location, boxList)'
    BY <1>1, <1>5 DEF PlaceTypes
  <2>q. QED
    BY <1>0, <1>1, <1>3, <1>4, <2>1 DEF GridInv, GridTyping
<1>8. InPlace'
  BY <1>1, <1>5 DEF InPlace, Located
<1>9. MayRun'
  <2>1. Placed \subseteq windowed \ lockedBoxes /\ lockedBoxes = withWorker
    BY <1>0 DEF GridInv, MayRun
  <2>2. Placed' \cup ToSet(gridCandidates') \subseteq windowed' \ lockedBoxes'
    BY <1>0, <1>3, <1>4, <1>6, <2>1
  <2>3. IsInjective(gridCandidates') /\ ToSet(gridCandidates') \cap Placed' = {}
    BY <1>3, <1>4, <1>6 DEF Removable
  <2>q. QED
    BY <1>0, <1>1, <1>4, <2>1, <2>2, <2>3 DEF MayRun
<1>10. LocksGiven'
  BY <1>0, <1>1 DEF LocksGiven
<1>11. TidyWalk'
  BY <1>0, <1>1 DEF TidyWalk
<1>12. AbortExplained'
  BY <1>4 DEF AbortExplained
<1>13. ChosenFirst
  BY <1>3, <1>4 DEF ChosenFirst
<1>q. QED
  BY <1>7, <1>8, <1>9, <1>10, <1>11, <1>12, <1>13 DEF GridInv

\* One candidate is locked and given to a worker; the others wait unlocked.
LEMMA LoadCandidateInv ==
  ASSUME GridInv, LoadCandidate
  PROVE  GridInv'
<1>0. /\ UNCHANGED gridFixed /\ gcase.mode = "box" /\ gphase = "load"
      /\ location' = location /\ boxList' = boxList
      /\ untestedBoxes' = untestedBoxes /\ walk' = walk
      /\ stoppedShort' = stoppedShort /\ foundRemains' = foundRemains /\ windowed' = windowed
      /\ gphase' = (IF Len(gridCandidates) > 1 THEN "load" ELSE "idle")
      /\ gridCandidates' = (IF gridCandidates = <<>> THEN <<>> ELSE Tail(gridCandidates))
      /\ lockedBoxes' = lockedBoxes \cup (ToSet(FirstOf(gridCandidates, 1)) \ lockedBoxes)
      /\ withWorker' = withWorker \cup (ToSet(FirstOf(gridCandidates, 1)) \ lockedBoxes)
  BY DEF LoadCandidate, gridPlaces, gridHistory, GiveToWorker
<1>1. /\ GridTables' /\ GridBoxes' = GridBoxes /\ gcase' = gcase
      /\ urgencyList' = urgencyList /\ Homeless' = Homeless /\ Shared' = Shared
  BY <1>0, TablesStay DEF GridInv, GridTyping
<1>b. /\ gridCandidates \in Seq(GridBoxes) /\ IsInjective(gridCandidates)
      /\ ToSet(gridCandidates) \cap Placed = {}
      /\ Placed \cup ToSet(gridCandidates) \subseteq windowed \ lockedBoxes
      /\ lockedBoxes = withWorker
  BY <1>0 DEF GridInv, GridTyping, MayRun
<1> DEFINE first == ToSet(FirstOf(gridCandidates, 1))
<1>2. /\ gridCandidates' \in Seq(GridBoxes) /\ IsInjective(gridCandidates')
      /\ first \subseteq GridBoxes /\ first \subseteq ToSet(gridCandidates)
      /\ ToSet(gridCandidates') \subseteq ToSet(gridCandidates) \ first
      /\ ~(Len(gridCandidates) > 1) => gridCandidates' = <<>>
  <2>1. CASE gridCandidates = <<>>
    <3>1. ToSet(<<>>) = {} /\ IsInjective(<<>>)
      BY DEF ToSet, IsInjective
    <3>2. first \subseteq ToSet(gridCandidates)
      BY <1>b, FirstOfElements
    <3>q. QED
      BY <1>0, <2>1, <3>1, <3>2
  <2>2. CASE gridCandidates # <<>>
    <3>1. gridCandidates' = Tail(gridCandidates)
      BY <1>0, <2>2
    <3>2. /\ Tail(gridCandidates) \in Seq(GridBoxes)
          /\ gridCandidates[1] \in GridBoxes /\ gridCandidates[1] \in ToSet(gridCandidates)
          /\ first = {gridCandidates[1]}
          /\ ToSet(Tail(gridCandidates)) \subseteq ToSet(gridCandidates)
          /\ IsInjective(Tail(gridCandidates)) /\ gridCandidates[1] \notin ToSet(Tail(gridCandidates))
      BY <1>b, <2>2, TailElements
    <3>3. ~(Len(gridCandidates) > 1) => Tail(gridCandidates) = <<>>
      BY <1>b, <2>2
    <3>q. QED
      BY <3>1, <3>2, <3>3
  <2>q. QED
    BY <2>1, <2>2
<1>3. Placed' = Placed
  BY <1>0, <1>1 DEF Placed
<1> HIDE DEF first
<1>f. /\ lockedBoxes' = lockedBoxes \cup (first \ lockedBoxes)
      /\ withWorker' = withWorker \cup (first \ lockedBoxes)
  BY <1>0 DEF first
<1>4. GridTyping'
  <2>1. PlaceTypes(GridBoxes, location, boxList)'
    BY <1>0, <1>1 DEF GridInv, GridTyping, PlaceTypes
  <2>2. lockedBoxes' \subseteq GridBoxes /\ withWorker' \subseteq GridBoxes
    BY <1>2, <1>f DEF GridInv, GridTyping
  <2>3. gphase' \in {"idle", "look", "load", "abort"}
    BY <1>0
  <2>q. QED
    BY <1>0, <1>1, <1>2, <2>1, <2>2, <2>3 DEF GridInv, GridTyping
<1>5. InPlace'
  BY <1>0, <1>1 DEF GridInv, InPlace, Located
<1>6. MayRun'
  <2>1. Placed' \cup ToSet(gridCandidates') \subseteq windowed' \ lockedBoxes'
    BY <1>0, <1>2, <1>3, <1>b, <1>f
  <2>2. lockedBoxes' = withWorker'
    BY <1>b, <1>f
  <2>3. ToSet(gridCandidates') \cap Placed' = {}
    BY <1>2, <1>3, <1>b
  <2>4. gphase' \in {"idle", "look"} => gridCandidates' = <<>>
    BY <1>0, <1>2
  <2>q. QED
    BY <1>2, <2>1, <2>2, <2>3, <2>4 DEF MayRun
<1>7. LocksGiven'
  BY <1>0, <1>1 DEF LocksGiven
<1>8. TidyWalk'
  BY <1>0, <1>1 DEF TidyWalk
<1>9. AbortExplained'
  BY <1>0 DEF AbortExplained
<1>q. QED
  BY <1>4, <1>5, <1>6, <1>7, <1>8, <1>9 DEF GridInv

\* The boxes of an application are locked for a worker, unless one is shared.
LEMMA TakeApplicationInv ==
  ASSUME GridInv, TakeApplication
  PROVE  GridInv'
<1> DEFINE apps == gcase.apps[gridCandidates[1]]
           free == {b \in GridBoxes : gcase.apps[b] \cap apps # {}} \ lockedBoxes
<1>0. /\ UNCHANGED gridFixed /\ gcase.mode = "app" /\ gphase = "load"
      /\ location' = location /\ boxList' = boxList
      /\ untestedBoxes' = untestedBoxes /\ walk' = walk /\ gridCandidates' = <<>>
      /\ stoppedShort' = stoppedShort /\ foundRemains' = foundRemains /\ windowed' = windowed
  BY DEF TakeApplication, gridPlaces, gridHistory
<1>a. \/ /\ Cardinality(apps) > 1 /\ gphase' = "abort"
         /\ lockedBoxes' = lockedBoxes /\ withWorker' = withWorker
      \/ /\ gphase' = "idle"
         /\ \E s \in SUBSET free :
              lockedBoxes' = lockedBoxes \cup s /\ withWorker' = withWorker \cup s
  BY DEF TakeApplication, GiveToWorker
<1>f. free \subseteq GridBoxes
  OBVIOUS
<1>1. /\ GridTables' /\ GridBoxes' = GridBoxes /\ gcase' = gcase
      /\ urgencyList' = urgencyList /\ Homeless' = Homeless /\ Shared' = Shared
  BY <1>0, TablesStay DEF GridInv, GridTyping
<1>2. gridCandidates \in Seq(GridBoxes) /\ gridCandidates # <<>>
  BY <1>0 DEF GridInv, GridTyping, LocksGiven
<1>3. gridCandidates[1] \in GridBoxes
  BY <1>2, TailElements
<1>4. Cardinality(apps) > 1 => Shared # {}
  BY <1>3 DEF Shared
<1> HIDE DEF free, apps
<1>n. ToSet(<<>>) = {} /\ IsInjective(<<>>)
  BY DEF ToSet, IsInjective
<1>5. GridTyping'
  <2>1. PlaceTypes(GridBoxes, location, boxList)'
    BY <1>0, <1>1 DEF GridInv, GridTyping, PlaceTypes
  <2>2. lockedBoxes' \subseteq GridBoxes /\ withWorker' \subseteq GridBoxes
    BY <1>a, <1>f DEF GridInv, GridTyping
  <2>3. gphase' \in {"idle", "look", "load", "abort"}
    BY <1>a
  <2>4. gridCandidates' \in Seq(GridBoxes)
    BY <1>0
  <2>q. QED
    BY <1>0, <1>1, <2>1, <2>2, <2>3, <2>4 DEF GridInv, GridTyping
<1>6. InPlace'
  BY <1>0, <1>1 DEF GridInv, InPlace, Located
<1>7. MayRun'
  BY <1>0, <1>1 DEF MayRun
<1>8. LocksGiven'
  <2>1. gphase' # "load"
    BY <1>a
  <2>2. CASE stoppedShort
    BY <1>0, <2>1, <2>2 DEF LocksGiven
  <2>3. CASE ~stoppedShort
    <3>1. lockedBoxes = withWorker
      BY <1>0, <2>3 DEF GridInv, LocksGiven
    <3>2. lockedBoxes' = withWorker'
      BY <1>a, <3>1
    <3>q. QED
      BY <2>1, <3>2 DEF LocksGiven
  <2>q. QED
    BY <2>2, <2>3
<1>9. TidyWalk'
  BY <1>a DEF TidyWalk
<1>10. AbortExplained'
  BY <1>0, <1>1, <1>4, <1>a DEF AbortExplained
<1>q. QED
  BY <1>5, <1>6, <1>7, <1>8, <1>9, <1>10 DEF GridInv

\* No walk came to its limit or found boxes of an earlier one.
Tidy == ~stoppedShort /\ ~foundRemains

\* What a step of the walk makes candidates on entering a cell, and where it looks.
LEMMA WalkFacts ==
  ASSUME GridInv, gphase = "look", gcase.mode = "app", walk.at <= Len(urgencyList)
  PROVE  /\ walk.at \in DOMAIN urgencyList /\ Entry \in Urgencies
         /\ Pushed \in Seq(GridBoxes) /\ Looked \in GridBoxes
         /\ ~Entering => Pushed = gridCandidates /\ Looked = Entry.box
         /\ Tidy =>
              /\ Entering => Looked \in Placed
              /\ IsInjective(Pushed)
              /\ \A b \in ToSet(Pushed) :
                   \E j \in DOMAIN urgencyList : j < walk.at + 1 /\ location[b] = urgencyList[j].ge
<1>1. /\ GridTables /\ InPlace /\ PlaceTypes(GridBoxes, location, boxList)
      /\ gridCandidates \in Seq(GridBoxes)
      /\ walk.at \in Nat \ {0} /\ walk.assigned \in [Cells -> Nat]
  BY DEF GridInv, GridTyping
<1>2. /\ Len(urgencyList) \in Nat /\ DOMAIN urgencyList = 1..Len(urgencyList)
      /\ \A i \in DOMAIN urgencyList : urgencyList[i] \in Urgencies
  <2>1. urgencyList \in Seq(Urgencies)
    BY <1>1, UrgencyListProperties
  <2>q. QED
    BY <2>1
<1>3. walk.at \in DOMAIN urgencyList /\ Entry \in Urgencies
  BY <1>1, <1>2 DEF Entry
<1>4. Entry.box \in GridBoxes /\ Entry.ge \in Cells
  BY <1>3 DEF Urgencies
<1>5. \A j \in DOMAIN urgencyList : j \in Int
  BY <1>2
<1>6. ASSUME ~Entering PROVE Listed = <<>> /\ Pushed = gridCandidates /\ Looked = Entry.box
  <2>1. Listed = <<>>
    BY <1>6 DEF Listed
  <2>q. QED
    BY <1>1, <2>1 DEF Pushed, Looked
<1>7. ASSUME Entering
      PROVE  /\ Listed \in Seq(GridBoxes) /\ IsInjective(Listed)
             /\ \A b \in ToSet(Listed) : location[b] = Entry.ge
             /\ boxList[Entry.ge] # <<>> => Listed # <<>>
  <2> DEFINE list == boxList[Entry.ge]
             n == Highest({1, NumWanted - Len(gridCandidates)})
  <2>1. /\ list \in Seq(GridBoxes) /\ IsInjective(list)
        /\ \A b \in GridBoxes : b \in ToSet(list) <=> location[b] = Entry.ge
    BY <1>1, <1>4 DEF PlaceTypes, InPlace, Located
  <2>2. n \in Nat \ {0}
    <3>1. NumWanted \in Int
      <4>1. Highest(GridBoxes) \in GridBoxes /\ GridBoxes \subseteq Int
        BY <1>1, BoxesFinite, HighestProperties
      <4>q. QED
        BY <4>1 DEF NumWanted, MaxBoxId
    <3>2. Len(gridCandidates) \in Nat
      BY <1>1
    <3> DEFINE S == {1, NumWanted - Len(gridCandidates)}
    <3>3. S \subseteq Int /\ S # {} /\ IsFiniteSet(S) /\ 1 \in S
      <4>1. NumWanted - Len(gridCandidates) \in Int
        BY <3>1, <3>2
      <4>2. IsFiniteSet({1} \cup {NumWanted - Len(gridCandidates)})
        BY FS_Singleton, FS_AddElement
      <4>3. {1} \cup {NumWanted - Len(gridCandidates)} = {1, NumWanted - Len(gridCandidates)}
        OBVIOUS
      <4>q. QED
        BY <4>1, <4>2, <4>3
    <3>4. n = Highest(S)
      OBVIOUS
    <3> HIDE DEF S, n
    <3>5. Highest(S) \in S /\ \A m \in S : m <= Highest(S)
      BY <3>3, HighestProperties
    <3>6. Highest(S) \in Int /\ 1 <= Highest(S)
      BY <3>3, <3>5
    <3>q. QED
      BY <3>4, <3>6
  <2>3. Listed = FirstOf(list, n)
    BY <1>7 DEF Listed
  <2> HIDE DEF list, n
  <2>4. /\ FirstOf(list, n) \in Seq(GridBoxes) /\ IsInjective(FirstOf(list, n))
        /\ ToSet(FirstOf(list, n)) \subseteq ToSet(list)
        /\ list # <<>> => FirstOf(list, n) # <<>>
    BY <2>1, <2>2, FirstOfElements
  <2>5. \A b \in ToSet(list) : b \in GridBoxes
    BY <2>1, ElementsOf
  <2>q. QED
    BY <2>1, <2>3, <2>4, <2>5 DEF list
<1>8. Listed \in Seq(GridBoxes)
  <2>1. <<>> \in Seq(GridBoxes)
    OBVIOUS
  <2>2. CASE Entering
    BY <1>7, <2>2
  <2>3. CASE ~Entering
    BY <1>6, <2>1, <2>3
  <2>q. QED
    BY <2>2, <2>3
<1>9. /\ Pushed \in Seq(GridBoxes) /\ ToSet(Pushed) = ToSet(gridCandidates) \cup ToSet(Listed)
      /\ (IsInjective(gridCandidates) /\ IsInjective(Listed)
           /\ ToSet(gridCandidates) \cap ToSet(Listed) = {}) => IsInjective(Pushed)
  <2> DEFINE s == gridCandidates
             t == Listed
  <2>1. Pushed = s \o t /\ s \in Seq(GridBoxes) /\ t \in Seq(GridBoxes)
    BY <1>1, <1>8 DEF Pushed
  <2> HIDE DEF s, t
  <2>2. /\ s \o t \in Seq(GridBoxes) /\ ToSet(s \o t) = ToSet(s) \cup ToSet(t)
        /\ (IsInjective(s) /\ IsInjective(t) /\ ToSet(s) \cap ToSet(t) = {}) => IsInjective(s \o t)
    BY <2>1, ConcatElements
  <2>q. QED
    BY <2>1, <2>2 DEF s, t
<1>10. Listed # <<>> => Last(Listed) \in ToSet(Listed) /\ Last(Listed) \in GridBoxes
  <2> DEFINE t == Listed
  <2>1. t \in Seq(GridBoxes)
    BY <1>8
  <2> HIDE DEF t
  <2>2. t # <<>> => Len(t) \in 1..Len(t)
    BY <2>1
  <2>3. \A i \in 1..Len(t) : t[i] \in GridBoxes /\ t[i] \in ToSet(t)
    BY <2>1, ElementsOf
  <2>q. QED
    BY <2>2, <2>3 DEF t, Last
<1>11. Looked \in GridBoxes
  BY <1>4, <1>10 DEF Looked
<1>12. ASSUME Tidy
       PROVE  /\ Entering => Looked \in Placed
              /\ IsInjective(Pushed)
              /\ \A b \in ToSet(Pushed) :
                   \E j \in DOMAIN urgencyList : j < walk.at + 1 /\ location[b] = urgencyList[j].ge
  <2>1. /\ \A c \in Cells : walk.assigned[c] > 0 => \E b \in GridBoxes : location[b] = c
        /\ IsInjective(gridCandidates)
        /\ \A b \in ToSet(gridCandidates) :
             \E j \in DOMAIN urgencyList : j < walk.at /\ location[b] = urgencyList[j].ge
    BY <1>12 DEF Tidy, GridInv, TidyWalk
  <2>2. \A b \in ToSet(gridCandidates) :
          \E j \in DOMAIN urgencyList : j < walk.at + 1 /\ location[b] = urgencyList[j].ge
    <3>1. \A j \in DOMAIN urgencyList : j < walk.at => j < walk.at + 1
      BY <1>1, <1>5
    <3>q. QED
      BY <2>1, <3>1
  <2>3. ASSUME Entering PROVE Looked \in Placed
    <3>1. PICK b \in GridBoxes : location[b] = Entry.ge
      BY <1>4, <2>1, <2>3 DEF Entering
    <3>2. boxList[Entry.ge] # <<>>
      <4>1. b \in ToSet(boxList[Entry.ge]) /\ boxList[Entry.ge] \in Seq(GridBoxes)
        BY <1>1, <1>4, <3>1 DEF InPlace, Located, PlaceTypes
      <4>2. boxList[Entry.ge] = <<>> => ToSet(boxList[Entry.ge]) = {}
        BY DEF ToSet
      <4>q. QED
        BY <4>1, <4>2
    <3>3. location[Last(Listed)] = Entry.ge /\ Looked = Last(Listed)
      BY <1>7, <1>10, <2>3, <3>2 DEF Looked
    <3>q. QED
      BY <1>4, <1>11, <3>3, NoCellOutside DEF Placed
  <2>4. IsInjective(Pushed)
    <3>1. CASE ~Entering
      BY <1>6, <2>1, <3>1
    <3>2. CASE Entering
      <4>1. ASSUME NEW b \in ToSet(gridCandidates), b \in ToSet(Listed) PROVE FALSE
        <5>1. PICK j \in DOMAIN urgencyList : j < walk.at /\ location[b] = urgencyList[j].ge
          BY <2>1
        <5>2. location[b] = Entry.ge
          BY <1>7, <3>2, <4>1
        <5>3. j \in 1..(walk.at - 1) /\ walk.at > 1
          BY <1>1, <1>2, <5>1
        <5>4. urgencyList[walk.at - 1].ge # urgencyList[walk.at].ge
          BY <3>2 DEF Entering, Entry
        <5>5. urgencyList[j].ge # urgencyList[walk.at].ge
          BY <1>1, <1>3, <5>3, <5>4, EnteredOnce
        <5>q. QED
          BY <5>1, <5>2, <5>5 DEF Entry
      <4>q. QED
        BY <1>7, <1>9, <2>1, <3>2, <4>1
    <3>q. QED
      BY <3>1, <3>2
  <2>5. ASSUME NEW b \in ToSet(Pushed)
        PROVE  \E j \in DOMAIN urgencyList : j < walk.at + 1 /\ location[b] = urgencyList[j].ge
    <3>1. CASE b \in ToSet(gridCandidates)
      BY <2>2, <3>1
    <3>2. CASE b \notin ToSet(gridCandidates)
      <4>1. b \in ToSet(Listed)
        BY <1>9, <3>2
      <4>2. ToSet(<<>>) = {}
        BY DEF ToSet
      <4>3. Entering
        BY <1>6, <4>1, <4>2
      <4>4. location[b] = Entry.ge /\ walk.at < walk.at + 1
        BY <1>1, <1>7, <4>1, <4>3
      <4>q. QED
        BY <1>3, <4>4 DEF Entry
    <3>q. QED
      BY <3>1, <3>2
  <2>q. QED
    BY <2>3, <2>4, <2>5
<1>q. QED
  BY <1>3, <1>6, <1>9, <1>11, <1>12

\* What every step of the walk but an abort leaves as it is.
LEMMA WalkOnFrame ==
  ASSUME GridInv, WalkOn, gphase' = gphase
  PROVE  /\ UNCHANGED gridFixed /\ gcase.mode = "app" /\ gphase = "look" /\ gphase' = "look"
         /\ walk.at <= Len(urgencyList)
         /\ foundRemains' = foundRemains /\ withWorker' = withWorker /\ windowed' = windowed
         /\ GridTables' /\ GridBoxes' = GridBoxes /\ gcase' = gcase /\ urgencyList' = urgencyList
         /\ GridTables /\ PlaceTypes(GridBoxes, location, boxList) /\ InPlace
         /\ MayRun' /\ AbortExplained'
<1>1. /\ UNCHANGED gridFixed /\ gcase.mode = "app" /\ gphase = "look"
      /\ walk.at <= Len(urgencyList)
      /\ foundRemains' = foundRemains /\ withWorker' = withWorker /\ windowed' = windowed
  BY DEF WalkOn
<1>3. /\ GridTables' /\ GridBoxes' = GridBoxes /\ gcase' = gcase /\ urgencyList' = urgencyList
  BY <1>1, TablesStay DEF GridInv, GridTyping
<1>4. MayRun' /\ AbortExplained'
  BY <1>1, <1>3 DEF MayRun, AbortExplained
<1>q. QED
  BY <1>1, <1>3, <1>4 DEF GridInv, GridTyping

\* A walk at its limit is no longer tidy.
LEMMA WalkFullInv ==
  ASSUME GridInv, WalkOn, WalkFull
  PROVE  GridInv'
<1>0. /\ location' = location /\ boxList' = boxList /\ untestedBoxes' = untestedBoxes
      /\ gridCandidates' = Pushed /\ lockedBoxes' = lockedBoxes /\ stoppedShort' = TRUE
      /\ walk' = [walk EXCEPT !.at = Len(urgencyList) + 1] /\ gphase' = gphase
  BY DEF WalkFull, StopShort, gridPlaces
<1>1. /\ gcase.mode = "app" /\ gphase = "look" /\ gphase' = "look"
      /\ walk.at <= Len(urgencyList)
      /\ foundRemains' = foundRemains /\ withWorker' = withWorker /\ windowed' = windowed
      /\ GridTables' /\ GridBoxes' = GridBoxes /\ gcase' = gcase /\ urgencyList' = urgencyList
      /\ MayRun' /\ AbortExplained'
  BY <1>0, WalkOnFrame
<1>2. Pushed \in Seq(GridBoxes) /\ walk.at \in DOMAIN urgencyList
  BY <1>1, WalkFacts
<1>3. GridTyping'
  <2>1. PlaceTypes(GridBoxes, location, boxList)'
    BY <1>0, <1>1 DEF GridInv, GridTyping, PlaceTypes
  <2>2. walk' \in [at : Nat \ {0}, assigned : [Cells -> Nat]]
    <3>1. Len(urgencyList) \in Nat
      <4>1. urgencyList \in Seq(Urgencies)
        BY UrgencyListProperties DEF GridInv, GridTyping
      <4>q. QED
        BY <4>1
    <3>q. QED
      BY <1>0, <3>1 DEF GridInv, GridTyping
  <2>q. QED
    BY <1>0, <1>1, <1>2, <2>1, <2>2 DEF GridInv, GridTyping
<1>4. InPlace'
  BY <1>0, <1>1 DEF GridInv, InPlace, Located
<1>5. LocksGiven' /\ TidyWalk'
  BY <1>0, <1>1 DEF LocksGiven, TidyWalk
<1>q. QED
  BY <1>1, <1>3, <1>4, <1>5 DEF GridInv

\* A box passed over is not looked at again.
LEMMA PassOverInv ==
  ASSUME GridInv, WalkOn, PassOver
  PROVE  GridInv'
<1>0. /\ location' = location /\ boxList' = boxList
      /\ untestedBoxes' = untestedBoxes \ {Looked}
      /\ gridCandidates' = Pushed /\ lockedBoxes' = lockedBoxes /\ stoppedShort' = stoppedShort
      /\ walk' = [walk EXCEPT !.at = @ + 1] /\ gphase' = gphase
  BY DEF PassOver, GoOn, gridPlaces
<1>1. /\ gcase.mode = "app" /\ gphase = "look" /\ gphase' = "look"
      /\ walk.at <= Len(urgencyList)
      /\ foundRemains' = foundRemains /\ withWorker' = withWorker /\ windowed' = windowed
      /\ GridTables' /\ GridBoxes' = GridBoxes /\ gcase' = gcase /\ urgencyList' = urgencyList
      /\ MayRun' /\ AbortExplained'
  BY <1>0, WalkOnFrame
<1>2. /\ Pushed \in Seq(GridBoxes)
      /\ Tidy =>
           /\ IsInjective(Pushed)
           /\ \A b \in ToSet(Pushed) :
                \E j \in DOMAIN urgencyList : j < walk.at + 1 /\ location[b] = urgencyList[j].ge
  BY <1>1, WalkFacts
<1>w. /\ walk \in [at : Nat \ {0}, assigned : [Cells -> Nat]]
      /\ walk' \in [at : Nat \ {0}, assigned : [Cells -> Nat]]
      /\ walk'.at = walk.at + 1 /\ walk'.assigned = walk.assigned
  BY <1>0 DEF GridInv, GridTyping
<1>3. GridTyping'
  <2>1. PlaceTypes(GridBoxes, location, boxList)'
    BY <1>0, <1>1 DEF GridInv, GridTyping, PlaceTypes
  <2>q. QED
    BY <1>0, <1>1, <1>2, <1>w, <2>1 DEF GridInv, GridTyping
<1>4. InPlace'
  BY <1>0, <1>1 DEF GridInv, InPlace, Located
<1>5. LocksGiven'
  BY <1>0, <1>1 DEF GridInv, LocksGiven
<1>6. TidyWalk'
  <2> SUFFICES ASSUME ~stoppedShort, ~foundRemains PROVE TidyWalk'
    BY <1>0, <1>1 DEF TidyWalk
  <2>1. /\ Placed \cap untestedBoxes = {}
        /\ \A c \in Cells : walk.assigned[c] > 0 => \E b \in GridBoxes : location[b] = c
    BY <1>1 DEF GridInv, TidyWalk
  <2>2. Placed' = Placed
    BY <1>0, <1>1 DEF Placed
  <2>3. Placed' \cap untestedBoxes' = {}
    BY <1>0, <2>1, <2>2
  <2>4. \A c \in Cells : walk'.assigned[c] > 0 => \E b \in GridBoxes' : location'[b] = c
    BY <1>0, <1>1, <1>w, <2>1
  <2>5. IsInjective(gridCandidates')
    BY <1>0, <1>2 DEF Tidy
  <2>6. \A b \in ToSet(gridCandidates') :
          \E j \in DOMAIN urgencyList' : j < walk'.at /\ location'[b] = urgencyList'[j].ge
    BY <1>0, <1>1, <1>2, <1>w DEF Tidy
  <2>q. QED
    BY <2>3, <2>4, <2>5, <2>6 DEF TidyWalk
<1>q. QED
  BY <1>1, <1>3, <1>4, <1>5, <1>6 DEF GridInv

\* In a tidy walk a box is loaded that was nowhere and that is not a candidate: on
\* entering a cell the box looked at is one that is placed, and none such is untested.
LEMMA LoadLookedInv ==
  ASSUME GridInv, WalkOn, NEW latency \in GridLatencies, LoadLooked(latency), gphase' = gphase
  PROVE  GridInv'
<1> DEFINE loaded == IF location[Looked] # NoCell /\ location[Looked] = PointedTo(Looked, latency)
                     THEN location[Looked] ELSE AssignedCell(Looked, latency)
           found  == IF loaded = Entry.ge THEN Append(Pushed, Entry.box) ELSE Pushed
           full   == loaded = Entry.ge /\ Len(found) >= NumWanted
<1>p. gphase = "look"
  BY DEF WalkOn
<1>0. /\ Looked \in (untestedBoxes \cap windowed) \ lockedBoxes
      /\ loaded # NoCell
      /\ LoadPriorityAssignment(Looked, latency)
      /\ untestedBoxes' = untestedBoxes \ {Looked}
      /\ gridCandidates' = found
      /\ walk' = [at |-> IF full THEN Len(urgencyList) + 1 ELSE walk.at + 1,
                  assigned |-> [walk.assigned EXCEPT ![loaded] = @ + 1]]
      /\ stoppedShort' = (stoppedShort \/ full)
      /\ lockedBoxes' = IF full THEN lockedBoxes \cup {Looked} ELSE lockedBoxes
      /\ gphase' = gphase
  BY <1>p DEF LoadLooked
<1>1. /\ gcase.mode = "app" /\ gphase = "look" /\ gphase' = "look"
      /\ walk.at <= Len(urgencyList)
      /\ foundRemains' = foundRemains /\ withWorker' = withWorker /\ windowed' = windowed
      /\ GridTables' /\ GridBoxes' = GridBoxes /\ gcase' = gcase /\ urgencyList' = urgencyList
      /\ GridTables /\ PlaceTypes(GridBoxes, location, boxList) /\ InPlace
      /\ MayRun' /\ AbortExplained'
  BY <1>0, WalkOnFrame
<1>2. /\ walk.at \in DOMAIN urgencyList /\ Entry \in Urgencies
      /\ Pushed \in Seq(GridBoxes) /\ Looked \in GridBoxes
      /\ ~Entering => Pushed = gridCandidates /\ Looked = Entry.box
      /\ Tidy =>
           /\ Entering => Looked \in Placed
           /\ IsInjective(Pushed)
           /\ \A b \in ToSet(Pushed) :
                \E j \in DOMAIN urgencyList : j < walk.at + 1 /\ location[b] = urgencyList[j].ge
  BY <1>1, WalkFacts
<1>3. Entry.box \in GridBoxes /\ Entry.ge \in Cells
  BY <1>2 DEF Urgencies
<1>4. latency \in Nat
  BY GridAssumption
<1>5. /\ PlaceTypes(GridBoxes, location', boxList') /\ Located(GridBoxes, location', boxList')
      /\ \A a \in GridBoxes : a # Looked => location'[a] = location[a]
      /\ location'[Looked] \in Cells
      /\ location[Looked] = NoCell => location'[Looked] = AssignedCell(Looked, latency)
  BY <1>0, <1>1, <1>2, <1>4, LoadedPlace
<1>6. loaded \in Cells
  <2>1. location[Looked] \in Cells \cup {NoCell}
    BY <1>1, <1>2 DEF PlaceTypes
  <2>2. AssignedCell(Looked, latency) \in Cells \cup {NoCell}
    BY <1>1, <1>2, <1>4, AssignedCellType
  <2>q. QED
    BY <1>0, <2>1, <2>2
<1>7. location[Looked] = NoCell => location'[Looked] = loaded
  BY <1>5
<1> HIDE DEF loaded
<1>8. /\ found \in Seq(GridBoxes)
      /\ loaded # Entry.ge => found = Pushed
      /\ loaded = Entry.ge =>
           /\ ToSet(found) = ToSet(Pushed) \cup {Entry.box}
           /\ (IsInjective(Pushed) /\ Entry.box \notin ToSet(Pushed)) => IsInjective(found)
  <2>1. CASE loaded # Entry.ge
    BY <1>2, <2>1
  <2>2. CASE loaded = Entry.ge
    <3>1. found = Append(Pushed, Entry.box)
      BY <2>2
    <3> HIDE DEF found
    <3>q. QED
      BY <1>2, <1>3, <2>2, <3>1, AppendElements
  <2>q. QED
    BY <2>1, <2>2
<1> HIDE DEF found
<1>f. full \in BOOLEAN
  OBVIOUS
<1> HIDE DEF full
<1>w. /\ walk \in [at : Nat \ {0}, assigned : [Cells -> Nat]]
      /\ walk' \in [at : Nat \ {0}, assigned : [Cells -> Nat]]
      /\ ~full => walk'.at = walk.at + 1
      /\ \A c \in Cells : c # loaded => walk'.assigned[c] = walk.assigned[c]
  <2>1. walk \in [at : Nat \ {0}, assigned : [Cells -> Nat]]
    BY DEF GridInv, GridTyping
  <2>2. Len(urgencyList) \in Nat
    <3>1. urgencyList \in Seq(Urgencies)
      BY <1>1, UrgencyListProperties
    <3>q. QED
      BY <3>1
  <2>3. /\ walk'.at = IF full THEN Len(urgencyList) + 1 ELSE walk.at + 1
        /\ walk'.assigned = [walk.assigned EXCEPT ![loaded] = @ + 1]
    BY <1>0
  <2>4. [walk.assigned EXCEPT ![loaded] = @ + 1] \in [Cells -> Nat]
    BY <1>6, <2>1
  <2>5. (IF full THEN Len(urgencyList) + 1 ELSE walk.at + 1) \in Nat \ {0}
    BY <1>f, <2>1, <2>2
  <2>6. walk' \in [at : Nat \ {0}, assigned : [Cells -> Nat]]
    BY <1>0, <2>4, <2>5
  <2>q. QED
    BY <1>6, <2>1, <2>3, <2>6
<1>9. GridTyping'
  <2>1. PlaceTypes(GridBoxes, location, boxList)'
    BY <1>1, <1>5 DEF PlaceTypes
  <2>2. lockedBoxes' \subseteq GridBoxes /\ stoppedShort' \in BOOLEAN
    BY <1>0, <1>2 DEF GridInv, GridTyping
  <2>q. QED
    BY <1>0, <1>1, <1>8, <1>w, <2>1, <2>2 DEF GridInv, GridTyping
<1>10. InPlace'
  BY <1>1, <1>5 DEF InPlace, Located
<1>11. LocksGiven'
  <2>1. stoppedShort \/ lockedBoxes = withWorker
    BY <1>1 DEF GridInv, LocksGiven
  <2>2. stoppedShort' \/ lockedBoxes' = withWorker'
    BY <1>0, <1>1, <2>1
  <2>q. QED
    BY <1>1, <2>2 DEF LocksGiven
<1>12. TidyWalk'
  <2> SUFFICES ASSUME ~stoppedShort, ~full, ~foundRemains PROVE TidyWalk'
    BY <1>0, <1>1 DEF TidyWalk
  <2>1. /\ Placed \cap untestedBoxes = {}
        /\ \A c \in Cells : walk.assigned[c] > 0 => \E b \in GridBoxes : location[b] = c
    BY <1>1 DEF GridInv, TidyWalk
  <2>2. Looked \notin Placed /\ location[Looked] = NoCell
    BY <1>0, <1>2, <2>1 DEF Placed
  <2>3. ~Entering /\ Pushed = gridCandidates /\ Looked = Entry.box
    BY <1>2, <2>2 DEF Tidy
  <2>4. location'[Looked] = loaded
    BY <1>7, <2>2
  <2>5. Placed' \subseteq Placed \cup {Looked}
    BY <1>1, <1>5 DEF Placed
  <2>6. Placed' \cap untestedBoxes' = {}
    BY <1>0, <2>1, <2>5
  <2>7. \A c \in Cells : walk'.assigned[c] > 0 => \E b \in GridBoxes' : location'[b] = c
    <3> SUFFICES ASSUME NEW c \in Cells, walk'.assigned[c] > 0
                 PROVE  \E b \in GridBoxes : location'[b] = c
      BY <1>1
    <3>1. CASE c = loaded
      BY <1>2, <2>4, <3>1
    <3>2. CASE c # loaded
      <4>1. PICK b \in GridBoxes : location[b] = c
        BY <1>w, <2>1, <3>2
      <4>2. b # Looked
        BY <2>2, <4>1, NoCellOutside
      <4>q. QED
        BY <1>5, <4>1, <4>2
    <3>q. QED
      BY <3>1, <3>2
  <2>8. /\ IsInjective(Pushed)
        /\ \A b \in ToSet(Pushed) :
             \E j \in DOMAIN urgencyList : j < walk.at + 1 /\ location[b] = urgencyList[j].ge
    BY <1>2 DEF Tidy
  <2>9. \A j \in DOMAIN urgencyList : urgencyList[j].ge \in Cells
    <3>1. urgencyList \in Seq(Urgencies)
      BY <1>1, UrgencyListProperties
    <3>2. \A j \in DOMAIN urgencyList : urgencyList[j] \in Urgencies
      BY <3>1
    <3>q. QED
      BY <3>2 DEF Urgencies
  <2>10. Looked \notin ToSet(Pushed)
    BY <2>2, <2>8, <2>9, NoCellOutside
  <2>11. \A b \in ToSet(Pushed) : b \in GridBoxes
    BY <1>2, ElementsOf
  <2>12. ASSUME NEW b \in ToSet(Pushed)
         PROVE  \E j \in DOMAIN urgencyList : j < walk.at + 1 /\ location'[b] = urgencyList[j].ge
    BY <1>5, <2>8, <2>10, <2>11
  <2>13. /\ IsInjective(found)
         /\ \A b \in ToSet(found) :
              \E j \in DOMAIN urgencyList : j < walk.at + 1 /\ location'[b] = urgencyList[j].ge
    <3>1. CASE loaded # Entry.ge
      BY <1>8, <2>8, <2>12, <3>1
    <3>2. CASE loaded = Entry.ge
      <4>1. walk.at < walk.at + 1
        BY <1>w
      <4>2. \E j \in DOMAIN urgencyList : j < walk.at + 1 /\ location'[Looked] = urgencyList[j].ge
        BY <1>2, <2>4, <3>2, <4>1 DEF Entry
      <4>3. ToSet(found) = ToSet(Pushed) \cup {Looked} /\ IsInjective(found)
        BY <1>8, <2>3, <2>8, <2>10, <3>2
      <4>q. QED
        BY <2>12, <4>2, <4>3
    <3>q. QED
      BY <3>1, <3>2
  <2>14. \A b \in ToSet(gridCandidates') :
           \E j \in DOMAIN urgencyList' : j < walk'.at /\ location'[b] = urgencyList'[j].ge
    BY <1>0, <1>1, <1>w, <2>13
  <2>15. IsInjective(gridCandidates')
    BY <1>0, <2>13
  <2>q. QED
    BY <2>6, <2>7, <2>14, <2>15 DEF TidyWalk
<1>q. QED
  BY <1>1, <1>9, <1>10, <1>11, <1>12 DEF GridInv

\* A walk is aborted for a box without a cell.
LEMMA LoadLookedAborts ==
  ASSUME GridInv, WalkOn, NEW latency \in GridLatencies, LoadLooked(latency), gphase' # gphase
  PROVE  GridInv'
<1> DEFINE loaded == IF location[Looked] # NoCell /\ location[Looked] = PointedTo(Looked, latency)
                     THEN location[Looked] ELSE AssignedCell(Looked, latency)
           found  == IF loaded = Entry.ge THEN Append(Pushed, Entry.box) ELSE Pushed
<1>0. /\ loaded = NoCell /\ gphase' = "abort"
      /\ untestedBoxes' = untestedBoxes \ {Looked}
      /\ gridCandidates' = found
      /\ location' = location /\ boxList' = boxList /\ walk' = walk
      /\ stoppedShort' = stoppedShort /\ lockedBoxes' = lockedBoxes
  BY DEF LoadLooked, gridPlaces
<1>1. /\ UNCHANGED gridFixed /\ gcase.mode = "app" /\ gphase = "look"
      /\ walk.at <= Len(urgencyList)
      /\ foundRemains' = foundRemains /\ withWorker' = withWorker /\ windowed' = windowed
  BY DEF WalkOn
<1>2. /\ GridTables' /\ GridBoxes' = GridBoxes /\ gcase' = gcase
      /\ urgencyList' = urgencyList /\ Homeless' = Homeless /\ Shared' = Shared
  BY <1>1, TablesStay DEF GridInv, GridTyping
<1>3. GridTables /\ PlaceTypes(GridBoxes, location, boxList) /\ InPlace
  BY DEF GridInv, GridTyping
<1>4. Entry \in Urgencies /\ Pushed \in Seq(GridBoxes) /\ Looked \in GridBoxes
  BY <1>1, WalkFacts
<1>5. latency \in Nat
  BY GridAssumption
<1>6. AssignedCell(Looked, latency) = NoCell
  BY <1>0
<1>7. Looked \in Homeless
  BY <1>3, <1>4, <1>5, <1>6, AssignedCellType
<1>8. found \in Seq(GridBoxes)
  <2> HIDE DEF loaded
  <2>1. Entry.box \in GridBoxes
    BY <1>4 DEF Urgencies
  <2>q. QED
    BY <1>4, <2>1
<1> HIDE DEF loaded, found
<1>9. GridTyping'
  <2>1. PlaceTypes(GridBoxes, location, boxList)'
    BY <1>0, <1>2, <1>3 DEF PlaceTypes
  <2>q. QED
    BY <1>0, <1>1, <1>2, <1>8, <2>1 DEF GridInv, GridTyping
<1>10. InPlace'
  BY <1>0, <1>2, <1>3 DEF InPlace, Located
<1>11. MayRun' /\ TidyWalk'
  BY <1>0, <1>1, <1>2 DEF MayRun, TidyWalk
<1>12. LocksGiven'
  BY <1>0, <1>1, <1>2 DEF GridInv, LocksGiven
<1>13. AbortExplained'
  BY <1>2, <1>7 DEF AbortExplained
<1>q. QED
  BY <1>9, <1>10, <1>11, <1>12, <1>13 DEF GridInv

\* The steps of a walk.
LEMMA WalkOnInv ==
  ASSUME GridInv, WalkOn
  PROVE  GridInv'
<1>1. WalkFull \/ PassOver \/ \E latency \in GridLatencies : LoadLooked(latency)
  BY DEF WalkOn
<1>q. QED
  BY <1>1, WalkFullInv, PassOverInv, LoadLookedInv, LoadLookedAborts

\* At the end of a tidy walk every candidate is in the grid, and there once.
LEMMA EndWalkInv ==
  ASSUME GridInv, EndWalk
  PROVE  GridInv'
<1>0. /\ UNCHANGED gridFixed /\ gcase.mode = "app" /\ gphase = "look"
      /\ untestedBoxes' = untestedBoxes /\ gridCandidates' = gridCandidates
      /\ walk' = [at |-> 1, assigned |-> [c \in Cells |-> 0]]
      /\ stoppedShort' = stoppedShort /\ foundRemains' = foundRemains
      /\ lockedBoxes' = lockedBoxes /\ withWorker' = withWorker /\ windowed' = windowed
  BY DEF EndWalk, gridHistory
<1>1. /\ GridTables' /\ GridBoxes' = GridBoxes /\ gcase' = gcase /\ urgencyList' = urgencyList
  BY <1>0, TablesStay DEF GridInv, GridTyping
<1>b. /\ GridTables /\ PlaceTypes(GridBoxes, location, boxList) /\ InPlace
      /\ gridCandidates \in Seq(GridBoxes)
  BY DEF GridInv, GridTyping
<1>2. ~Removable(gridCandidates) => stoppedShort \/ foundRemains
  <2> SUFFICES ASSUME ~stoppedShort, ~foundRemains PROVE Removable(gridCandidates)
    OBVIOUS
  <2>1. /\ IsInjective(gridCandidates)
        /\ \A b \in ToSet(gridCandidates) :
             \E j \in DOMAIN urgencyList : j < walk.at /\ location[b] = urgencyList[j].ge
    BY <1>0 DEF GridInv, TidyWalk
  <2>2. \A j \in DOMAIN urgencyList : urgencyList[j].ge \in Cells
    <3>1. urgencyList \in Seq(Urgencies)
      BY <1>b, UrgencyListProperties
    <3>2. \A j \in DOMAIN urgencyList : urgencyList[j] \in Urgencies
      BY <3>1
    <3>q. QED
      BY <3>2 DEF Urgencies
  <2>3. \A b \in ToSet(gridCandidates) : location[b] # NoCell
    BY <2>1, <2>2, NoCellOutside
  <2>4. \A i \in DOMAIN gridCandidates : gridCandidates[i] \in ToSet(gridCandidates)
    BY DEF ToSet
  <2>q. QED
    BY <2>1, <2>3, <2>4 DEF Removable
<1>3. /\ gphase' \in {"idle", "load", "abort"}
      /\ gphase' = "load" => gridCandidates # <<>>
      /\ gphase' = "abort" => stoppedShort \/ foundRemains
      /\ PlaceTypes(GridBoxes, location', boxList') /\ Located(GridBoxes, location', boxList')
  <2>1. CASE Removable(gridCandidates)
    <3>1. /\ RemoveFromGrid(gridCandidates)
          /\ gphase' = IF gridCandidates = <<>> THEN "idle" ELSE "load"
      BY <2>1 DEF EndWalk
    <3>q. QED
      BY <1>b, <3>1, RemovedPlace
  <2>2. CASE ~Removable(gridCandidates)
    <3>1. gphase' = "abort" /\ location' = location /\ boxList' = boxList
      BY <2>2 DEF EndWalk, gridPlaces
    <3>q. QED
      BY <1>2, <1>b, <2>2, <3>1 DEF InPlace
  <2>q. QED
    BY <2>1, <2>2
<1>4. GridTyping'
  <2>1. PlaceTypes(GridBoxes, location, boxList)'
    BY <1>1, <1>3 DEF PlaceTypes
  <2>2. walk' \in [at : Nat \ {0}, assigned : [Cells -> Nat]]
    BY <1>0
  <2>q. QED
    BY <1>0, <1>1, <1>3, <2>1, <2>2 DEF GridInv, GridTyping
<1>5. InPlace'
  BY <1>1, <1>3 DEF InPlace, Located
<1>6. MayRun'
  BY <1>0, <1>1 DEF MayRun
<1>7. LocksGiven'
  BY <1>0, <1>1, <1>3 DEF GridInv, LocksGiven
<1>8. TidyWalk'
  BY <1>3 DEF TidyWalk
<1>9. AbortExplained'
  BY <1>0, <1>1, <1>3 DEF AbortExplained
<1>q. QED
  BY <1>4, <1>5, <1>6, <1>7, <1>8, <1>9 DEF GridInv

\* A step of something else.
LEMMA GridStutterInv ==
  ASSUME GridInv, UNCHANGED gridVars
  PROVE  GridInv'
<1>0. /\ UNCHANGED gridFixed /\ location' = location /\ boxList' = boxList
      /\ gphase' = gphase /\ untestedBoxes' = untestedBoxes /\ gridCandidates' = gridCandidates
      /\ walk' = walk /\ stoppedShort' = stoppedShort /\ foundRemains' = foundRemains
      /\ lockedBoxes' = lockedBoxes /\ withWorker' = withWorker /\ windowed' = windowed
  BY DEF gridVars, gridPlaces, gridSearch, gridHistory
<1>1. /\ GridTables' /\ GridBoxes' = GridBoxes /\ gcase' = gcase
      /\ urgencyList' = urgencyList /\ Homeless' = Homeless /\ Shared' = Shared
  BY <1>0, TablesStay DEF GridInv, GridTyping
<1>2. Placed' = Placed
  BY <1>0, <1>1 DEF Placed
<1>3. GridTyping'
  BY <1>0, <1>1 DEF GridInv, GridTyping, PlaceTypes
<1>4. InPlace'
  BY <1>0, <1>1 DEF GridInv, InPlace, Located
<1>5. MayRun'
  BY <1>0, <1>1, <1>2 DEF GridInv, MayRun
<1>6. LocksGiven'
  BY <1>0, <1>1 DEF GridInv, LocksGiven
<1>7. TidyWalk'
  BY <1>0, <1>1, <1>2 DEF GridInv, TidyWalk
<1>8. AbortExplained'
  BY <1>0, <1>1 DEF GridInv, AbortExplained
<1>q. QED
  BY <1>3, <1>4, <1>5, <1>6, <1>7, <1>8 DEF GridInv

\* Every step preserves the invariant.
LEMMA GridStepInv == GridInv /\ [GridNext]_gridVars => GridInv'
<1> SUFFICES ASSUME GridInv, [GridNext]_gridVars PROVE GridInv'
  OBVIOUS
<1>1. ASSUME NEW b \in GridBoxes, WindowFills(b) PROVE GridInv'
  BY <1>1, WindowFillsInv
<1>2. ASSUME NEW b \in GridBoxes, RunEnds(b) PROVE GridInv'
  BY <1>2, RunEndsInv
<1>3. ASSUME NEW b \in GridBoxes, LookAt(b) PROVE GridInv'
  BY <1>3, LookAtInv
<1>4. CASE BeginSearch
  BY <1>4, BeginSearchInv
<1>5. CASE Choose
  BY <1>5, ChooseInv
<1>6. CASE LoadCandidate
  BY <1>6, LoadCandidateInv
<1>7. CASE WalkOn
  BY <1>7, WalkOnInv
<1>8. CASE EndWalk
  BY <1>8, EndWalkInv
<1>9. CASE TakeApplication
  BY <1>9, TakeApplicationInv
<1>10. CASE UNCHANGED gridVars
  BY <1>10, GridStutterInv
<1>q. QED
  BY <1>1, <1>2, <1>3, <1>4, <1>5, <1>6, <1>7, <1>8, <1>9, <1>10 DEF GridNext

\* So it always holds.
LEMMA GridAlways == GridSpec => []GridInv
<1>1. GridInit => GridInv
  BY GridInitInv
<1>2. GridInv /\ [GridNext]_gridVars => GridInv'
  BY GridStepInv
<1>q. QED
  BY <1>1, <1>2, PTL DEF GridSpec

(***************************************************************************)
(* Every box is on the list of its cell, what is in the grid may be run,   *)
(* no lock stays behind, and an abort has one of the causes GridSound      *)
(* names: for all graphs, boxes, buckets and latencies.                    *)
(***************************************************************************)
THEOREM GridCorrect == GridSpec => []GridSound
<1>1. GridInv => GridSound
  BY InvSound
<1>q. QED
  BY <1>1, GridAlways, PTL

(***************************************************************************)
(* The cell a latency is put into is at least as steep as the graph is at  *)
(* that latency, and has at least the slack that is left there.            *)
(***************************************************************************)
THEOREM CellsCover == GridSpec => []CellCovers
<1>1. GridInv => CellCovers
  BY CellsCoverOnce DEF GridInv, GridTyping
<1>q. QED
  BY <1>1, GridAlways, PTL

(***************************************************************************)
(* findEligibleBox_Bucketing1 chooses the boxes of the most urgent cells,  *)
(* in their order, and at least one if any is in the grid.                 *)
(***************************************************************************)
THEOREM UrgentFirstHolds == GridSpec => UrgentFirst
<1>1. ASSUME GridInv, GridNext
      PROVE  (gcase.mode = "box" /\ gphase = "look" /\ gphase' = "load") => ChosenFirst
  <2> SUFFICES ASSUME gcase.mode = "box", gphase = "look", gphase' = "load" PROVE ChosenFirst
    OBVIOUS
  <2>1. CASE Choose
    BY <1>1, <2>1, ChooseInv
  <2>2. \A b \in GridBoxes : ~(WindowFills(b) \/ RunEnds(b) \/ LookAt(b))
    <3> SUFFICES ASSUME NEW b \in GridBoxes, WindowFills(b) \/ RunEnds(b) \/ LookAt(b) PROVE FALSE
      OBVIOUS
    <3>1. ~WindowFills(b) /\ ~RunEnds(b)
      BY DEF WindowFills, RunEnds, gridSearch
    <3>2. LookAt(b) => gphase' = gphase \/ gphase' = "abort"
      BY DEF LookAt
    <3>q. QED
      BY <3>1, <3>2
  <2>3. ~(BeginSearch \/ LoadCandidate \/ WalkOn \/ EndWalk \/ TakeApplication)
    BY DEF BeginSearch, LoadCandidate, WalkOn, EndWalk, TakeApplication
  <2>q. QED
    BY <1>1, <2>1, <2>2, <2>3 DEF GridNext
<1>2. GridInv /\ [GridNext]_gridVars =>
        [(gcase.mode = "box" /\ gphase = "look" /\ gphase' = "load") => ChosenFirst]_gridVars
  BY <1>1
<1>q. QED
  BY <1>2, GridAlways, PTL DEF GridSpec, UrgentFirst
=============================================================================
