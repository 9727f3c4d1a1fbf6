--------------------------- MODULE OperatorTheorems ---------------------------
(***************************************************************************)
(* Two operators with state compute what they should, for every stream,    *)
(* however it is cut into trains.                                          *)
(*                                                                         *)
(* A buffer sort sorts.  What holds between two tuples of a train is       *)
(* Sorting: every tuple that came is out or in the buffer of its group,    *)
(* the buffers are sorted and never hold more than the slack, and exactly  *)
(* the slack once a tuple of the group has left.  So a tuple that came     *)
(* before one that left would come after it and all that the buffer holds, *)
(* slack + 1 tuples, which a group in order up to the slack excludes       *)
(* (NoneTooLate).                                                          *)
(*                                                                         *)
(* A join finds its pairs.  What holds between two tuples is JoinHolds:    *)
(* the pairs so far are right, and on streams in order a tuple is in its   *)
(* buffer as long as partners can come; it is not stored, or is erased,    *)
(* only when the other side has passed its window, since a threshold never *)
(* rises above what came on its side (Buffered).                           *)
(***************************************************************************)
EXTENDS Operators, SequenceTheorems, SumTheorems

-----------------------------------------------------------------------------
(* Sequences of tuples and their order.                                     *)

\* The elements of a sequence.
Entries(s) == {s[i] : i \in DOMAIN s}

\* A set of tuples with integers where they are compared.
Comparable(X) == \A x \in X : x.id \in Int /\ x.v \in Int

\* A sequence sorted by Before.
Ordered(s) == \A i, j \in DOMAIN s : i < j => Before(s[i], s[j])

\* Before orders comparable tuples.
LEMMA BeforeTransitive ==
  ASSUME NEW X, Comparable(X), NEW x \in X, NEW y \in X, NEW z \in X,
         Before(x, y), Before(y, z)
  PROVE  Before(x, z)
BY DEF Before, Comparable

\* InsertAt puts the new element between what was before and after.
LEMMA InsertAtProperties ==
  ASSUME NEW X, NEW s \in Seq(X), NEW t \in X, NEW p \in 1..(Len(s) + 1)
  PROVE  /\ InsertAt(s, p, t) \in Seq(X)
         /\ Len(InsertAt(s, p, t)) = Len(s) + 1
         /\ \A i \in 1..(Len(s) + 1) :
              InsertAt(s, p, t)[i] = IF i < p THEN s[i] ELSE IF i = p THEN t ELSE s[i - 1]
<1> DEFINE N == Len(s)
           front == SubSeq(s, 1, p - 1)
           back == SubSeq(s, p, N)
<1>1. N \in Nat /\ p \in Nat /\ p >= 1 /\ p <= N + 1 /\ \A i \in 1..N : s[i] \in X
  OBVIOUS
<1>2. /\ front \in Seq(X) /\ Len(front) = p - 1
      /\ \A i \in 1..(p - 1) : front[i] = s[i]
  <2>1. front = [i \in 1..(p - 1) |-> s[i]]
    BY <1>1
  <2>2. \A i \in 1..(p - 1) : s[i] \in X
    BY <1>1
  <2>q. QED
    BY <2>1, <2>2, <1>1
<1>3. /\ back \in Seq(X) /\ Len(back) = N - p + 1
      /\ \A i \in 1..(N - p + 1) : back[i] = s[i + p - 1]
  <2>1. back = [i \in 1..(N - p + 1) |-> s[i + p - 1]]
    BY <1>1
  <2>2. \A i \in 1..(N - p + 1) : s[i + p - 1] \in X
    BY <1>1
  <2>3. N - p + 1 \in Nat
    BY <1>1
  <2>q. QED
    BY <2>1, <2>2, <2>3
<1>4. InsertAt(s, p, t) = (front \o <<t>>) \o back
  BY DEF InsertAt
<1> HIDE DEF front, back, N
<1> DEFINE mid == front \o <<t>>
<1>5. /\ mid \in Seq(X) /\ Len(mid) = p
      /\ \A i \in 1..p : mid[i] = IF i < p THEN s[i] ELSE t
  BY <1>1, <1>2
<1> HIDE DEF mid
<1> DEFINE all == mid \o back
<1>6. /\ all \in Seq(X) /\ Len(all) = N + 1
      /\ \A i \in 1..(N + 1) : all[i] = IF i <= p THEN mid[i] ELSE back[i - p]
  <2>1. Len(mid) + Len(back) = N + 1
    BY <1>1, <1>3, <1>5
  <2>2. /\ all \in Seq(X) /\ Len(all) = Len(mid) + Len(back)
        /\ \A i \in 1..(Len(mid) + Len(back)) :
             all[i] = IF i <= Len(mid) THEN mid[i] ELSE back[i - Len(mid)]
    BY <1>3, <1>5, ConcatProperties
  <2> HIDE DEF all
  <2>q. QED
    BY <2>1, <2>2, <1>5
<1> HIDE DEF all
<1>7. ASSUME NEW i \in 1..(N + 1)
      PROVE  all[i] = IF i < p THEN s[i] ELSE IF i = p THEN t ELSE s[i - 1]
  <2>1. CASE i <= p
    BY <2>1, <1>1, <1>5, <1>6
  <2>2. CASE i > p
    <3>1. i - p \in 1..(N - p + 1) /\ (i - p) + p - 1 = i - 1
      BY <2>2, <1>1
    <3>2. back[i - p] = s[(i - p) + p - 1]
      BY <3>1, <1>3
    <3>q. QED
      BY <3>1, <3>2, <2>2, <1>1, <1>6
  <2>q. QED
    BY <2>1, <2>2, <1>1
<1>q. QED
  BY <1>4, <1>6, <1>7 DEF mid, N, all

\* In a sorted buffer a later tuple goes behind every tuple not greater, and
\* before every greater one.
LEMMA InsertPositionProperties ==
  ASSUME NEW X, Comparable(X), NEW s \in Seq(X), NEW t \in X, Ordered(s)
  PROVE  LET p == InsertPosition(s, t) IN
         /\ p \in 1..(Len(s) + 1)
         /\ \A j \in 1..Len(s) : j < p => s[j].v <= t.v
         /\ \A j \in 1..Len(s) : j >= p => t.v < s[j].v
<1> DEFINE N == Len(s)
           p == InsertPosition(s, t)
           Greater == {i \in 1..N : t.v < s[i].v}
<1>1. N \in Nat /\ DOMAIN s = 1..N /\ t.v \in Int /\ \A i \in 1..N : s[i].v \in Int
  BY DEF Comparable
<1>2. \A i, j \in 1..N : i < j => s[i].v <= s[j].v
  BY <1>1 DEF Ordered, Before
<1>3. CASE s # <<>> /\ t.v >= Last(s).v
  <2>1. N >= 1 /\ Last(s) = s[N]
    BY <1>3 DEF Last
  <2>2. p = N + 1
    BY <1>3 DEF InsertPosition
  <2>3. \A j \in 1..N : s[j].v <= s[N].v
    BY <1>1, <1>2, <2>1
  <2>4. \A j \in 1..N : s[j].v <= t.v
    BY <1>1, <1>3, <2>1, <2>3
  <2>q. QED
    BY <1>1, <2>1, <2>2, <2>4
<1>4. CASE ~(s # <<>> /\ t.v >= Last(s).v)
  <2>1. CASE s = <<>>
    <3>1. N = 0 /\ DOMAIN s = {}
      BY <2>1
    <3>2. p = 1
      BY <2>1, <3>1 DEF InsertPosition
    <3>q. QED
      BY <3>1, <3>2
  <2>2. CASE s # <<>>
    <3>1. N \in 1..N /\ t.v < s[N].v
      BY <1>1, <1>4, <2>2 DEF Last
    <3>2. Greater \subseteq Nat /\ Greater # {}
      BY <3>1
    <3>3. PICK k \in Greater : \A m \in Greater : k <= m
      BY <3>2, NatLeast
    <3>4. k \in DOMAIN s /\ t.v < s[k].v /\ \A j \in 1..(k - 1) : ~(t.v < s[j].v)
      BY <1>1, <3>3
    <3>5. p = CHOOSE i \in DOMAIN s : t.v < s[i].v /\ \A j \in 1..(i - 1) : ~(t.v < s[j].v)
      BY <1>4, <3>4 DEF InsertPosition
    <3>6. p \in DOMAIN s /\ t.v < s[p].v /\ \A j \in 1..(p - 1) : ~(t.v < s[j].v)
      BY <3>4, <3>5
    <3> HIDE DEF p
    <3>7. p \in 1..N
      BY <1>1, <3>6
    <3>8. \A j \in 1..N : j < p => s[j].v <= t.v
      BY <1>1, <3>6, <3>7
    <3>9. \A j \in 1..N : j >= p => t.v < s[j].v
      BY <1>1, <1>2, <3>6, <3>7
    <3>10. p \in 1..(N + 1)
      BY <1>1, <3>7
    <3>q. QED
      BY <3>8, <3>9, <3>10 DEF p
  <2>q. QED
    BY <2>1, <2>2
<1>q. QED
  BY <1>3, <1>4

\* A sorted buffer stays sorted when a tuple is added that came after all in it.
LEMMA InsertKeepsOrder ==
  ASSUME NEW X, Comparable(X), NEW s \in Seq(X), NEW t \in X, Ordered(s),
         \A i \in DOMAIN s : s[i].id < t.id
  PROVE  LET new == InsertAt(s, InsertPosition(s, t), t) IN
         /\ new \in Seq(X) /\ Len(new) = Len(s) + 1
         /\ Ordered(new)
         /\ Entries(new) = Entries(s) \cup {t}
<1> DEFINE N == Len(s)
           p == InsertPosition(s, t)
           new == InsertAt(s, p, t)
<1>1. N \in Nat /\ DOMAIN s = 1..N /\ t.v \in Int /\ t.id \in Int
      /\ \A i \in 1..N : s[i].v \in Int /\ s[i].id \in Int /\ s[i].id < t.id
  BY DEF Comparable
<1>2. /\ p \in 1..(N + 1)
      /\ \A j \in 1..N : j < p => s[j].v <= t.v
      /\ \A j \in 1..N : j >= p => t.v < s[j].v
  BY InsertPositionProperties
<1> HIDE DEF p
<1>3. /\ new \in Seq(X) /\ Len(new) = N + 1
      /\ \A i \in 1..(N + 1) : new[i] = IF i < p THEN s[i] ELSE IF i = p THEN t ELSE s[i - 1]
  BY <1>2, InsertAtProperties
<1> HIDE DEF new
<1>4. DOMAIN new = 1..(N + 1) /\ p \in Int
  BY <1>1, <1>2, <1>3
<1> HIDE DEF N
<1>5. \A j \in 1..N : j < p => Before(s[j], t)
  BY <1>1, <1>2 DEF Before
<1>6. \A j \in 1..N : j >= p => Before(t, s[j])
  BY <1>1, <1>2 DEF Before
<1>7. ASSUME NEW i \in 1..(N + 1), NEW j \in 1..(N + 1), i < j
      PROVE  Before(new[i], new[j])
  <2>1. CASE j < p
    <3>1. new[i] = s[i] /\ new[j] = s[j] /\ i \in 1..N /\ j \in 1..N
      BY <2>1, <1>1, <1>3, <1>4, <1>7, <1>2
    <3>q. QED
      BY <3>1, <1>1, <1>7 DEF Ordered
  <2>2. CASE j = p
    <3>1. new[i] = s[i] /\ new[j] = t /\ i \in 1..N /\ i < p
      BY <2>2, <1>1, <1>3, <1>4, <1>7, <1>2
    <3>q. QED
      BY <3>1, <1>5
  <2>3. CASE j > p /\ i < p
    <3>1. i \in 1..N /\ j - 1 \in 1..N /\ i < j - 1 /\ i \in Int /\ j \in Int
      BY <2>3, <1>1, <1>4, <1>2
    <3>2. new[i] = s[i]
      BY <2>3, <1>3
    <3>3. new[j] = s[j - 1]
      BY <2>3, <3>1, <1>3, <1>4
    <3>q. QED
      BY <3>1, <3>2, <3>3, <1>1 DEF Ordered
  <2>4. CASE j > p /\ i = p
    <3>1. new[i] = t /\ new[j] = s[j - 1] /\ j - 1 \in 1..N /\ j - 1 >= p
      BY <2>4, <1>1, <1>3, <1>4, <1>7, <1>2
    <3>q. QED
      BY <3>1, <1>6
  <2>5. CASE j > p /\ i > p
    <3>1. i - 1 \in 1..N /\ j - 1 \in 1..N /\ i - 1 < j - 1 /\ i \in Int /\ j \in Int
      BY <2>5, <1>1, <1>4, <1>7, <1>2
    <3>2. new[i] = s[i - 1]
      BY <2>5, <3>1, <1>3, <1>4
    <3>3. new[j] = s[j - 1]
      BY <2>5, <3>1, <1>3, <1>4
    <3>q. QED
      BY <3>1, <3>2, <3>3, <1>1 DEF Ordered
  <2>q. QED
    BY <2>1, <2>2, <2>3, <2>4, <2>5, <1>4
<1>8. Entries(new) = Entries(s) \cup {t}
  <2>1. ASSUME NEW i \in 1..(N + 1) PROVE new[i] \in Entries(s) \cup {t}
    <3>1. CASE i < p
      BY <3>1, <1>1, <1>2, <1>3, <1>4 DEF Entries
    <3>2. CASE i = p
      BY <3>2, <1>3
    <3>3. CASE i > p
      <4>1. i - 1 \in DOMAIN s /\ new[i] = s[i - 1]
        BY <3>3, <1>1, <1>2, <1>3, <1>4
      <4>q. QED
        BY <4>1 DEF Entries
    <3>q. QED
      BY <3>1, <3>2, <3>3, <1>4
  <2>2. ASSUME NEW i \in 1..N PROVE s[i] \in Entries(new)
    <3>1. CASE i < p
      <4>1. i \in DOMAIN new /\ new[i] = s[i]
        BY <3>1, <1>1, <1>3, <1>4
      <4>q. QED
        BY <4>1 DEF Entries
    <3>2. CASE i >= p
      <4>1. i + 1 \in DOMAIN new /\ new[i + 1] = s[i]
        BY <3>2, <1>1, <1>3, <1>4
      <4>q. QED
        BY <4>1 DEF Entries
    <3>q. QED
      BY <3>1, <3>2, <1>4
  <2>3. t \in Entries(new)
    <3>1. p \in DOMAIN new /\ new[p] = t
      BY <1>2, <1>3, <1>4
    <3>q. QED
      BY <3>1 DEF Entries
  <2>q. QED
    BY <2>1, <2>2, <2>3, <1>1, <1>4 DEF Entries
<1>q. QED
  BY <1>3, <1>4, <1>7, <1>8 DEF Ordered, new, p, N

-----------------------------------------------------------------------------
\* A stream as CasesAssumption has them.
Numbered(s) ==
  /\ s \in Seq(Entries(s))
  /\ \A i \in DOMAIN s : s[i].id \in Int /\ s[i].v \in Int
  /\ \A i, j \in DOMAIN s : i < j => s[i].id < s[j].id

\* The tuples of a group among the first c of a stream.
CameOf(s, c, g) == {s[i] : i \in {j \in 1..c : s[j].g = g}}

(***************************************************************************)
(* The buffers after c tuples of the stream s came, and the tuples o that  *)
(* left.                                                                   *)
(***************************************************************************)
Holding(s, buffers, o, c) ==
  /\ o \in Seq({s[i] : i \in 1..c})
  /\ DOMAIN buffers = {s[i].g : i \in 1..c}
  /\ \A g \in DOMAIN buffers :
       /\ buffers[g] \in Seq(CameOf(s, c, g))
       /\ Ordered(buffers[g])
       /\ Len(buffers[g]) <= BSortSlack
       /\ PlacesOf(o, g) # {} => Len(buffers[g]) = BSortSlack
  /\ \A i \in 1..c : s[i] \in Entries(o) \cup Entries(buffers[s[i].g])

Sorting(s, buffers, o, c) ==
  /\ Holding(s, buffers, o, c)
  /\ \A g \in DOMAIN buffers : GroupInOrder(s, g, BSortSlack) =>
       /\ \A i, j \in PlacesOf(o, g) : i < j => Before(o[i], o[j])
       /\ \A i \in PlacesOf(o, g), j \in DOMAIN buffers[g] : Before(o[i], buffers[g][j])

\* A tuple of an ordered group that is yet to come does not belong before one
\* that has left: this one, and what the buffer holds, would be too many.
LEMMA NoneTooLate ==
  ASSUME BSortSlack \in Nat, NEW s, Numbered(s), NEW c \in Nat, c <= Len(s),
         NEW buffers, NEW o, Sorting(s, buffers, o, c),
         NEW m \in DOMAIN s, m > c, s[m].g \in DOMAIN buffers,
         GroupInOrder(s, s[m].g, BSortSlack),
         NEW k \in PlacesOf(o, s[m].g)
  PROVE  Before(o[k], s[m])
<1> DEFINE t == s[m]
           g == s[m].g
           x == o[k]
           b == buffers[g]
           Larger == {j \in PlacesOf(s, g) : j < m /\ s[j].v > t.v}
<1>1. Len(s) \in Nat /\ DOMAIN s = 1..Len(s) /\ m \in Nat
  BY DEF Numbered
<1>2. \A i \in 1..c : i \in DOMAIN s /\ i < m
  BY <1>1
<1>3. k \in DOMAIN o /\ x.g = g /\ o \in Seq({s[i] : i \in 1..c})
  BY DEF PlacesOf, Sorting, Holding
<1>4. x \in {s[i] : i \in 1..c}
  BY <1>3
<1>5. /\ b \in Seq(CameOf(s, c, g)) /\ Ordered(b) /\ Len(b) = BSortSlack
      /\ \A j \in DOMAIN b : Before(x, b[j])
  BY DEF Sorting, Holding
<1> HIDE DEF b, x
<1>6. DOMAIN b = 1..BSortSlack /\ \A j \in DOMAIN b : b[j] \in CameOf(s, c, g)
  BY <1>5
<1>7. PICK i0 \in 1..c : x = s[i0]
  BY <1>4
<1>8. x.id \in Int /\ x.v \in Int /\ t.v \in Int /\ t.id \in Int /\ x.id < t.id
  BY <1>2, <1>7 DEF Numbered
<1>9. SUFFICES ASSUME ~Before(x, t) PROVE FALSE
  BY DEF x
<1>10. t.v < x.v
  BY <1>8, <1>9 DEF Before
<1> DEFINE all == [i \in 1..(BSortSlack + 1) |-> IF i <= BSortSlack THEN b[i] ELSE x]
           At(y) == CHOOSE j \in 1..c : s[j] = y
           f == [i \in 1..(BSortSlack + 1) |-> At(all[i])]
<1>11. ASSUME NEW i \in 1..(BSortSlack + 1)
       PROVE  /\ all[i] \in CameOf(s, c, g)
              /\ all[i].v \in Int /\ all[i].v >= x.v
  <2>1. all[i] \in CameOf(s, c, g)
    <3>1. x \in CameOf(s, c, g)
      BY <1>3, <1>7 DEF CameOf
    <3>2. i <= BSortSlack => i \in DOMAIN b
      BY <1>6
    <3>q. QED
      BY <3>1, <3>2, <1>6
  <2>2. all[i].v \in Int
    <3>1. PICK j \in 1..c : all[i] = s[j]
      BY <2>1 DEF CameOf
    <3>q. QED
      BY <3>1, <1>2 DEF Numbered
  <2>3. all[i].v >= x.v
    <3>1. CASE i <= BSortSlack
      <4>1. all[i] = b[i] /\ i \in DOMAIN b
        BY <3>1, <1>6
      <4>2. Before(x, b[i])
        BY <4>1, <1>5
      <4>q. QED
        BY <4>1, <4>2, <2>2, <1>8 DEF Before
    <3>2. CASE ~(i <= BSortSlack)
      BY <3>2, <1>8
    <3>q. QED
      BY <3>1, <3>2
  <2>q. QED
    BY <2>1, <2>2, <2>3
<1>12. ASSUME NEW i \in 1..(BSortSlack + 1), NEW j \in 1..(BSortSlack + 1), i < j
       PROVE  all[i] # all[j]
  <2>1. i \in DOMAIN b /\ all[i] = b[i] /\ all[i].v \in Int
    BY <1>6, <1>11, <1>12
  <2>0. all[i].id \in Int
    <3>1. PICK n \in 1..c : all[i] = s[n]
      BY <1>11 DEF CameOf
    <3>q. QED
      BY <3>1, <1>2 DEF Numbered
  <2>2. CASE j <= BSortSlack
    <3>1. j \in DOMAIN b /\ all[j] = b[j]
      BY <2>2, <1>6
    <3>2. Before(b[i], b[j])
      BY <2>1, <3>1, <1>5, <1>12 DEF Ordered
    <3>q. QED
      BY <2>0, <2>1, <3>1, <3>2 DEF Before
  <2>3. CASE ~(j <= BSortSlack)
    <3>1. all[j] = x /\ Before(x, b[i])
      BY <2>1, <2>3, <1>5
    <3>q. QED
      BY <2>0, <2>1, <3>1 DEF Before
  <2>q. QED
    BY <2>2, <2>3
<1> HIDE DEF all
<1>13. ASSUME NEW i \in 1..(BSortSlack + 1)
       PROVE  f[i] \in Larger /\ s[f[i]] = all[i]
  <2>1. \E j \in 1..c : s[j] = all[i]
    BY <1>11 DEF CameOf
  <2>2. At(all[i]) \in 1..c /\ s[At(all[i])] = all[i]
    BY <2>1
  <2>3. f[i] = At(all[i])
    OBVIOUS
  <2> HIDE DEF f, At
  <2>4. all[i].g = g
    BY <1>11 DEF CameOf
  <2>5. all[i].v > t.v
    BY <1>8, <1>10, <1>11
  <2>q. QED
    BY <2>2, <2>3, <2>4, <2>5, <1>2 DEF PlacesOf
<1>14. f \in Injection(1..(BSortSlack + 1), Larger)
  <2>1. f \in [1..(BSortSlack + 1) -> Larger]
    BY <1>13
  <2>2. ASSUME NEW i \in 1..(BSortSlack + 1), NEW j \in 1..(BSortSlack + 1), f[i] = f[j]
        PROVE  i = j
    <3>1. all[i] = all[j]
      BY <1>13, <2>2
    <3>q. QED
      BY <3>1, <1>12
  <2> HIDE DEF f
  <2>q. QED
    BY <2>1, <2>2 DEF Injection, IsInjective
<1> HIDE DEF f
<1>15. IsFiniteSet(Larger)
  <2>1. Larger \subseteq 1..Len(s)
    BY <1>1 DEF PlacesOf
  <2>2. IsFiniteSet(1..Len(s))
    BY <1>1, FS_Interval
  <2>q. QED
    BY <2>1, <2>2, FS_Subset
<1>16. Cardinality(1..(BSortSlack + 1)) = BSortSlack + 1
  BY FS_Interval
<1>17. BSortSlack + 1 <= Cardinality(Larger)
  BY <1>14, <1>15, <1>16, FS_Injection
<1>18. Cardinality(Larger) <= BSortSlack
  BY DEF GroupInOrder, PlacesOf
<1>19. Cardinality(Larger) \in Nat
  BY <1>15, FS_CardinalityType
<1>q. QED
  BY <1>17, <1>18, <1>19

\* A sequence over a set is one over a larger set.
LEMMA WiderSeq ==
  ASSUME NEW A, NEW B, A \subseteq B, NEW s \in Seq(A)
  PROVE  s \in Seq(B)
<1>1. Len(s) \in Nat /\ s = [i \in 1..Len(s) |-> s[i]] /\ \A i \in 1..Len(s) : s[i] \in A
  OBVIOUS
<1>q. QED
  BY <1>1

\* The tuples of a group that came are those before, and the new one if it is
\* of the group.
LEMMA OneMoreCame ==
  ASSUME NEW s, Numbered(s), NEW c \in Nat, c < Len(s)
  PROVE  /\ c + 1 \in DOMAIN s
         /\ \A i \in 1..c : i \in DOMAIN s /\ s[i].id < s[c + 1].id
         /\ {s[i] : i \in 1..(c + 1)} = {s[i] : i \in 1..c} \cup {s[c + 1]}
         /\ \A h : CameOf(s, c, h) \subseteq CameOf(s, c + 1, h)
         /\ s[c + 1] \in CameOf(s, c + 1, s[c + 1].g)
         /\ \A h : Comparable(CameOf(s, c + 1, h))
         /\ \A h : \A x \in CameOf(s, c + 1, h) : x.g = h
<1>1. Len(s) \in Nat /\ DOMAIN s = 1..Len(s)
  BY DEF Numbered
<1>2. 1..(c + 1) = 1..c \cup {c + 1} /\ c + 1 \in DOMAIN s
  BY <1>1
<1>3. \A i \in 1..(c + 1) : i \in DOMAIN s
  BY <1>1
<1>4. \A i \in 1..c : i \in DOMAIN s /\ s[i].id < s[c + 1].id
  BY <1>1, <1>2 DEF Numbered
<1>5. {s[i] : i \in 1..(c + 1)} = {s[i] : i \in 1..c} \cup {s[c + 1]}
  BY <1>2
<1>6. \A h : CameOf(s, c, h) \subseteq CameOf(s, c + 1, h)
  BY <1>2 DEF CameOf
<1>7. s[c + 1] \in CameOf(s, c + 1, s[c + 1].g)
  BY <1>2 DEF CameOf
<1>8. \A h : Comparable(CameOf(s, c + 1, h))
  BY <1>3 DEF CameOf, Comparable, Numbered
<1>9. \A h : \A x \in CameOf(s, c + 1, h) : x.g = h
  BY DEF CameOf
<1>q. QED
  BY <1>2, <1>4, <1>5, <1>6, <1>7, <1>8, <1>9

\* The buffer a tuple is added to, with the tuple in it, and the others.
OldBuffer(buffers, g) == IF g \in DOMAIN buffers THEN buffers[g] ELSE <<>>

Added(s, buffers, c) ==
  LET t   == s[c + 1]
      g   == s[c + 1].g
      old == OldBuffer(buffers, g)
      nb  == AddToBuffer(buffers, t)
  IN /\ nb = [h \in DOMAIN buffers \cup {g} |-> IF h = g THEN nb[g] ELSE buffers[h]]
     /\ old \in Seq(CameOf(s, c, g)) /\ Len(old) <= BSortSlack
     /\ nb[g] \in Seq(CameOf(s, c + 1, g))
     /\ Len(nb[g]) = Len(old) + 1
     /\ Ordered(nb[g])
     /\ Entries(nb[g]) = Entries(old) \cup {t}

\* addToBuffer puts the tuple into the buffer of its group, in its place.
LEMMA AddToBufferProperties ==
  ASSUME BSortSlack \in Nat, NEW s, Numbered(s), NEW c \in Nat, c < Len(s),
         NEW buffers, NEW o, Holding(s, buffers, o, c)
  PROVE  Added(s, buffers, c)
<1> DEFINE t == s[c + 1]
           g == s[c + 1].g
           old == OldBuffer(buffers, g)
           new == InsertAt(old, InsertPosition(old, t), t)
           nb == AddToBuffer(buffers, t)
           X == CameOf(s, c + 1, g)
<1>1. nb = [h \in DOMAIN buffers \cup {g} |-> IF h = g THEN new ELSE buffers[h]]
  BY DEF AddToBuffer, OldBuffer
<1>2. old \in Seq(CameOf(s, c, g)) /\ Len(old) <= BSortSlack /\ Ordered(old)
  <2>1. CASE g \in DOMAIN buffers
    BY <2>1 DEF Holding, OldBuffer
  <2>2. CASE g \notin DOMAIN buffers
    <3>1. old = <<>>
      BY <2>2 DEF OldBuffer
    <3> HIDE DEF old
    <3>2. old \in Seq(CameOf(s, c, g)) /\ Len(old) = 0 /\ DOMAIN old = {}
      BY <3>1
    <3>3. Ordered(old)
      BY <3>2 DEF Ordered
    <3>q. QED
      BY <3>2, <3>3
  <2>q. QED
    BY <2>1, <2>2
<1> HIDE DEF old, nb
<1>3. CameOf(s, c, g) \subseteq X /\ Comparable(X) /\ t \in X
  BY OneMoreCame
<1>4. old \in Seq(X)
  BY <1>2, <1>3, WiderSeq
<1>5. \A i \in DOMAIN old : old[i].id < t.id
  <2> SUFFICES ASSUME NEW i \in DOMAIN old PROVE old[i].id < t.id
    OBVIOUS
  <2>1. old[i] \in CameOf(s, c, g)
    BY <1>2
  <2>2. PICK j \in 1..c : old[i] = s[j]
    BY <2>1 DEF CameOf
  <2>q. QED
    BY <2>2, OneMoreCame
<1> HIDE DEF t, X
<1>6. /\ new \in Seq(X) /\ Len(new) = Len(old) + 1 /\ Ordered(new)
      /\ Entries(new) = Entries(old) \cup {t}
  BY <1>2, <1>3, <1>4, <1>5, InsertKeepsOrder
<1> HIDE DEF new
<1>7. nb[g] = new
  BY <1>1
<1>q. QED
  BY <1>1, <1>2, <1>6, <1>7 DEF nb, t, X, old, Added

\* An entry more at the end.
LEMMA AppendEntries ==
  ASSUME NEW X, NEW s \in Seq(X), NEW e \in X
  PROVE  /\ Append(s, e) \in Seq(X)
         /\ DOMAIN s = 1..Len(s) /\ Len(s) \in Nat
         /\ DOMAIN Append(s, e) = 1..(Len(s) + 1)
         /\ \A i \in 1..Len(s) : Append(s, e)[i] = s[i]
         /\ Append(s, e)[Len(s) + 1] = e
         /\ Entries(Append(s, e)) = Entries(s) \cup {e}
<1> DEFINE a == Append(s, e)
<1>1. /\ a \in Seq(X) /\ Len(a) = Len(s) + 1 /\ Len(s) \in Nat /\ DOMAIN s = 1..Len(s)
      /\ \A i \in 1..Len(s) : a[i] = s[i]
      /\ a[Len(s) + 1] = e
  OBVIOUS
<1> HIDE DEF a
<1>2. DOMAIN a = 1..(Len(s) + 1)
  BY <1>1
<1>3. 1..(Len(s) + 1) = 1..Len(s) \cup {Len(s) + 1}
  BY <1>1
<1>4. Entries(a) = Entries(s) \cup {e}
  BY <1>1, <1>2, <1>3 DEF Entries
<1>q. QED
  BY <1>1, <1>2, <1>4 DEF a

\* The rest of a buffer, without its first tuple.
LEMMA TailOfOrdered ==
  ASSUME NEW X, NEW s \in Seq(X), s # <<>>, Ordered(s)
  PROVE  /\ Head(s) \in X /\ Tail(s) \in Seq(X)
         /\ Len(Tail(s)) = Len(s) - 1
         /\ Ordered(Tail(s))
         /\ \A i \in DOMAIN Tail(s) : Tail(s)[i] \in Entries(s) /\ Before(Head(s), Tail(s)[i])
         /\ Entries(s) = {Head(s)} \cup Entries(Tail(s))
<1> DEFINE N == Len(s)
           r == Tail(s)
           h == Head(s)
<1>1. /\ N \in Nat /\ N >= 1 /\ DOMAIN s = 1..N /\ h = s[1] /\ h \in X
      /\ r \in Seq(X) /\ Len(r) = N - 1
      /\ \A i \in 1..(N - 1) : r[i] = s[i + 1]
  OBVIOUS
<1> HIDE DEF r, h, N
<1>2. DOMAIN r = 1..(N - 1)
  BY <1>1
<1>3. \A i \in 1..(N - 1) : i + 1 \in 1..N /\ 1 < i + 1
  BY <1>1
<1>4. Ordered(r)
  <2> SUFFICES ASSUME NEW i \in 1..(N - 1), NEW j \in 1..(N - 1), i < j
               PROVE  Before(r[i], r[j])
    BY <1>2 DEF Ordered
  <2>1. i + 1 \in 1..N /\ j + 1 \in 1..N /\ i + 1 < j + 1
    BY <1>1
  <2>q. QED
    BY <2>1, <1>1 DEF Ordered
<1>5. \A i \in DOMAIN r : r[i] \in Entries(s) /\ Before(h, r[i])
  BY <1>1, <1>2, <1>3 DEF Ordered, Entries
<1>6. Entries(s) \subseteq {h} \cup Entries(r)
  <2> SUFFICES ASSUME NEW i \in 1..N PROVE s[i] \in {h} \cup Entries(r)
    BY <1>1 DEF Entries
  <2>1. CASE i = 1
    BY <2>1, <1>1
  <2>2. CASE i # 1
    <3>1. i - 1 \in 1..(N - 1) /\ (i - 1) + 1 = i
      BY <2>2, <1>1
    <3>2. r[i - 1] = s[i]
      BY <3>1, <1>1
    <3>q. QED
      BY <3>1, <3>2, <1>2 DEF Entries
  <2>q. QED
    BY <2>1, <2>2
<1>7. h \in Entries(s)
  BY <1>1 DEF Entries
<1>q. QED
  BY <1>1, <1>4, <1>5, <1>6, <1>7 DEF r, h, N, Entries

\* What has left came before.
LEMMA HeldEntries ==
  ASSUME NEW s, NEW buffers, NEW o, NEW c, Holding(s, buffers, o, c), NEW i \in DOMAIN o
  PROVE  o[i] \in {s[j] : j \in 1..c}
<1> DEFINE All == {s[j] : j \in 1..c}
<1>1. o \in Seq(All)
  BY DEF Holding
<1> HIDE DEF All
<1>2. o[i] \in All
  BY <1>1
<1>q. QED
  BY <1>2 DEF All

\* Where the buffer of the new tuple is not full, nothing of its group has left.
LEMMA TupleWaits ==
  ASSUME BSortSlack \in Nat, NEW s, Numbered(s), NEW c \in Nat, c < Len(s),
         NEW buffers, NEW o, Sorting(s, buffers, o, c),
         Len(AddToBuffer(buffers, s[c + 1])[s[c + 1].g]) # BSortSlack + 1
  PROVE  Sorting(s, AddToBuffer(buffers, s[c + 1]), o, c + 1)
<1> DEFINE t == s[c + 1]
           g == s[c + 1].g
           old == OldBuffer(buffers, g)
           nb == AddToBuffer(buffers, t)
<1>0. Holding(s, buffers, o, c)
  BY DEF Sorting
<1>1. /\ nb = [h \in DOMAIN buffers \cup {g} |-> IF h = g THEN nb[g] ELSE buffers[h]]
      /\ old \in Seq(CameOf(s, c, g)) /\ Len(old) <= BSortSlack
      /\ nb[g] \in Seq(CameOf(s, c + 1, g))
      /\ Len(nb[g]) = Len(old) + 1
      /\ Ordered(nb[g])
      /\ Entries(nb[g]) = Entries(old) \cup {t}
  BY <1>0, AddToBufferProperties DEF Added
<1>2. Len(nb[g]) # BSortSlack + 1
  OBVIOUS
<1> HIDE DEF nb
<1>3. Len(old) \in Nat /\ Len(old) < BSortSlack /\ Len(nb[g]) <= BSortSlack
  BY <1>1, <1>2
<1>4. DOMAIN nb = DOMAIN buffers \cup {g} /\ \A h \in DOMAIN buffers : h # g => nb[h] = buffers[h]
  BY <1>1
<1>5. PlacesOf(o, g) = {}
  <2>1. CASE g \in DOMAIN buffers
    <3>1. old = buffers[g] /\ (PlacesOf(o, g) # {} => Len(buffers[g]) = BSortSlack)
      BY <2>1, <1>0 DEF Holding, OldBuffer
    <3> HIDE DEF old
    <3>q. QED
      BY <3>1, <1>3
  <2>2. CASE g \notin DOMAIN buffers
    <3>1. \A i \in DOMAIN o : o[i] \in {s[j] : j \in 1..c}
      BY <1>0, HeldEntries
    <3>2. \A i \in DOMAIN o : o[i].g \in DOMAIN buffers
      BY <3>1, <1>0 DEF Holding
    <3>q. QED
      BY <3>2, <2>2 DEF PlacesOf
  <2>q. QED
    BY <2>1, <2>2
<1>6. o \in Seq({s[i] : i \in 1..(c + 1)})
  <2>1. {s[i] : i \in 1..c} \subseteq {s[i] : i \in 1..(c + 1)}
    OBVIOUS
  <2>2. o \in Seq({s[i] : i \in 1..c})
    BY <1>0 DEF Holding
  <2>q. QED
    BY <2>1, <2>2, WiderSeq
<1>7. DOMAIN nb = {s[i].g : i \in 1..(c + 1)}
  <2>1. 1..(c + 1) = 1..c \cup {c + 1}
    OBVIOUS
  <2>2. DOMAIN buffers = {s[i].g : i \in 1..c}
    BY <1>0 DEF Holding
  <2>q. QED
    BY <2>1, <2>2, <1>4
<1>8. ASSUME NEW h \in DOMAIN nb
      PROVE  /\ nb[h] \in Seq(CameOf(s, c + 1, h))
             /\ Ordered(nb[h])
             /\ Len(nb[h]) <= BSortSlack
             /\ PlacesOf(o, h) # {} => Len(nb[h]) = BSortSlack
  <2>1. CASE h = g
    BY <2>1, <1>1, <1>3, <1>5
  <2>2. CASE h # g
    <3>1. h \in DOMAIN buffers /\ nb[h] = buffers[h]
      BY <2>2, <1>4
    <3>2. buffers[h] \in Seq(CameOf(s, c, h))
      BY <3>1, <1>0 DEF Holding
    <3>3. buffers[h] \in Seq(CameOf(s, c + 1, h))
      BY <3>2, OneMoreCame, WiderSeq
    <3>q. QED
      BY <3>1, <3>3, <1>0 DEF Holding
  <2>q. QED
    BY <2>1, <2>2
<1>9. ASSUME NEW i \in 1..(c + 1)
      PROVE  s[i] \in Entries(o) \cup Entries(nb[s[i].g])
  <2>1. CASE i = c + 1
    BY <2>1, <1>1
  <2>2. CASE i # c + 1
    <3>1. i \in 1..c
      BY <2>2
    <3>2. s[i] \in Entries(o) \cup Entries(buffers[s[i].g]) /\ s[i].g \in DOMAIN buffers
      BY <3>1, <1>0 DEF Holding
    <3>3. CASE s[i].g = g
      BY <3>2, <3>3, <1>1 DEF OldBuffer
    <3>4. CASE s[i].g # g
      BY <3>2, <3>4, <1>4
    <3>q. QED
      BY <3>3, <3>4
  <2>q. QED
    BY <2>1, <2>2
<1>10. Holding(s, nb, o, c + 1)
  BY <1>6, <1>7, <1>8, <1>9 DEF Holding
<1>11. ASSUME NEW h \in DOMAIN nb, GroupInOrder(s, h, BSortSlack)
       PROVE  /\ \A i, j \in PlacesOf(o, h) : i < j => Before(o[i], o[j])
              /\ \A i \in PlacesOf(o, h), j \in DOMAIN nb[h] : Before(o[i], nb[h][j])
  <2>1. CASE h = g
    BY <2>1, <1>5
  <2>2. CASE h # g
    BY <2>2, <1>4, <1>11 DEF Sorting
  <2>q. QED
    BY <2>1, <2>2
<1>12. Sorting(s, nb, o, c + 1)
  BY <1>10, <1>11 DEF Sorting
<1>q. QED
  BY <1>12 DEF nb

\* Where it is full, the lowest tuple of the group leaves it.
LEMMA LowestLeaves ==
  ASSUME BSortSlack \in Nat, NEW s, Numbered(s), NEW c \in Nat, c < Len(s),
         NEW buffers, NEW o, Sorting(s, buffers, o, c)
  PROVE  LET g == s[c + 1].g
             nb == AddToBuffer(buffers, s[c + 1])
         IN Len(nb[g]) = BSortSlack + 1 =>
              /\ Head(nb[g]) \in Entries(s)
              /\ Sorting(s, [nb EXCEPT ![g] = Tail(@)], Append(o, Head(nb[g])), c + 1)
<1> DEFINE t == s[c + 1]
           g == s[c + 1].g
           old == OldBuffer(buffers, g)
           nb == AddToBuffer(buffers, t)
<1>0. Holding(s, buffers, o, c)
  BY DEF Sorting
<1>1. /\ nb = [h \in DOMAIN buffers \cup {g} |-> IF h = g THEN nb[g] ELSE buffers[h]]
      /\ old \in Seq(CameOf(s, c, g)) /\ Len(old) <= BSortSlack
      /\ nb[g] \in Seq(CameOf(s, c + 1, g))
      /\ Len(nb[g]) = Len(old) + 1
      /\ Ordered(nb[g])
      /\ Entries(nb[g]) = Entries(old) \cup {t}
  BY <1>0, AddToBufferProperties DEF Added
<1>2. SUFFICES ASSUME Len(nb[g]) = BSortSlack + 1
               PROVE  /\ Head(nb[g]) \in Entries(s)
                      /\ Sorting(s, [nb EXCEPT ![g] = Tail(@)], Append(o, Head(nb[g])), c + 1)
  OBVIOUS
<1> HIDE DEF nb
<1>3. nb[g] # <<>>
  BY <1>1, <1>2
<1> DEFINE left == [nb EXCEPT ![g] = Tail(@)]
           e == Head(nb[g])
           p == Append(o, e)
           All == {s[i] : i \in 1..(c + 1)}
           r == Tail(nb[g])
<1>4. /\ e \in CameOf(s, c + 1, g) /\ r \in Seq(CameOf(s, c + 1, g))
      /\ Len(r) = BSortSlack /\ Ordered(r)
      /\ \A i \in DOMAIN r : r[i] \in Entries(nb[g]) /\ Before(e, r[i])
      /\ Entries(nb[g]) = {e} \cup Entries(r)
  <2> DEFINE b == nb[g]
             Y == CameOf(s, c + 1, g)
  <2>1. b \in Seq(Y) /\ b # <<>> /\ Ordered(b) /\ Len(b) = BSortSlack + 1
    BY <1>1, <1>2, <1>3
  <2> HIDE DEF b, Y
  <2>2. /\ Head(b) \in Y /\ Tail(b) \in Seq(Y)
        /\ Len(Tail(b)) = Len(b) - 1
        /\ Ordered(Tail(b))
        /\ \A i \in DOMAIN Tail(b) : Tail(b)[i] \in Entries(b) /\ Before(Head(b), Tail(b)[i])
        /\ Entries(b) = {Head(b)} \cup Entries(Tail(b))
    BY <2>1, TailOfOrdered
  <2>3. Len(b) - 1 = BSortSlack
    BY <2>1
  <2>q. QED
    BY <2>2, <2>3 DEF b, Y
<1>5. /\ DOMAIN left = DOMAIN buffers \cup {g}
      /\ left[g] = r
      /\ \A k \in DOMAIN buffers : k # g => left[k] = buffers[k]
  BY <1>1
<1> HIDE DEF left, e, r
<1>6. e.g = g /\ e \in All
  BY <1>4 DEF CameOf
<1>7. o \in Seq(All)
  <2>1. {s[i] : i \in 1..c} \subseteq All
    OBVIOUS
  <2>2. o \in Seq({s[i] : i \in 1..c})
    BY <1>0 DEF Holding
  <2>q. QED
    BY <2>1, <2>2, WiderSeq
<1> HIDE DEF All
<1>8. /\ p \in Seq(All)
      /\ DOMAIN o = 1..Len(o) /\ Len(o) \in Nat
      /\ DOMAIN p = 1..(Len(o) + 1)
      /\ \A i \in 1..Len(o) : p[i] = o[i]
      /\ p[Len(o) + 1] = e
      /\ Entries(p) = Entries(o) \cup {e}
  BY <1>6, <1>7, AppendEntries
<1> HIDE DEF p
<1>9. DOMAIN left = {s[i].g : i \in 1..(c + 1)}
  <2>1. 1..(c + 1) = 1..c \cup {c + 1}
    OBVIOUS
  <2>2. DOMAIN buffers = {s[i].g : i \in 1..c}
    BY <1>0 DEF Holding
  <2>q. QED
    BY <2>1, <2>2, <1>5
<1>10. \A k : PlacesOf(p, k) = IF k = g THEN PlacesOf(o, g) \cup {Len(o) + 1} ELSE PlacesOf(o, k)
  <2> SUFFICES ASSUME NEW k
               PROVE  PlacesOf(p, k) = IF k = g THEN PlacesOf(o, g) \cup {Len(o) + 1} ELSE PlacesOf(o, k)
    OBVIOUS
  <2>1. DOMAIN p = DOMAIN o \cup {Len(o) + 1}
    BY <1>8
  <2>2. \A i \in DOMAIN o : p[i] = o[i]
    BY <1>8
  <2>q. QED
    BY <2>1, <2>2, <1>6, <1>8 DEF PlacesOf
<1>11. ASSUME NEW k \in DOMAIN left
       PROVE  /\ left[k] \in Seq(CameOf(s, c + 1, k))
              /\ Ordered(left[k])
              /\ Len(left[k]) <= BSortSlack
              /\ PlacesOf(p, k) # {} => Len(left[k]) = BSortSlack
  <2>1. CASE k = g
    BY <2>1, <1>4, <1>5
  <2>2. CASE k # g
    <3>1. k \in DOMAIN buffers /\ left[k] = buffers[k] /\ PlacesOf(p, k) = PlacesOf(o, k)
      BY <2>2, <1>5, <1>10
    <3>2. buffers[k] \in Seq(CameOf(s, c, k))
      BY <3>1, <1>0 DEF Holding
    <3>3. buffers[k] \in Seq(CameOf(s, c + 1, k))
      BY <3>2, OneMoreCame, WiderSeq
    <3>q. QED
      BY <3>1, <3>3, <1>0 DEF Holding
  <2>q. QED
    BY <2>1, <2>2
<1>12. ASSUME NEW i \in 1..(c + 1)
       PROVE  s[i] \in Entries(p) \cup Entries(left[s[i].g])
  <2>1. CASE i = c + 1
    BY <2>1, <1>1, <1>4, <1>5, <1>8
  <2>2. CASE i # c + 1
    <3>1. i \in 1..c
      BY <2>2
    <3>2. s[i] \in Entries(o) \cup Entries(buffers[s[i].g]) /\ s[i].g \in DOMAIN buffers
      BY <3>1, <1>0 DEF Holding
    <3>3. CASE s[i].g = g
      <4>1. s[i] \in Entries(o) \cup Entries(nb[g])
        BY <3>2, <3>3, <1>1 DEF OldBuffer
      <4>q. QED
        BY <4>1, <3>3, <1>4, <1>5, <1>8
    <3>4. CASE s[i].g # g
      BY <3>2, <3>4, <1>5, <1>8
    <3>q. QED
      BY <3>3, <3>4
  <2>q. QED
    BY <2>1, <2>2
<1>13. Holding(s, left, p, c + 1)
  BY <1>8, <1>9, <1>11, <1>12 DEF Holding, All
<1>14. ASSUME GroupInOrder(s, g, BSortSlack), NEW i \in PlacesOf(o, g), NEW x \in Entries(nb[g])
       PROVE  Before(o[i], x)
  <2>0. g \in DOMAIN buffers
    <3>1. i \in DOMAIN o /\ o[i].g = g
      BY DEF PlacesOf
    <3>2. o[i] \in {s[j] : j \in 1..c}
      BY <3>1, <1>0, HeldEntries
    <3>q. QED
      BY <3>1, <3>2, <1>0 DEF Holding
  <2>1. CASE x = t
    <3>1. c + 1 \in DOMAIN s /\ c + 1 > c /\ c <= Len(s)
      BY OneMoreCame
    <3>q. QED
      BY <2>0, <2>1, <3>1, <1>14, NoneTooLate
  <2>2. CASE x # t
    <3>1. x \in Entries(buffers[g])
      BY <2>0, <2>2, <1>1, <1>14 DEF OldBuffer
    <3>q. QED
      BY <2>0, <3>1, <1>14 DEF Sorting, Entries
  <2>q. QED
    BY <2>1, <2>2
<1>15. ASSUME NEW k \in DOMAIN left, GroupInOrder(s, k, BSortSlack)
       PROVE  /\ \A i, j \in PlacesOf(p, k) : i < j => Before(p[i], p[j])
              /\ \A i \in PlacesOf(p, k), j \in DOMAIN left[k] : Before(p[i], left[k][j])
  <2>0. \A i \in PlacesOf(o, k) : i \in 1..Len(o) /\ p[i] = o[i]
    BY <1>8 DEF PlacesOf
  <2>1. CASE k # g
    <3>1. k \in DOMAIN buffers /\ left[k] = buffers[k] /\ PlacesOf(p, k) = PlacesOf(o, k)
      BY <2>1, <1>5, <1>10
    <3>q. QED
      BY <2>0, <3>1, <1>15 DEF Sorting
  <2>2. CASE k = g
    <3>0. PlacesOf(p, k) = PlacesOf(o, g) \cup {Len(o) + 1}
      BY <2>2, <1>10
    <3>g. g \in DOMAIN buffers \/ PlacesOf(o, g) = {}
      <4>1. \A i \in DOMAIN o : o[i] \in {s[j] : j \in 1..c}
        BY <1>0, HeldEntries
      <4>2. \A i \in DOMAIN o : o[i].g \in DOMAIN buffers
        BY <4>1, <1>0 DEF Holding
      <4>q. QED
        BY <4>2 DEF PlacesOf
    <3>1. ASSUME NEW i \in PlacesOf(p, k), NEW j \in PlacesOf(p, k), i < j
          PROVE  Before(p[i], p[j])
      <4>1. i \in PlacesOf(o, g)
        BY <2>0, <2>2, <3>0, <3>1, <1>8
      <4>2. CASE j = Len(o) + 1
        <5>1. p[j] = e /\ e \in Entries(nb[g])
          BY <4>2, <1>4, <1>8
        <5>q. QED
          BY <4>1, <5>1, <2>0, <2>2, <1>14, <1>15
      <4>3. CASE j \in PlacesOf(o, g)
        BY <4>1, <4>3, <3>1, <3>g, <2>0, <2>2, <1>15 DEF Sorting
      <4>q. QED
        BY <3>0, <4>2, <4>3
    <3>2. ASSUME NEW i \in PlacesOf(p, k), NEW j \in DOMAIN left[k]
          PROVE  Before(p[i], left[k][j])
      <4>1. left[k][j] \in Entries(nb[g]) /\ Before(e, left[k][j])
        BY <2>2, <3>2, <1>4, <1>5
      <4>2. CASE i = Len(o) + 1
        BY <4>1, <4>2, <1>8
      <4>3. CASE i \in PlacesOf(o, g)
        BY <4>1, <4>3, <2>0, <2>2, <1>14, <1>15
      <4>q. QED
        BY <3>0, <4>2, <4>3
    <3>q. QED
      BY <3>1, <3>2
  <2>q. QED
    BY <2>1, <2>2
<1>16. Sorting(s, left, p, c + 1)
  BY <1>13, <1>15 DEF Sorting
<1>17. e \in Entries(s)
  <2>1. \A i \in 1..(c + 1) : i \in DOMAIN s
    BY DEF Numbered
  <2>q. QED
    BY <2>1, <1>6 DEF All, Entries
<1>q. QED
  BY <1>16, <1>17 DEF left, p, e, nb

-----------------------------------------------------------------------------
\* What DoBSort recurses with.
BSortStep(f, buffers, train, n) ==
  IF n = 0 THEN [buffers |-> buffers, out |-> <<>>]
  ELSE BSortTuple(f[n - 1], train[n])

\* f holds what DoBSort has after each of the first N rounds.
BSortRounds(f, buffers, train, N) == f = [n \in 0..N |-> BSortStep(f, buffers, train, n)]

\* There is such a function: it is built up from one length to the next.
LEMMA BSortStepsExist ==
  ASSUME NEW buffers, NEW train, NEW N \in Nat
  PROVE  \E f : BSortRounds(f, buffers, train, N)
<1> DEFINE Upto(f, m) == f = [n \in 0..m |-> BSortStep(f, buffers, train, n)]
           T == {m \in Nat : \E f : Upto(f, m)}
<1>0. ASSUME NEW f, NEW h, NEW n \in Nat, n # 0 => f[n - 1] = h[n - 1]
      PROVE  BSortStep(f, buffers, train, n) = BSortStep(h, buffers, train, n)
  BY <1>0 DEF BSortStep
<1>1. 0 \in T
  <2> DEFINE f == [n \in 0..0 |-> [buffers |-> buffers, out |-> <<>>]]
  <2>1. \A n \in 0..0 : BSortStep(f, buffers, train, n) = [buffers |-> buffers, out |-> <<>>]
    BY DEF BSortStep
  <2>2. Upto(f, 0)
    BY <2>1
  <2>q. QED
    BY <2>2
<1>2. ASSUME NEW m \in Nat, m \in T PROVE m + 1 \in T
  <2> PICK f : Upto(f, m)
    BY <1>2
  <2> DEFINE h == [n \in 0..(m + 1) |-> BSortStep(f, buffers, train, n)]
  <2>1. \A n \in 0..m : h[n] = f[n]
    OBVIOUS
  <2> HIDE DEF h
  <2>2. ASSUME NEW n \in 0..(m + 1)
        PROVE  BSortStep(f, buffers, train, n) = BSortStep(h, buffers, train, n)
    <3>1. n # 0 => n - 1 \in 0..m
      OBVIOUS
    <3>2. n # 0 => f[n - 1] = h[n - 1]
      BY <3>1, <2>1
    <3>q. QED
      BY <3>2, <1>0
  <2>3. Upto(h, m + 1)
    <3>1. h = [n \in 0..(m + 1) |-> BSortStep(f, buffers, train, n)]
      BY DEF h
    <3>q. QED
      BY <3>1, <2>2, Zenon
  <2>q. QED
    BY <2>3
<1>3. \A m \in Nat : m \in T
  <2> HIDE DEF T
  <2> QED BY <1>1, <1>2, NatSetInduction
<1>q. QED
  BY <1>3 DEF BSortRounds

\* One round of the loop of doBox, on the next tuple of the stream.
LEMMA RoundSorts ==
  ASSUME BSortSlack \in Nat, NEW s, Numbered(s), NEW c \in Nat, c < Len(s),
         NEW acc, NEW o \in Seq(Entries(s)), acc.out \in Seq(Entries(s)),
         Sorting(s, acc.buffers, o \o acc.out, c)
  PROVE  LET next == BSortTuple(acc, s[c + 1]) IN
         /\ next.out \in Seq(Entries(s))
         /\ Sorting(s, next.buffers, o \o next.out, c + 1)
<1> DEFINE t == s[c + 1]
           g == s[c + 1].g
           nb == AddToBuffer(acc.buffers, t)
           E == Entries(s)
           next == BSortTuple(acc, t)
           q == o \o acc.out
<1>1. next = IF Len(nb[g]) = BSortSlack + 1
             THEN [buffers |-> [nb EXCEPT ![g] = Tail(@)], out |-> Append(acc.out, Head(nb[g]))]
             ELSE [buffers |-> nb, out |-> acc.out]
  BY DEF BSortTuple
<1>2. CASE Len(nb[g]) # BSortSlack + 1
  <2>1. Sorting(s, nb, q, c + 1)
    BY <1>2, TupleWaits
  <2> HIDE DEF nb, next
  <2>2. next.buffers = nb /\ next.out = acc.out
    BY <1>1, <1>2
  <2>q. QED
    BY <2>1, <2>2 DEF next
<1>3. CASE Len(nb[g]) = BSortSlack + 1
  <2> DEFINE e == Head(nb[g])
  <2>1. e \in E /\ Sorting(s, [nb EXCEPT ![g] = Tail(@)], Append(q, e), c + 1)
    BY <1>3, LowestLeaves
  <2> HIDE DEF nb, next, e, E
  <2>2. next.buffers = [nb EXCEPT ![g] = Tail(@)] /\ next.out = Append(acc.out, e)
    BY <1>1, <1>3 DEF e
  <2>3. o \in Seq(E) /\ acc.out \in Seq(E)
    BY DEF E
  <2>4. Append(acc.out, e) \in Seq(E) /\ o \o Append(acc.out, e) = Append(o \o acc.out, e)
    <3> DEFINE r == acc.out
    <3>1. r \in Seq(E)
      BY <2>3
    <3> HIDE DEF r
    <3>2. o \o Append(r, e) = Append(o \o r, e)
      BY <2>1, <2>3, <3>1
    <3>q. QED
      BY <2>1, <3>1, <3>2 DEF r
  <2>q. QED
    BY <2>1, <2>2, <2>4 DEF next, E
<1>q. QED
  BY <1>2, <1>3

\* A run of the box on a train of the stream.
LEMMA TrainSorts ==
  ASSUME BSortSlack \in Nat, NEW s, Numbered(s), NEW c \in Nat, NEW k \in Nat, c + k <= Len(s),
         NEW buffers, NEW o \in Seq(Entries(s)), Sorting(s, buffers, o, c),
         NEW train, Len(train) = k, \A i \in 1..k : train[i] = s[c + i]
  PROVE  LET ret == DoBSort(buffers, train) IN
         /\ ret.out[1] \in Seq(Entries(s))
         /\ ret.output_tuples_array[1] = Len(ret.out[1])
         /\ Sorting(s, ret.state, o \o ret.out[1], c + k)
<1> DEFINE f == CHOOSE h : h = [n \in 0..k |-> BSortStep(h, buffers, train, n)]
           ret == DoBSort(buffers, train)
           E == Entries(s)
           Good(m) == f[m].out \in Seq(E) /\ Sorting(s, f[m].buffers, o \o f[m].out, c + m)
           M == {m \in Nat : m <= k => Good(m)}
<1>1. f = [n \in 0..k |-> BSortStep(f, buffers, train, n)]
  <2>1. \E h : BSortRounds(h, buffers, train, k)
    BY BSortStepsExist
  <2>q. QED
    BY <2>1 DEF BSortRounds
<1>2. /\ ret.out = <<f[k].out>>
      /\ ret.state = f[k].buffers
      /\ ret.output_tuples_array = <<Len(f[k].out)>>
  BY DEF DoBSort, BoxOut, BSortStep
<1> HIDE DEF f, ret
<1>3. f[0] = [buffers |-> buffers, out |-> <<>>]
  BY <1>1 DEF BSortStep
<1>4. \A n \in 1..k : f[n] = BSortTuple(f[n - 1], s[c + n])
  <2> SUFFICES ASSUME NEW n \in 1..k PROVE f[n] = BSortTuple(f[n - 1], s[c + n])
    OBVIOUS
  <2>1. n \in 0..k /\ n # 0
    OBVIOUS
  <2>2. f[n] = BSortStep(f, buffers, train, n)
    BY <2>1, <1>1
  <2>q. QED
    BY <2>1, <2>2 DEF BSortStep
<1>5. 0 \in M
  <2>1. f[0].out = <<>> /\ f[0].buffers = buffers
    BY <1>3
  <2> HIDE DEF E
  <2>2. o \o <<>> = o /\ <<>> \in Seq(E)
    BY DEF E
  <2>3. c + 0 = c
    OBVIOUS
  <2>4. Good(0)
    BY <2>1, <2>2, <2>3
  <2>q. QED
    BY <2>4
<1>6. ASSUME NEW m \in Nat, m \in M PROVE m + 1 \in M
  <2>1. SUFFICES ASSUME m + 1 <= k PROVE Good(m + 1)
    <3> HIDE DEF Good
    <3> QED OBVIOUS
  <2>2. Good(m)
    <3> HIDE DEF Good
    <3>1. m <= k
      BY <2>1
    <3> QED BY <1>6, <3>1
  <2>3. Len(s) \in Nat /\ c + m \in Nat /\ c + m < Len(s) /\ m + 1 \in 1..k
    BY <2>1 DEF Numbered
  <2>4. f[m + 1] = BSortTuple(f[m], s[(c + m) + 1])
    <3>1. (m + 1) - 1 = m /\ c + (m + 1) = (c + m) + 1
      OBVIOUS
    <3>q. QED
      BY <2>3, <3>1, <1>4
  <2> DEFINE acc == f[m]
             d == c + m
             next == BSortTuple(acc, s[d + 1])
  <2>5. /\ acc.out \in Seq(Entries(s)) /\ Sorting(s, acc.buffers, o \o acc.out, d)
        /\ d \in Nat /\ d < Len(s)
    BY <2>2, <2>3
  <2> HIDE DEF acc, d, E
  <2>6. next.out \in Seq(Entries(s)) /\ Sorting(s, next.buffers, o \o next.out, d + 1)
    BY <2>5, RoundSorts
  <2>7. d + 1 = c + (m + 1)
    BY DEF d
  <2>8. f[m + 1] = next
    BY <2>4 DEF acc, d
  <2> HIDE DEF next
  <2>q. QED
    BY <2>6, <2>7, <2>8 DEF E
<1>7. \A m \in Nat : m \in M
  <2> HIDE DEF M
  <2> QED BY <1>5, <1>6, NatSetInduction
<1>8. Good(k)
  <2> HIDE DEF Good
  <2> QED BY <1>7
<1>9. /\ ret.out[1] = f[k].out
      /\ ret.output_tuples_array[1] = Len(f[k].out)
  BY <1>2
<1>q. QED
  BY <1>2, <1>8, <1>9 DEF ret

-----------------------------------------------------------------------------
\* The inductive invariant: what the box has been given is sorted so far.
BSortInv ==
  /\ box \in Cases
  /\ Op = "bsort" =>
       /\ taken \in [Ports -> Nat] /\ taken[1] <= Len(Stream(1))
       /\ out \in [{1} -> Seq(Entries(Stream(1)))]
       /\ Sorting(Stream(1), state, out[1], taken[1])

\* The streams of the ports are numbered, as CasesAssumption says.
LEMMA PortNumbered ==
  ASSUME box \in Cases, NEW p \in Ports
  PROVE  Numbered(Stream(p))
<1> DEFINE s == box.input[p]
<1>1. /\ p \in DOMAIN box.input
      /\ s \in Seq(ToSet(s))
      /\ \A i \in DOMAIN s : s[i].id \in Nat \ {0} /\ s[i].v \in Int
      /\ \A i, j \in DOMAIN s : i < j => s[i].id < s[j].id
  BY CasesAssumption DEF Ports
<1>2. Stream(p) = s
  BY DEF Stream
<1> HIDE DEF s
<1>3. ToSet(s) = Entries(s)
  BY DEF ToSet, Entries
<1>4. Numbered(s)
  BY <1>1, <1>3 DEF Numbered
<1>q. QED
  BY <1>2, <1>4

\* A box has a first port.
LEMMA StreamNumbered ==
  ASSUME box \in Cases
  PROVE  1 \in Ports /\ Numbered(Stream(1))
<1>1. 1 \in Ports
  BY CasesAssumption DEF Ports
<1>q. QED
  BY <1>1, PortNumbered

\* At first nothing came and nothing is held.
LEMMA BSortInitInv == OpInit => BSortInv
<1> SUFFICES ASSUME OpInit, Op = "bsort"
             PROVE  BSortInv
  BY DEF OpInit, BSortInv
<1> DEFINE s == Stream(1)
<1>1. 1 \in Ports /\ Numbered(s) /\ box \in Cases
  BY StreamNumbered DEF OpInit
<1>2. taken = [p \in Ports |-> 0] /\ state = NoBuffers /\ out = [p \in {1} |-> <<>>]
  BY DEF OpInit, InitState, OutPorts
<1> HIDE DEF s
<1>3. taken[1] = 0 /\ taken[1] <= Len(s)
  BY <1>1, <1>2 DEF Numbered
<1>4. out[1] = <<>> /\ out \in [{1} -> Seq(Entries(s))]
  BY <1>2
<1>5. Sorting(s, NoBuffers, <<>>, 0)
  <2>1. 1..0 = {} /\ DOMAIN NoBuffers = {}
    BY DEF NoBuffers
  <2>2. Holding(s, NoBuffers, <<>>, 0)
    BY <2>1 DEF Holding
  <2>q. QED
    BY <2>1, <2>2 DEF Sorting
<1>q. QED
  BY <1>1, <1>2, <1>3, <1>4, <1>5 DEF BSortInv, s

\* A run of a buffer sort on the next train of its stream.
LEMMA BSortRuns ==
  ASSUME BSortInv, BSort
  PROVE  BSortInv'
<1> DEFINE s == Stream(1)
           c == taken[1]
<1>1. PICK n \in Trains : HasRun(n, NoShedding(n), DoBSort(state, Train(1, n)))
  BY DEF BSort
<1> DEFINE train == Train(1, n)
           k == n[1]
           ret == DoBSort(state, train)
<1>2. Op = "bsort" /\ 1 \in Ports /\ Numbered(s) /\ box \in Cases
  BY StreamNumbered DEF BSort, BSortInv
<1>3. /\ n \in [Ports -> 0..TrainMax]
      /\ \A p \in Ports : taken[p] + n[p] <= Len(Stream(p))
  BY DEF Trains
<1>4. /\ taken \in [Ports -> Nat]
      /\ out \in [{1} -> Seq(Entries(s))]
      /\ Sorting(s, state, out[1], c)
  BY <1>2 DEF BSortInv
<1>5. TrainMax \in Nat /\ BSortSlack \in Nat
  BY OperatorAssumption
<1>6. k \in Nat /\ c \in Nat /\ c + k <= Len(s)
  BY <1>2, <1>3, <1>4, <1>5
<1>7. Len(train) = k /\ \A i \in 1..k : train[i] = s[c + i]
  <2> HIDE DEF s, c, k
  <2>1. s \in Seq(Entries(s)) /\ Len(s) \in Nat
    BY <1>2 DEF Numbered
  <2>2. train = SubSeq(s, c + 1, c + k)
    BY DEF Train, s, c, k
  <2>3. train = [i \in 1..k |-> s[i + (c + 1) - 1]]
    <3>1. (c + k) - (c + 1) + 1 = k
      BY <1>6
    <3>q. QED
      BY <2>1, <2>2, <3>1, <1>6
  <2>4. \A i \in 1..k : i + (c + 1) - 1 = c + i
    BY <1>6
  <2>q. QED
    BY <2>3, <2>4, <1>6
<1> HIDE DEF train, s, c, k
<1>8. out[1] \in Seq(Entries(s))
  BY <1>4
<1>9. /\ ret.out[1] \in Seq(Entries(s))
      /\ ret.output_tuples_array[1] = Len(ret.out[1])
      /\ Sorting(s, ret.state, out[1] \o ret.out[1], c + k)
  <2> DEFINE o == out[1]
  <2>1. o \in Seq(Entries(s)) /\ Sorting(s, state, o, c) /\ Numbered(s)
    BY <1>2, <1>4, <1>8
  <2> HIDE DEF o
  <2>2. /\ DoBSort(state, train).out[1] \in Seq(Entries(s))
        /\ DoBSort(state, train).output_tuples_array[1] = Len(DoBSort(state, train).out[1])
        /\ Sorting(s, DoBSort(state, train).state, o \o DoBSort(state, train).out[1], c + k)
    BY <2>1, <1>5, <1>6, <1>7, TrainSorts
  <2>q. QED
    BY <2>2 DEF o
<1> HIDE DEF ret
<1>10. /\ taken' = [p \in Ports |-> taken[p] + n[p]]
       /\ state' = ret.state
       /\ out' = [p \in {1} |-> out[p] \o SubSeq(ret.out[p], 1, ret.output_tuples_array[p])]
       /\ box' = box
  BY <1>1, <1>2 DEF HasRun, OutPorts, ret, train
<1>11. SubSeq(ret.out[1], 1, Len(ret.out[1])) = ret.out[1]
  BY <1>9
<1>12. out'[1] = out[1] \o ret.out[1] /\ out' = [p \in {1} |-> out[1] \o ret.out[1]]
  BY <1>9, <1>10, <1>11
<1>13. out' \in [{1} -> Seq(Entries(s))]
  <2> DEFINE E == Entries(s)
             x == out[1]
             y == ret.out[1]
  <2>1. x \in Seq(E) /\ y \in Seq(E)
    BY <1>8, <1>9
  <2> HIDE DEF E, x, y
  <2>2. x \o y \in Seq(E)
    BY <2>1
  <2>q. QED
    BY <2>2, <1>12 DEF E, x, y
<1>14. taken' \in [Ports -> Nat] /\ taken'[1] = c + k
  BY <1>2, <1>3, <1>4, <1>5, <1>10 DEF c, k
<1>15. Sorting(s, state', out'[1], taken'[1])
  BY <1>9, <1>10, <1>12, <1>14
<1>16. Ports' = Ports /\ Stream(1)' = s /\ Op' = Op
  BY <1>10 DEF Ports, Stream, Op, s
<1>q. QED
  BY <1>2, <1>6, <1>10, <1>13, <1>14, <1>15, <1>16 DEF BSortInv

\* Another box is not a buffer sort, and stays what it is.
LEMMA OtherBoxes ==
  ASSUME BSortInv, OpNext, ~BSort
  PROVE  BSortInv'
<1>1. box' = box
  BY DEF OpNext, Filter, Union, Map, HelloWorld, Experiment, Drop, Restream, Join, Resample,
         Aggregate, Tick, HasRun, Crashes
<1>2. Op # "bsort"
  BY DEF OpNext, Filter, Union, Map, HelloWorld, Experiment, Drop, Restream, Join, Resample,
         Aggregate, Tick
<1>q. QED
  BY <1>1, <1>2 DEF BSortInv, Op

\* What the invariant says of the output is BSortSorted.
LEMMA InvSorted == BSortInv => BSortSorted
<1> SUFFICES ASSUME BSortInv, Op = "bsort", NEW g \in GroupsOf(Stream(1)),
                    GroupInOrder(Stream(1), g, BSortSlack)
             PROVE  /\ \A i, j \in PlacesOf(out[1], g) : i < j => Before(out[1][i], out[1][j])
                    /\ \A i \in PlacesOf(Stream(1), g), j \in PlacesOf(out[1], g) :
                         Stream(1)[i] \in ToSet(out[1]) \/ Before(out[1][j], Stream(1)[i])
  BY DEF BSortSorted
<1> DEFINE s == Stream(1)
           c == taken[1]
           o == out[1]
<1>1. Numbered(s) /\ 1 \in Ports
  BY StreamNumbered DEF BSortInv
<1>2. c \in Nat /\ c <= Len(s) /\ Sorting(s, state, o, c) /\ Holding(s, state, o, c)
  BY <1>1 DEF BSortInv, Sorting
<1>3. BSortSlack \in Nat
  BY OperatorAssumption
<1> HIDE DEF s, c, o
<1>4. GroupInOrder(s, g, BSortSlack)
  BY DEF s
<1>5. ASSUME NEW j \in PlacesOf(o, g) PROVE g \in DOMAIN state
  <2>1. j \in DOMAIN o /\ o[j].g = g
    BY DEF PlacesOf
  <2>2. o[j] \in {s[i] : i \in 1..c}
    BY <2>1, <1>2, HeldEntries
  <2>q. QED
    BY <2>1, <2>2, <1>2 DEF Holding
<1>6. ASSUME NEW i \in PlacesOf(o, g), NEW j \in PlacesOf(o, g), i < j
      PROVE  Before(o[i], o[j])
  BY <1>2, <1>4, <1>5, <1>6 DEF Sorting
<1>7. ASSUME NEW i \in PlacesOf(s, g), NEW j \in PlacesOf(o, g)
      PROVE  s[i] \in ToSet(o) \/ Before(o[j], s[i])
  <2>1. i \in DOMAIN s /\ s[i].g = g /\ Len(s) \in Nat /\ DOMAIN s = 1..Len(s)
    BY <1>1 DEF PlacesOf, Numbered
  <2>2. CASE i <= c
    <3>1. i \in 1..c
      BY <2>1, <2>2, <1>2
    <3>2. s[i] \in Entries(o) \cup Entries(state[g])
      BY <3>1, <2>1, <1>2 DEF Holding
    <3>3. CASE s[i] \in Entries(o)
      BY <3>3 DEF Entries, ToSet
    <3>4. CASE s[i] \in Entries(state[g])
      BY <3>4, <1>2, <1>4, <1>5 DEF Sorting, Entries
    <3>q. QED
      BY <3>2, <3>3, <3>4
  <2>3. CASE i > c
    BY <2>1, <2>3, <1>1, <1>2, <1>3, <1>4, <1>5, NoneTooLate
  <2>q. QED
    BY <2>1, <2>2, <2>3, <1>2
<1>q. QED
  BY <1>6, <1>7 DEF s, o

(***************************************************************************)
(* A buffer sort over groups that are out of order by at most the slack    *)
(* emits each group in order, and nothing before what is still to come:    *)
(* for every stream, every way to cut it, every slack and all the groups.  *)
(***************************************************************************)
THEOREM BSortSorts == OpSpec => []BSortSorted
<1>1. OpInit => BSortInv
  BY BSortInitInv
<1>2. BSortInv /\ [OpNext]_opVars => BSortInv'
  <2> SUFFICES ASSUME BSortInv, [OpNext]_opVars PROVE BSortInv'
    OBVIOUS
  <2>1. CASE BSort
    BY <2>1, BSortRuns
  <2>2. CASE OpNext /\ ~BSort
    BY <2>2, OtherBoxes
  <2>3. CASE UNCHANGED opVars
    BY <2>3 DEF opVars, BSortInv, Op, Ports, Stream
  <2>q. QED
    BY <2>1, <2>2, <2>3
<1>3. BSortInv => BSortSorted
  BY InvSorted
<1>q. QED
  BY <1>1, <1>2, <1>3, PTL DEF OpSpec

-----------------------------------------------------------------------------
(* A part of a sequence, in its order.                                     *)

\* What Sift recurses with.
SiftStep(f, s, D, n) ==
  IF n = 0 THEN <<>> ELSE IF n \in D THEN Append(f[n - 1], s[n]) ELSE f[n - 1]

\* f holds what Sift has after each of the first N elements.
SiftUpto(f, s, D, N) == f = [n \in 0..N |-> SiftStep(f, s, D, n)]

\* There is such a function, for every length.
LEMMA SiftExists ==
  ASSUME NEW s, NEW D, NEW N \in Nat
  PROVE  \E f : SiftUpto(f, s, D, N)
<1> DEFINE T == {m \in Nat : \E f : SiftUpto(f, s, D, m)}
<1>0. ASSUME NEW f, NEW h, NEW n \in Nat, n # 0 => f[n - 1] = h[n - 1]
      PROVE  SiftStep(f, s, D, n) = SiftStep(h, s, D, n)
  BY <1>0 DEF SiftStep
<1>1. 0 \in T
  <2> DEFINE f == [n \in 0..0 |-> <<>>]
  <2>1. \A n \in 0..0 : SiftStep(f, s, D, n) = <<>>
    BY DEF SiftStep
  <2>2. SiftUpto(f, s, D, 0)
    BY <2>1 DEF SiftUpto
  <2>q. QED
    BY <2>2
<1>2. ASSUME NEW m \in Nat, m \in T PROVE m + 1 \in T
  <2> PICK f : SiftUpto(f, s, D, m)
    BY <1>2
  <2> DEFINE h == [n \in 0..(m + 1) |-> SiftStep(f, s, D, n)]
  <2>1. \A n \in 0..m : h[n] = f[n]
    BY DEF SiftUpto
  <2> HIDE DEF h
  <2>2. ASSUME NEW n \in 0..(m + 1)
        PROVE  SiftStep(f, s, D, n) = SiftStep(h, s, D, n)
    <3>1. n # 0 => n - 1 \in 0..m
      OBVIOUS
    <3>2. n # 0 => f[n - 1] = h[n - 1]
      BY <3>1, <2>1
    <3>q. QED
      BY <3>2, <1>0
  <2>3. SiftUpto(h, s, D, m + 1)
    <3>1. h = [n \in 0..(m + 1) |-> SiftStep(f, s, D, n)]
      BY DEF h
    <3>q. QED
      BY <3>1, <2>2, Zenon DEF SiftUpto
  <2>q. QED
    BY <2>3
<1>3. \A m \in Nat : m \in T
  <2> HIDE DEF T
  <2> QED BY <1>1, <1>2, NatSetInduction
<1>q. QED
  BY <1>3

\* r has the first n elements of s that D has, by places.
Sifted(r, s, D, n, places) ==
  /\ places \in [1..Len(r) -> 1..n]
  /\ \A i \in 1..Len(r) : r[i] = s[places[i]] /\ places[i] \in D
  /\ \A i, j \in 1..Len(r) : i < j => places[i] < places[j]
  /\ \A k \in 1..n : k \in D => \E i \in 1..Len(r) : places[i] = k

\* The next element is taken or left.
LEMMA SiftOneMore ==
  ASSUME NEW X, NEW s \in Seq(X), NEW D, NEW n \in Nat, n + 1 <= Len(s),
         NEW r \in Seq(X), NEW places, Sifted(r, s, D, n, places)
  PROVE  /\ n + 1 \in D =>
              /\ Append(r, s[n + 1]) \in Seq(X)
              /\ \E p : Sifted(Append(r, s[n + 1]), s, D, n + 1, p)
         /\ n + 1 \notin D => Sifted(r, s, D, n + 1, places)
<1> DEFINE x == s[n + 1]
           a == Append(r, x)
           L == Len(r)
<1>1. x \in X /\ L \in Nat
  OBVIOUS
<1>2. /\ a \in Seq(X) /\ Len(a) = L + 1 /\ a[L + 1] = x
      /\ \A i \in 1..L : a[i] = r[i]
  BY <1>1
<1>3. ASSUME n + 1 \in D PROVE \E p : Sifted(a, s, D, n + 1, p)
  <2> DEFINE p == [i \in 1..(L + 1) |-> IF i = L + 1 THEN n + 1 ELSE places[i]]
  <2>1. \A i \in 1..L : places[i] \in 1..n /\ places[i] \in Nat /\ places[i] <= n
    BY DEF Sifted
  <2>2. \A i \in 1..(L + 1) : i = L + 1 \/ i \in 1..L
    BY <1>1
  <2>3. p \in [1..(L + 1) -> 1..(n + 1)]
    BY <2>1, <2>2
  <2>4. p[L + 1] = n + 1 /\ \A i \in 1..L : p[i] = places[i]
    BY <1>1
  <2> HIDE DEF p, a, x
  <2>5. \A i \in 1..(L + 1) : a[i] = s[p[i]] /\ p[i] \in D
    BY <1>2, <1>3, <2>2, <2>4 DEF x, Sifted
  <2>6. ASSUME NEW i \in 1..(L + 1), NEW j \in 1..(L + 1), i < j PROVE p[i] < p[j]
    <3>1. i \in 1..L /\ p[i] = places[i]
      BY <1>1, <2>2, <2>4, <2>6
    <3>2. CASE j = L + 1
      BY <2>1, <2>4, <3>1, <3>2
    <3>3. CASE j \in 1..L
      BY <2>4, <2>6, <3>1, <3>3 DEF Sifted
    <3>q. QED
      BY <2>2, <3>2, <3>3
  <2>7. \A k \in 1..(n + 1) : k \in D => \E i \in 1..(L + 1) : p[i] = k
    <3> SUFFICES ASSUME NEW k \in 1..(n + 1), k \in D PROVE \E i \in 1..(L + 1) : p[i] = k
      OBVIOUS
    <3>1. CASE k = n + 1
      BY <3>1, <2>4, <1>1
    <3>2. CASE k \in 1..n
      <4>1. PICK i \in 1..L : places[i] = k
        BY <3>2 DEF Sifted
      <4>q. QED
        BY <4>1, <2>4, <1>1
    <3>q. QED
      BY <3>1, <3>2
  <2>8. Sifted(a, s, D, n + 1, p)
    BY <1>2, <2>3, <2>5, <2>6, <2>7 DEF Sifted
  <2>q. QED
    BY <2>8
<1>4. ASSUME n + 1 \notin D PROVE Sifted(r, s, D, n + 1, places)
  <2>1. \A k \in 1..(n + 1) : k \in D => k \in 1..n
    BY <1>4
  <2>q. QED
    BY <2>1 DEF Sifted
<1>q. QED
  BY <1>2, <1>3, <1>4

\* What Sift returns is a part of the sequence, by some places.
LEMMA SiftProperties ==
  ASSUME NEW X, NEW s \in Seq(X), NEW D
  PROVE  /\ Sift(s, D) \in Seq(X)
         /\ \E p : Sifted(Sift(s, D), s, D, Len(s), p)
<1> DEFINE N == Len(s)
           f == CHOOSE h : h = [n \in 0..N |-> SiftStep(h, s, D, n)]
           M == {m \in Nat : m <= N => f[m] \in Seq(X) /\ \E p : Sifted(f[m], s, D, m, p)}
<1>0. N \in Nat
  OBVIOUS
<1>1. f = [n \in 0..N |-> SiftStep(f, s, D, n)]
  <2> HIDE DEF N
  <2>1. \E h : SiftUpto(h, s, D, N)
    BY <1>0, SiftExists
  <2>q. QED
    BY <2>1 DEF SiftUpto
<1>2. Sift(s, D) = f[N]
  BY DEF Sift, SiftStep
<1> HIDE DEF f, N
<1>3. f[0] = <<>>
  BY <1>0, <1>1 DEF SiftStep
<1>4. \A n \in 1..N : f[n] = IF n \in D THEN Append(f[n - 1], s[n]) ELSE f[n - 1]
  <2> SUFFICES ASSUME NEW n \in 1..N
               PROVE  f[n] = IF n \in D THEN Append(f[n - 1], s[n]) ELSE f[n - 1]
    OBVIOUS
  <2>1. n \in 0..N /\ n # 0
    BY <1>0
  <2>2. f[n] = SiftStep(f, s, D, n)
    BY <2>1, <1>1
  <2>q. QED
    BY <2>1, <2>2 DEF SiftStep
<1>5. 0 \in M
  <2>1. <<>> \in Seq(X) /\ Sifted(<<>>, s, D, 0, [i \in 1..0 |-> 0])
    BY DEF Sifted
  <2>q. QED
    BY <2>1, <1>3
<1>6. ASSUME NEW m \in Nat, m \in M PROVE m + 1 \in M
  <2> SUFFICES ASSUME m + 1 <= N
               PROVE  f[m + 1] \in Seq(X) /\ \E p : Sifted(f[m + 1], s, D, m + 1, p)
    OBVIOUS
  <2>1. f[m] \in Seq(X) /\ \E p : Sifted(f[m], s, D, m, p)
    BY <1>0, <1>6
  <2> PICK p : Sifted(f[m], s, D, m, p)
    BY <2>1
  <2>2. f[m + 1] = IF m + 1 \in D THEN Append(f[m], s[m + 1]) ELSE f[m]
    <3>1. m + 1 \in 1..N /\ (m + 1) - 1 = m
      BY <1>0
    <3>q. QED
      BY <3>1, <1>4
  <2> DEFINE r == f[m]
  <2>3. r \in Seq(X) /\ Sifted(r, s, D, m, p) /\ m + 1 <= Len(s)
    BY <2>1 DEF N
  <2> HIDE DEF r
  <2>4. /\ m + 1 \in D => /\ Append(r, s[m + 1]) \in Seq(X)
                          /\ \E q : Sifted(Append(r, s[m + 1]), s, D, m + 1, q)
        /\ m + 1 \notin D => Sifted(r, s, D, m + 1, p)
    BY <2>3, SiftOneMore
  <2>5. CASE m + 1 \in D
    BY <2>2, <2>4, <2>5 DEF r
  <2>6. CASE m + 1 \notin D
    BY <2>2, <2>3, <2>4, <2>6 DEF r
  <2>q. QED
    BY <2>5, <2>6
<1>7. \A m \in Nat : m \in M
  <2> HIDE DEF M
  <2> QED BY <1>5, <1>6, NatSetInduction
<1>8. f[N] \in Seq(X) /\ \E p : Sifted(f[N], s, D, N, p)
  BY <1>0, <1>7
<1>q. QED
  BY <1>2, <1>8 DEF N

\* No two elements are the same.
Distinct(s) == \A i, j \in DOMAIN s : s[i] = s[j] => i = j

\* The elements of a part are those D has; a part of distinct ones is distinct.
LEMMA SiftEntries ==
  ASSUME NEW X, NEW s \in Seq(X), NEW D
  PROVE  /\ Sift(s, D) \in Seq(X)
         /\ Entries(Sift(s, D)) = {s[i] : i \in DOMAIN s \cap D}
         /\ Distinct(s) => Distinct(Sift(s, D))
<1> DEFINE r == Sift(s, D)
<1>1. r \in Seq(X) /\ \E p : Sifted(r, s, D, Len(s), p)
  BY SiftProperties
<1> HIDE DEF r
<1> PICK p : Sifted(r, s, D, Len(s), p)
  BY <1>1
<1>2. DOMAIN r = 1..Len(r) /\ DOMAIN s = 1..Len(s) /\ Len(r) \in Nat /\ Len(s) \in Nat
  BY <1>1
<1>3. ASSUME NEW x \in Entries(r) PROVE x \in {s[i] : i \in DOMAIN s \cap D}
  <2>1. PICK i \in 1..Len(r) : x = r[i]
    BY <1>2 DEF Entries
  <2>q. QED
    BY <2>1, <1>2 DEF Sifted
<1>4. ASSUME NEW i \in DOMAIN s \cap D PROVE s[i] \in Entries(r)
  <2>1. PICK j \in 1..Len(r) : p[j] = i
    BY <1>2 DEF Sifted
  <2>2. r[j] = s[i]
    BY <2>1 DEF Sifted
  <2>q. QED
    BY <2>1, <2>2, <1>2 DEF Entries
<1>5. Entries(r) = {s[i] : i \in DOMAIN s \cap D}
  BY <1>3, <1>4
<1>6. ASSUME Distinct(s) PROVE Distinct(r)
  <2> SUFFICES ASSUME NEW i \in 1..Len(r), NEW j \in 1..Len(r), r[i] = r[j] PROVE i = j
    BY <1>2 DEF Distinct
  <2>1. p[i] \in 1..Len(s) /\ p[j] \in 1..Len(s) /\ s[p[i]] = s[p[j]]
    BY DEF Sifted
  <2>2. p[i] = p[j]
    BY <1>2, <1>6, <2>1 DEF Distinct
  <2>3. ~(i < j) /\ ~(j < i)
    BY <1>2, <2>1, <2>2 DEF Sifted
  <2>q. QED
    BY <1>2, <2>3
<1>q. QED
  BY <1>1, <1>5, <1>6 DEF r

-----------------------------------------------------------------------------
(* Highest and lowest values.                                              *)

\* A finite set of places with integer values has one with the highest.
LEMMA HighestPlace ==
  ASSUME NEW S, IsFiniteSet(S), S # {}, NEW f, \A c \in S : f[c] \in Int
  PROVE  \E c \in S : \A d \in S : f[d] <= f[c]
<1> DEFINE C == {T \in SUBSET S : T # {} => \E c \in T : \A d \in T : f[d] <= f[c]}
<1>1. {} \in C
  OBVIOUS
<1>2. ASSUME NEW T \in SUBSET S, T # {}, \A x \in T : T \ {x} \in C
      PROVE  T \in C
  <2>1. PICK x \in T : TRUE
    BY <1>2
  <2>2. CASE T \ {x} = {}
    <3>1. \A d \in T : d = x
      BY <2>2
    <3>q. QED
      BY <2>1, <3>1
  <2>3. CASE T \ {x} # {}
    <3>1. PICK c \in T \ {x} : \A d \in T \ {x} : f[d] <= f[c]
      BY <1>2, <2>1, <2>3
    <3>2. f[c] \in Int /\ f[x] \in Int /\ \A d \in T : f[d] \in Int
      BY <2>1, <3>1
    <3>3. CASE f[x] <= f[c]
      BY <3>1, <3>2, <3>3
    <3>4. CASE f[c] <= f[x]
      <4>1. \A d \in T : f[d] <= f[x]
        BY <3>1, <3>2, <3>4
      <4>q. QED
        BY <4>1, <2>1
    <3>q. QED
      BY <3>2, <3>3, <3>4
  <2>q. QED
    BY <2>2, <2>3
<1>3. S \in C
  <2> HIDE DEF C
  <2> QED BY <1>1, <1>2, FiniteSetInduction
<1>q. QED
  BY <1>3

\* Min of a set of integers that are all above one of them.
LEMMA MinProperties ==
  ASSUME NEW S, S # {}, NEW l \in Int, \A x \in S : x \in Int /\ l <= x
  PROVE  Min(S) \in S /\ \A x \in S : Min(S) <= x
<1> DEFINE T == {x - l : x \in S}
<1>1. T \subseteq Nat /\ T # {}
  OBVIOUS
<1>2. PICK n \in T : \A m \in T : n <= m
  <2> HIDE DEF T
  <2> QED BY <1>1, NatLeast
<1>3. PICK y \in S : n = y - l
  BY <1>2
<1>4. \A x \in S : y <= x
  <2> SUFFICES ASSUME NEW x \in S PROVE y <= x
    OBVIOUS
  <2>1. x - l \in T
    OBVIOUS
  <2>2. y - l <= x - l
    BY <1>2, <1>3, <2>1
  <2>q. QED
    BY <2>2, <1>3
<1>5. \E x \in S : \A z \in S : x <= z
  BY <1>3, <1>4
<1>q. QED
  BY <1>5 DEF Min

\* Max of a set of integers that has a highest one.
LEMMA MaxProperties ==
  ASSUME NEW S, S \subseteq Int, NEW y \in S, \A x \in S : x <= y
  PROVE  Max(S) = y
<1>1. \E x \in S : \A z \in S : x >= z
  OBVIOUS
<1>2. Max(S) \in S /\ \A z \in S : Max(S) >= z
  BY <1>1, Zenon DEF Max
<1> DEFINE m == Max(S)
<1>3. m \in S /\ m >= y
  BY <1>2
<1> HIDE DEF m
<1>4. m = y
  BY <1>3
<1>q. QED
  BY <1>4 DEF m

-----------------------------------------------------------------------------
(* The window buffers of a join.                                           *)

\* A record with the fields of a window buffer.
IsBufferList(b) ==
  b = [att |-> b.att, buffer |-> b.buffer, thr |-> b.thr, vec |-> b.vec, slack |-> b.slack]

\* b is the buffer of a side on which the tuples of a came: it has a cell for
\* each of them, whose value is between that of the tuple and one that came.
Buffered(b, a) ==
  /\ IsBufferList(b)
  /\ b.att \in [{t.id : t \in Entries(a)} -> Int]
  /\ \A t \in Entries(a) : t.v <= b.att[t.id] /\ \E u \in Entries(a) : b.att[t.id] <= u.v
  /\ b.vec \subseteq {t.id : t \in Entries(a)} /\ IsFiniteSet(b.vec)
  /\ b.buffer \in Seq(Entries(a)) /\ Distinct(b.buffer)
  /\ b.buffer # <<>> => b.thr \in {t.id : t \in Entries(a)}

\* nb differs from b in that the value of the cell of the threshold is higher,
\* but not above all others, and in the slack and its vector.
Advanced(nb, b, D) ==
  /\ IsBufferList(nb)
  /\ nb.buffer = b.buffer /\ nb.thr = b.thr
  /\ nb.att \in [D -> Int]
  /\ nb.vec \subseteq D /\ IsFiniteSet(nb.vec)
  /\ \A d \in D : b.att[d] <= nb.att[d] /\ \E e \in D : nb.att[d] <= b.att[e]

\* The threshold rises to a value that a cell of the vector has, or below one.
LEMMA ThresholdAdvances ==
  ASSUME NEW D, NEW b, IsBufferList(b), b.att \in [D -> Int], b.vec \subseteq D,
         IsFiniteSet(b.vec), b.thr \in D, NEW m \in Nat,
         NEW c \in b.vec, b.att[c] > b.att[b.thr]
  PROVE  Advanced(AdvanceThreshold(b, m), b, D)
<1> DEFINE nb == AdvanceThreshold(b, m)
           Above(u) == {d \in b.vec \ {b.thr} : b.att[d] > u}
           tops == {b.att[d] : d \in b.vec} \cup {Threshold(b) + 1}
           good == {u \in (Threshold(b) + 1)..Max(tops) : Cardinality(Above(u)) <= m}
           t == Min(good)
<1>0. b.att[b.thr] \in Int /\ Threshold(b) = b.att[b.thr] /\ \A d \in D : b.att[d] \in Int
  BY DEF Threshold
<1>1. PICK h \in b.vec : \A d \in b.vec : b.att[d] <= b.att[h]
  <2> DEFINE f == b.att
             S == b.vec
  <2>1. IsFiniteSet(S) /\ S # {} /\ \A d \in S : f[d] \in Int
    BY <1>0
  <2> HIDE DEF f, S
  <2>2. \E e \in S : \A d \in S : f[d] <= f[e]
    BY <2>1, HighestPlace
  <2>q. QED
    BY <2>2 DEF f, S
<1>2. b.att[h] \in Int /\ b.att[h] >= b.att[b.thr] + 1
  <2>1. b.att[c] <= b.att[h] /\ b.att[c] \in Int /\ b.att[h] \in Int
    BY <1>0, <1>1
  <2>q. QED
    BY <2>1, <1>0
<1>3. Max(tops) = b.att[h]
  <2>1. tops \subseteq Int /\ b.att[h] \in tops
    BY <1>0, <1>2
  <2>2. \A x \in tops : x <= b.att[h]
    BY <1>0, <1>1, <1>2
  <2> DEFINE y == b.att[h]
  <2> HIDE DEF tops, y
  <2>3. tops \subseteq Int /\ y \in tops /\ \A x \in tops : x <= y
    BY <2>1, <2>2 DEF y
  <2>4. Max(tops) = y
    BY <2>3, MaxProperties
  <2>q. QED
    BY <2>4 DEF y
<1> HIDE DEF tops
<1>4. good = {u \in (b.att[b.thr] + 1)..b.att[h] : Cardinality(Above(u)) <= m}
  BY <1>0, <1>3
<1>5. b.att[h] \in good
  <2>1. Above(b.att[h]) = {}
    BY <1>0, <1>1
  <2>2. Cardinality(Above(b.att[h])) = 0
    BY <2>1, FS_EmptySet
  <2> HIDE DEF Above
  <2>3. b.att[h] \in (b.att[b.thr] + 1)..b.att[h]
    BY <1>0, <1>2
  <2>q. QED
    BY <2>2, <2>3, <1>4
<1>6. t \in good
  <2>1. \A x \in good : x \in Int /\ b.att[b.thr] + 1 <= x
    <3> HIDE DEF Above
    <3> QED BY <1>0, <1>2, <1>4
  <2>2. b.att[b.thr] + 1 \in Int
    BY <1>0
  <2> DEFINE l == b.att[b.thr] + 1
  <2> HIDE DEF good, l
  <2>3. good # {} /\ l \in Int /\ \A x \in good : x \in Int /\ l <= x
    BY <1>5, <2>1, <2>2 DEF l
  <2>q. QED
    BY <2>3, MinProperties
<1>7. t \in Int /\ b.att[b.thr] < t /\ t <= b.att[h]
  <2> HIDE DEF t, Above
  <2> QED BY <1>0, <1>2, <1>4, <1>6
<1>8. nb = IF b.slack <= m THEN b
           ELSE [b EXCEPT !.att[b.thr] = t, !.vec = Above(t), !.slack = Cardinality(Above(t))]
  BY DEF AdvanceThreshold, tops
<1>9. Above(t) \subseteq b.vec /\ IsFiniteSet(Above(t))
  <2>1. Above(t) \in SUBSET b.vec
    OBVIOUS
  <2> HIDE DEF Above, t
  <2>2. IsFiniteSet(Above(t))
    <3> DEFINE V == b.vec
    <3> HIDE DEF V
    <3>1. IsFiniteSet(V) /\ Above(t) \in SUBSET V
      BY <2>1 DEF V
    <3> QED BY <3>1, FS_Subset
  <2>q. QED
    BY <2>1, <2>2
<1> HIDE DEF nb, Above, good, t
<1>10. CASE b.slack <= m
  <2>1. nb = b
    BY <1>8, <1>10
  <2>2. \A d \in D : b.att[d] <= b.att[d] /\ \E e \in D : b.att[d] <= b.att[e]
    BY <1>0
  <2>q. QED
    BY <2>1, <2>2 DEF Advanced, nb
<1>11. CASE ~(b.slack <= m)
  <2> DEFINE v == Above(t)
             k == Cardinality(v)
  <2>1. nb = [b EXCEPT !.att[b.thr] = t, !.vec = v, !.slack = k]
    BY <1>8, <1>11
  <2> HIDE DEF v, k
  <2>2. nb = [att |-> [b.att EXCEPT ![b.thr] = t], buffer |-> b.buffer, thr |-> b.thr,
              vec |-> v, slack |-> k]
    BY <2>1 DEF IsBufferList
  <2>3. IsBufferList(nb) /\ nb.buffer = b.buffer /\ nb.thr = b.thr /\ nb.vec = v
    BY <2>2 DEF IsBufferList
  <2>4. nb.att = [b.att EXCEPT ![b.thr] = t]
    BY <2>2
  <2>5. nb.att \in [D -> Int] /\ nb.att[b.thr] = t
        /\ \A d \in D : d # b.thr => nb.att[d] = b.att[d]
    BY <2>4, <1>0, <1>7
  <2>6. h \in D
    BY <1>1
  <2>7. \A d \in D : b.att[d] <= nb.att[d] /\ \E e \in D : nb.att[d] <= b.att[e]
    <3> SUFFICES ASSUME NEW d \in D
                 PROVE  b.att[d] <= nb.att[d] /\ \E e \in D : nb.att[d] <= b.att[e]
      OBVIOUS
    <3>1. CASE d = b.thr
      BY <3>1, <2>5, <2>6, <1>0, <1>7
    <3>2. CASE d # b.thr
      BY <3>2, <2>5, <1>0
    <3>q. QED
      BY <3>1, <3>2
  <2>8. nb.vec \subseteq D /\ IsFiniteSet(nb.vec)
    BY <2>3, <1>9 DEF v
  <2>q. QED
    BY <2>3, <2>5, <2>7, <2>8 DEF Advanced, nb
<1>q. QED
  BY <1>10, <1>11

\* The tuple t is about to come after those of a.
Coming(a, t) ==
  /\ Comparable(Entries(a) \cup {t})
  /\ a \in Seq(Entries(a))
  /\ \A u \in Entries(a) : u.id # t.id

\* The places of the tuples of a.
IdsOf(a) == {t.id : t \in Entries(a)}

\* What holds of the tuples with the new one.
LEMMA ComingFacts ==
  ASSUME NEW a, NEW t, Coming(a, t)
  PROVE  /\ Append(a, t) \in Seq(Entries(Append(a, t)))
         /\ Entries(Append(a, t)) = Entries(a) \cup {t}
         /\ IdsOf(Append(a, t)) = IdsOf(a) \cup {t.id}
         /\ t \notin Entries(a)
         /\ t.v \in Int /\ t.id \in Int /\ \A u \in Entries(a) : u.v \in Int /\ u.id \in Int
<1> DEFINE X == Entries(a) \cup {t}
<1>1. a \in Seq(X) /\ t \in X
  <2>1. a \in Seq(Entries(a)) /\ Entries(a) \subseteq X
    BY DEF Coming
  <2> HIDE DEF X
  <2>2. a \in Seq(X)
    <3> DEFINE A == Entries(a)
    <3> HIDE DEF A
    <3>1. a \in Seq(A) /\ A \subseteq X
      BY <2>1 DEF A
    <3> QED BY <3>1, WiderSeq
  <2>q. QED
    BY <2>2 DEF X
<1> HIDE DEF X
<1>2. Append(a, t) \in Seq(X) /\ Entries(Append(a, t)) = Entries(a) \cup {t}
  BY <1>1, AppendEntries
<1>3. Append(a, t) \in Seq(Entries(Append(a, t)))
  BY <1>2 DEF X
<1>4. IdsOf(Append(a, t)) = IdsOf(a) \cup {t.id}
  BY <1>2 DEF IdsOf
<1>q. QED
  BY <1>2, <1>3, <1>4 DEF Coming, Comparable

\* The buffer of the side of a new tuple, before it is pushed.
LEMMA ArrivedBuffer ==
  ASSUME NEW a, NEW t, Coming(a, t), NEW b, Buffered(b, a),
         NEW m, m = IF IsEmpty(AddToVector(b, t)) THEN SetThreshold(AddToVector(b, t), t)
                    ELSE AddToVector(b, t)
  PROVE  /\ Buffered(m, Append(a, t))
         /\ m.thr \in IdsOf(Append(a, t))
         /\ m.buffer = b.buffer
         /\ \A u \in Entries(a) : m.att[u.id] = b.att[u.id]
         /\ m.att[t.id] = t.v /\ t.id \in m.vec
         /\ b.buffer = <<>> => m.thr = t.id
<1> DEFINE I == IdsOf(a)
           c == Append(a, t)
           J == I \cup {t.id}
           att == [d \in J |-> IF d = t.id THEN t.v ELSE b.att[d]]
           vec == b.vec \cup {t.id}
           thr == IF b.buffer = <<>> THEN t.id ELSE b.thr
<1>1. /\ c \in Seq(Entries(c)) /\ Entries(c) = Entries(a) \cup {t} /\ IdsOf(c) = J
      /\ t \notin Entries(a) /\ t.v \in Int
      /\ \A u \in Entries(a) : u.v \in Int /\ u.id \in I /\ u.id # t.id
  BY ComingFacts DEF IdsOf, Coming
<1>2. /\ IsBufferList(b) /\ b.att \in [I -> Int]
      /\ b.vec \subseteq I /\ IsFiniteSet(b.vec)
      /\ b.buffer \in Seq(Entries(a)) /\ Distinct(b.buffer)
      /\ b.buffer # <<>> => b.thr \in I
  BY DEF Buffered, IdsOf
<1>3. m = [att |-> att, buffer |-> b.buffer, thr |-> thr, vec |-> vec, slack |-> b.slack]
  <2> DEFINE n == AddToVector(b, t)
  <2>1. DOMAIN b.att = I
    BY <1>2
  <2>2. n = [att |-> att, buffer |-> b.buffer, thr |-> b.thr, vec |-> vec, slack |-> b.slack]
    <3>1. n = [b EXCEPT !.att = att, !.vec = vec]
      BY <2>1 DEF AddToVector
    <3> HIDE DEF att, vec
    <3>q. QED
      BY <1>2, <3>1 DEF IsBufferList
  <2> HIDE DEF n, att, vec
  <2>3. CASE b.buffer = <<>>
    <3>1. m = SetThreshold(n, t)
      BY <2>2, <2>3 DEF IsEmpty, n
    <3>q. QED
      BY <2>2, <2>3, <3>1 DEF SetThreshold
  <2>4. CASE b.buffer # <<>>
    BY <2>2, <2>4 DEF IsEmpty, n
  <2>q. QED
    BY <2>3, <2>4
<1>4. att \in [J -> Int] /\ att[t.id] = t.v /\ \A u \in Entries(a) : att[u.id] = b.att[u.id]
  BY <1>1, <1>2
<1>5. IsFiniteSet(vec) /\ vec \subseteq J /\ t.id \in vec
  BY <1>2, FS_AddElement
<1>6. thr \in J
  BY <1>2
<1> HIDE DEF att, vec, thr, c, J
<1>7. m.att = att /\ m.buffer = b.buffer /\ m.thr = thr /\ m.vec = vec /\ IsBufferList(m)
  BY <1>3 DEF IsBufferList
<1>8. ASSUME NEW u \in Entries(c) PROVE u.v <= att[u.id] /\ \E w \in Entries(c) : att[u.id] <= w.v
  <2>1. CASE u = t
    BY <2>1, <1>1, <1>4
  <2>2. CASE u \in Entries(a)
    <3>1. u.v <= b.att[u.id] /\ \E w \in Entries(a) : b.att[u.id] <= w.v
      BY <2>2 DEF Buffered
    <3>q. QED
      BY <2>2, <3>1, <1>1, <1>4
  <2>q. QED
    BY <1>1, <2>1, <2>2
<1>9. b.buffer \in Seq(Entries(c))
  <2> DEFINE A == Entries(a)
             B == Entries(c)
             s == b.buffer
  <2>1. A \subseteq B /\ s \in Seq(A)
    BY <1>1, <1>2
  <2> HIDE DEF A, B, s
  <2>2. s \in Seq(B)
    BY <2>1, WiderSeq
  <2>q. QED
    BY <2>2 DEF B, s
<1>10. Buffered(m, c)
  BY <1>1, <1>2, <1>4, <1>5, <1>6, <1>7, <1>8, <1>9 DEF Buffered, IdsOf
<1>q. QED
  BY <1>1, <1>4, <1>5, <1>6, <1>7, <1>10 DEF c, thr

\* The buffer with the new tuple pushed.
LEMMA PushedBuffer ==
  ASSUME NEW a, NEW m, Buffered(m, a), m.thr \in IdsOf(a),
         NEW t \in Entries(a), t \notin Entries(m.buffer)
  PROVE  /\ Buffered(PushBack(m, t), a)
         /\ PushBack(m, t).thr = m.thr /\ PushBack(m, t).att = m.att
         /\ PushBack(m, t).vec = m.vec
         /\ Entries(PushBack(m, t).buffer) = Entries(m.buffer) \cup {t}
<1> DEFINE p == PushBack(m, t)
           s == m.buffer
           r == Append(s, t)
           A == Entries(a)
<1>1. IsBufferList(m) /\ s \in Seq(A) /\ Distinct(s) /\ t \in A
  BY DEF Buffered
<1>2. p = [att |-> m.att, buffer |-> r, thr |-> m.thr, vec |-> m.vec, slack |-> m.slack]
  <2>1. p = [m EXCEPT !.buffer = r]
    BY DEF PushBack
  <2> HIDE DEF r
  <2>q. QED
    BY <1>1, <2>1 DEF IsBufferList
<1> HIDE DEF p
<1>3. /\ p.att = m.att /\ p.buffer = r /\ p.thr = m.thr /\ p.vec = m.vec /\ IsBufferList(p)
  BY <1>2 DEF IsBufferList
<1>4. t \notin Entries(s)
  OBVIOUS
<1> HIDE DEF A, s
<1>5. /\ r \in Seq(A) /\ DOMAIN s = 1..Len(s) /\ Len(s) \in Nat
      /\ DOMAIN r = 1..(Len(s) + 1)
      /\ \A i \in 1..Len(s) : r[i] = s[i]
      /\ r[Len(s) + 1] = t
      /\ Entries(r) = Entries(s) \cup {t}
  BY <1>1, AppendEntries
<1> HIDE DEF r
<1>6. Distinct(r)
  <2> SUFFICES ASSUME NEW i \in 1..(Len(s) + 1), NEW j \in 1..(Len(s) + 1), r[i] = r[j]
               PROVE  i = j
    BY <1>5 DEF Distinct
  <2>1. \A k \in 1..(Len(s) + 1) : k = Len(s) + 1 \/ k \in 1..Len(s)
    BY <1>5
  <2>2. \A k \in 1..Len(s) : r[k] \in Entries(s)
    BY <1>5 DEF Entries
  <2>3. CASE i \in 1..Len(s) /\ j \in 1..Len(s)
    BY <2>3, <1>1, <1>5 DEF Distinct
  <2>q. QED
    BY <2>1, <2>2, <2>3, <1>4, <1>5
<1>7. Buffered(p, a)
  BY <1>3, <1>5, <1>6 DEF Buffered, A, IdsOf
<1>q. QED
  BY <1>3, <1>5, <1>7 DEF p, s

\* The buffer with its threshold raised: the cells only rise, and none above all others.
LEMMA RaisedBuffer ==
  ASSUME NEW a, NEW k, Buffered(k, a), k.thr \in IdsOf(a), NEW n \in Nat,
         NEW c \in k.vec, k.att[c] > k.att[k.thr], \A u \in Entries(a) : u.v \in Int
  PROVE  LET r == AdvanceThreshold(IncreaseSlack(k), n) IN
         /\ Buffered(r, a)
         /\ r.buffer = k.buffer /\ r.thr = k.thr
         /\ \A u \in Entries(a) : k.att[u.id] <= r.att[u.id]
<1> DEFINE b == IncreaseSlack(k)
           r == AdvanceThreshold(b, n)
           I == IdsOf(a)
<1>1. /\ IsBufferList(k) /\ k.att \in [I -> Int] /\ k.vec \subseteq I /\ IsFiniteSet(k.vec)
  BY DEF Buffered, IdsOf
<1>2. b = [att |-> k.att, buffer |-> k.buffer, thr |-> k.thr, vec |-> k.vec, slack |-> k.slack + 1]
  BY <1>1 DEF IncreaseSlack, IsBufferList
<1> HIDE DEF b, I
<1>3. /\ IsBufferList(b) /\ b.att = k.att /\ b.buffer = k.buffer /\ b.thr = k.thr /\ b.vec = k.vec
  BY <1>2 DEF IsBufferList
<1>4. Advanced(r, b, I)
  <2>1. /\ IsBufferList(b) /\ b.att \in [I -> Int] /\ b.vec \subseteq I /\ IsFiniteSet(b.vec)
        /\ b.thr \in I /\ c \in b.vec /\ b.att[c] > b.att[b.thr]
    BY <1>1, <1>3 DEF I
  <2>q. QED
    BY <2>1, ThresholdAdvances
<1> HIDE DEF r
<1>5. \A u \in Entries(a) : u.id \in I
  BY DEF I, IdsOf
<1>6. ASSUME NEW u \in Entries(a)
      PROVE  /\ k.att[u.id] <= r.att[u.id] /\ u.v <= r.att[u.id]
             /\ \E w \in Entries(a) : r.att[u.id] <= w.v
  <2>1. u.id \in I /\ u.v \in Int /\ r.att[u.id] \in Int /\ k.att[u.id] \in Int
    BY <1>1, <1>4, <1>5 DEF Advanced
  <2>2. u.v <= k.att[u.id] /\ k.att[u.id] <= r.att[u.id]
    BY <1>3, <1>4, <2>1 DEF Advanced, Buffered
  <2>3. PICK e \in I : r.att[u.id] <= k.att[e]
    BY <1>3, <1>4, <2>1 DEF Advanced
  <2>4. PICK x \in Entries(a) : e = x.id
    BY <2>3 DEF I, IdsOf
  <2>5. PICK w \in Entries(a) : k.att[e] <= w.v
    BY <2>4 DEF Buffered
  <2>6. k.att[e] \in Int /\ w.v \in Int
    BY <1>1, <2>3
  <2>7. r.att[u.id] <= w.v
    BY <2>1, <2>3, <2>5, <2>6
  <2>q. QED
    BY <2>1, <2>2, <2>7
<1>7. Buffered(r, a)
  BY <1>3, <1>4, <1>6 DEF Buffered, Advanced, IdsOf, I
<1>8. r.buffer = k.buffer /\ r.thr = k.thr
  BY <1>3, <1>4 DEF Advanced
<1>q. QED
  BY <1>6, <1>7, <1>8 DEF r, b

\* The buffer after erase: what is gone was more than a window below the threshold.
LEMMA ErasedBuffer ==
  ASSUME NEW a, NEW h, Buffered(h, a), NEW threshold, NEW w
  PROVE  /\ Buffered(Erase(h, threshold, w), a)
         /\ Erase(h, threshold, w).att = h.att
         /\ \A u \in Entries(h.buffer) :
              u \in Entries(Erase(h, threshold, w).buffer) \/ ~(threshold - h.att[u.id] <= w)
<1> DEFINE e == Erase(h, threshold, w)
           s == h.buffer
           D == {i \in DOMAIN s : threshold - h.att[s[i].id] <= w}
           r == Sift(s, D)
           A == Entries(a)
<1>1. IsBufferList(h) /\ s \in Seq(A) /\ Distinct(s)
  BY DEF Buffered
<1>2. e = [att |-> h.att, buffer |-> r, thr |-> h.thr, vec |-> h.vec, slack |-> h.slack]
  BY <1>1 DEF Erase, IsBufferList, Att
<1> HIDE DEF e
<1>3. /\ e.att = h.att /\ e.buffer = r /\ e.thr = h.thr /\ e.vec = h.vec /\ IsBufferList(e)
  BY <1>2 DEF IsBufferList
<1>4. /\ r \in Seq(A) /\ Distinct(r) /\ Entries(r) = {s[i] : i \in DOMAIN s \cap D}
  <2> HIDE DEF A, s, D
  <2> QED BY <1>1, SiftEntries
<1>5. r # <<>> => s # <<>>
  <2>1. r # <<>> => r[1] \in Entries(r)
    <3>1. r # <<>> => 1 \in DOMAIN r
      BY <1>4
    <3>q. QED
      BY <3>1 DEF Entries
  <2>2. s = <<>> => Entries(r) = {}
    BY <1>4
  <2>q. QED
    BY <2>1, <2>2
<1> HIDE DEF r
<1>6. \A u \in Entries(s) : u \in Entries(r) \/ ~(threshold - h.att[u.id] <= w)
  <2> SUFFICES ASSUME NEW i \in DOMAIN s
               PROVE  s[i] \in Entries(r) \/ ~(threshold - h.att[s[i].id] <= w)
    BY DEF Entries
  <2>q. QED
    BY <1>4
<1>7. Buffered(e, a)
  BY <1>3, <1>4, <1>5 DEF Buffered
<1>q. QED
  BY <1>3, <1>6, <1>7 DEF e

\* The values come in order.
Rising(a) == \A i, j \in DOMAIN a : i < j => a[i].v <= a[j].v

\* x waits in b for its partners, or is past the window of those to come.
Awaits(x, b, others) ==
  x \in Entries(b.buffer) \/ \E y \in Entries(others) : y.v - x.v > JoinWindow

\* The pairs of t, and of all tuples of am, with the tuples of the other side.
PairsWith(s, t, ah) == {Pair(s, t, y) : y \in Entries(ah)}
PairsOf(s, am, ah) == {Pair(s, x, y) : x \in Entries(am), y \in Entries(ah)}

(***************************************************************************)
(* A join after the tuples am came on side s and ah on the other, with the *)
(* buffers bm and bh; o are the pairs it emitted.                          *)
(***************************************************************************)
JoinHolds(s, am, ah, bm, bh, o) ==
  /\ Buffered(bm, am) /\ Buffered(bh, ah)
  /\ o \in Seq(PairsOf(s, am, ah)) /\ Distinct(o)
  /\ \A x \in Entries(am), y \in Entries(ah) :
       Pair(s, x, y) \in Entries(o) =>
         /\ Joins(Pair(s, x, y))
         /\ Distance(x.v, y.v) <= JoinWindow \/ bm.att[x.id] # x.v \/ bh.att[y.id] # y.v
  /\ Rising(am) /\ Rising(ah) =>
       /\ \A x \in Entries(am) : Awaits(x, bm, ah)
       /\ \A y \in Entries(ah) : Awaits(y, bh, am)
       /\ \A x \in Entries(am), y \in Entries(ah) :
            /\ Distance(x.v, y.v) <= JoinWindow /\ Joins(Pair(s, x, y))
            /\ bm.att[x.id] = x.v /\ bh.att[y.id] = y.v
            => Pair(s, x, y) \in Entries(o)

\* When values with the new one come in order, the new one is the highest.
LEMMA RisingMore ==
  ASSUME NEW a, NEW t, Coming(a, t), Rising(Append(a, t))
  PROVE  Rising(a) /\ \A u \in Entries(a) : u.v <= t.v
<1> DEFINE X == Entries(a) \cup {t}
           c == Append(a, t)
<1>1. a \in Seq(X) /\ t \in X
  <2> DEFINE A == Entries(a)
  <2>1. a \in Seq(A) /\ A \subseteq X
    BY DEF Coming
  <2> HIDE DEF A, X
  <2>2. a \in Seq(X)
    BY <2>1, WiderSeq
  <2>q. QED
    BY <2>2 DEF X
<1> HIDE DEF X
<1>2. /\ DOMAIN a = 1..Len(a) /\ Len(a) \in Nat /\ DOMAIN c = 1..(Len(a) + 1)
      /\ \A i \in 1..Len(a) : c[i] = a[i]
      /\ c[Len(a) + 1] = t
  BY <1>1, AppendEntries
<1> HIDE DEF c
<1>3. Rising(c)
  BY DEF c
<1>4. \A i \in 1..Len(a) : i \in DOMAIN c /\ i < Len(a) + 1 /\ Len(a) + 1 \in DOMAIN c
  BY <1>2
<1>5. Rising(a)
  BY <1>2, <1>3, <1>4 DEF Rising
<1>6. \A i \in 1..Len(a) : a[i].v <= t.v
  BY <1>2, <1>3, <1>4 DEF Rising
<1>q. QED
  BY <1>2, <1>5, <1>6 DEF Entries

\* What a concatenation holds, and when it repeats nothing.
LEMMA ConcatEntries ==
  ASSUME NEW X, NEW s \in Seq(X), NEW q \in Seq(X)
  PROVE  /\ s \o q \in Seq(X)
         /\ Entries(s \o q) = Entries(s) \cup Entries(q)
         /\ (Distinct(s) /\ Distinct(q) /\ Entries(s) \cap Entries(q) = {}) => Distinct(s \o q)
<1> DEFINE r == s \o q
           M == Len(s)
           N == Len(q)
<1>1. /\ r \in Seq(X) /\ Len(r) = M + N /\ M \in Nat /\ N \in Nat
      /\ DOMAIN s = 1..M /\ DOMAIN q = 1..N
      /\ \A i \in 1..(M + N) : r[i] = IF i <= M THEN s[i] ELSE q[i - M]
  BY ConcatProperties
<1> HIDE DEF r, M, N
<1>2. DOMAIN r = 1..(M + N)
  BY <1>1
<1>3. \A i \in 1..(M + N) : \/ i \in 1..M /\ r[i] = s[i]
                            \/ i > M /\ i - M \in 1..N /\ r[i] = q[i - M]
  BY <1>1
<1>4. Entries(r) \subseteq Entries(s) \cup Entries(q)
  BY <1>1, <1>2, <1>3 DEF Entries
<1>5. Entries(s) \subseteq Entries(r)
  BY <1>1, <1>2 DEF Entries
<1>6. Entries(q) \subseteq Entries(r)
  <2> SUFFICES ASSUME NEW j \in 1..N PROVE q[j] \in Entries(r)
    BY <1>1 DEF Entries
  <2>1. M + j \in 1..(M + N) /\ ~(M + j <= M) /\ (M + j) - M = j
    BY <1>1
  <2>2. r[M + j] = q[j]
    BY <2>1, <1>1
  <2>q. QED
    BY <2>1, <2>2, <1>2 DEF Entries
<1>7. ASSUME Distinct(s), Distinct(q), Entries(s) \cap Entries(q) = {}
      PROVE  Distinct(r)
  <2> SUFFICES ASSUME NEW i \in 1..(M + N), NEW j \in 1..(M + N), r[i] = r[j]
               PROVE  i = j
    BY <1>2 DEF Distinct
  <2>1. \A k \in 1..M : s[k] \in Entries(s)
    BY <1>1 DEF Entries
  <2>2. \A k \in 1..N : q[k] \in Entries(q)
    BY <1>1 DEF Entries
  <2>3. CASE i \in 1..M /\ r[i] = s[i] /\ j \in 1..M /\ r[j] = s[j]
    BY <2>3, <1>1, <1>7 DEF Distinct
  <2>4. CASE i - M \in 1..N /\ r[i] = q[i - M] /\ j - M \in 1..N /\ r[j] = q[j - M]
    <3>1. i - M = j - M
      BY <2>4, <1>1, <1>7 DEF Distinct
    <3>q. QED
      BY <3>1, <1>1
  <2>q. QED
    BY <1>3, <1>7, <2>1, <2>2, <2>3, <2>4
<1>q. QED
  BY <1>1, <1>4, <1>5, <1>6, <1>7 DEF r

\* A pair tells which of the two came from which side.
LEMMA PairSides ==
  ASSUME NEW s, NEW x, NEW y, NEW u, NEW w, Pair(s, x, y) = Pair(s, u, w)
  PROVE  x = u /\ y = w
BY DEF Pair

\* What a tuple t does to a join, however the buffers come to change.
LEMMA PairsAfter ==
  ASSUME JoinWindow \in Nat,
         NEW s, NEW am, NEW ah, NEW bm, NEW bh, NEW o, JoinHolds(s, am, ah, bm, bh, o),
         NEW t, Coming(am, t), NEW c, c = Append(am, t), Comparable(Entries(ah)),
         NEW nm, Buffered(nm, c), \A u \in Entries(am) : bm.att[u.id] <= nm.att[u.id],
         NEW nh, Buffered(nh, ah), nh.att = bh.att,
         NEW q \in Seq(PairsWith(s, t, ah)), Distinct(q),
         \A y \in Entries(ah) : Pair(s, t, y) \in Entries(q) =>
           Joins(Pair(s, t, y)) /\ Distance(bh.att[y.id], t.v) <= JoinWindow,
         Rising(c) /\ Rising(ah) =>
           /\ \A y \in Entries(ah) :
                Distance(t.v, y.v) <= JoinWindow /\ Joins(Pair(s, t, y)) /\ bh.att[y.id] = y.v
                => Pair(s, t, y) \in Entries(q)
           /\ \A x \in Entries(bm.buffer) : x \in Entries(nm.buffer)
           /\ Awaits(t, nm, ah)
           /\ \A y \in Entries(bh.buffer) : Awaits(y, nh, c)
  PROVE  JoinHolds(s, c, ah, nm, nh, o \o q)
<1> DEFINE A == Entries(am)
           B == Entries(ah)
           C == Entries(c)
<1>1. /\ C = A \cup {t} /\ t \notin A
      /\ t.v \in Int /\ \A u \in A : u.v \in Int
  BY ComingFacts
<1>2. \A u \in B : u.v \in Int
  BY DEF Comparable
<1>3. \A u \in A : bm.att[u.id] \in Int /\ nm.att[u.id] \in Int
                   /\ u.v <= bm.att[u.id] /\ bm.att[u.id] <= nm.att[u.id]
  BY <1>1 DEF JoinHolds, Buffered
<1>4. \A y \in B : bh.att[y.id] \in Int
  BY DEF JoinHolds, Buffered
<1>5. /\ o \o q \in Seq(PairsOf(s, c, ah))
      /\ Entries(o \o q) = Entries(o) \cup Entries(q)
      /\ Distinct(o \o q)
  <2> DEFINE X == PairsOf(s, c, ah)
             Y == PairsOf(s, am, ah)
             Z == PairsWith(s, t, ah)
  <2>1. Y \subseteq X /\ Z \subseteq X
    BY <1>1 DEF PairsOf, PairsWith
  <2>2. o \in Seq(Y) /\ q \in Seq(Z)
    BY DEF JoinHolds
  <2>3. Y \cap Z = {}
    <3> SUFFICES ASSUME NEW x \in A, NEW y \in B, NEW w \in B, Pair(s, x, y) = Pair(s, t, w)
                 PROVE  FALSE
      BY DEF PairsOf, PairsWith
    <3>q. QED
      BY <1>1, PairSides
  <2> HIDE DEF X, Y, Z
  <2>4. o \in Seq(X) /\ q \in Seq(X)
    BY <2>1, <2>2, WiderSeq
  <2>5. Entries(o) \subseteq Y /\ Entries(q) \subseteq Z
    BY <2>2 DEF Entries
  <2>6. Distinct(o) /\ Distinct(q) /\ Entries(o) \cap Entries(q) = {}
    BY <2>3, <2>5 DEF JoinHolds
  <2>q. QED
    BY <2>4, <2>6, ConcatEntries DEF X
<1>6. ASSUME NEW x \in C, NEW y \in B, Pair(s, x, y) \in Entries(o \o q)
      PROVE  /\ Joins(Pair(s, x, y))
             /\ Distance(x.v, y.v) <= JoinWindow \/ nm.att[x.id] # x.v \/ nh.att[y.id] # y.v
  <2>1. CASE Pair(s, x, y) \in Entries(o)
    <3>1. Entries(o) \subseteq PairsOf(s, am, ah)
      <4> DEFINE Y == PairsOf(s, am, ah)
      <4>1. o \in Seq(Y)
        BY DEF JoinHolds
      <4> HIDE DEF Y
      <4>2. Entries(o) \subseteq Y
        BY <4>1 DEF Entries
      <4>q. QED
        BY <4>2 DEF Y
    <3>2. x \in A
      <4>1. PICK u \in A, w \in B : Pair(s, x, y) = Pair(s, u, w)
        BY <2>1, <3>1 DEF PairsOf
      <4>q. QED
        BY <4>1, PairSides
    <3>3. /\ Joins(Pair(s, x, y))
          /\ Distance(x.v, y.v) <= JoinWindow \/ bm.att[x.id] # x.v \/ bh.att[y.id] # y.v
      BY <2>1, <3>2 DEF JoinHolds
    <3>4. bm.att[x.id] # x.v => nm.att[x.id] # x.v
      BY <1>1, <1>3, <3>2
    <3>q. QED
      BY <3>3, <3>4
  <2>2. CASE Pair(s, x, y) \in Entries(q)
    <3>1. x = t
      <4>1. Entries(q) \subseteq PairsWith(s, t, ah)
        <5> DEFINE Z == PairsWith(s, t, ah)
        <5>1. q \in Seq(Z)
          OBVIOUS
        <5> HIDE DEF Z
        <5>2. Entries(q) \subseteq Z
          BY <5>1 DEF Entries
        <5>q. QED
          BY <5>2 DEF Z
      <4>2. PICK w \in B : Pair(s, x, y) = Pair(s, t, w)
        BY <2>2, <4>1 DEF PairsWith
      <4>q. QED
        BY <4>2, PairSides
    <3>2. Joins(Pair(s, t, y)) /\ Distance(bh.att[y.id], t.v) <= JoinWindow
      BY <2>2, <3>1
    <3>3. nh.att[y.id] = y.v => Distance(t.v, y.v) <= JoinWindow
      BY <3>2, <1>1, <1>2 DEF Distance
    <3>q. QED
      BY <3>1, <3>2, <3>3
  <2>q. QED
    BY <1>5, <1>6, <2>1, <2>2
<1>7. ASSUME Rising(c), Rising(ah)
      PROVE  /\ \A x \in C : Awaits(x, nm, ah)
             /\ \A y \in B : Awaits(y, nh, c)
             /\ \A x \in C, y \in B :
                  /\ Distance(x.v, y.v) <= JoinWindow /\ Joins(Pair(s, x, y))
                  /\ nm.att[x.id] = x.v /\ nh.att[y.id] = y.v
                  => Pair(s, x, y) \in Entries(o \o q)
  <2>1. Rising(am)
    BY <1>7, RisingMore
  <2>2. ASSUME NEW x \in C PROVE Awaits(x, nm, ah)
    <3>1. CASE x = t
      BY <3>1, <1>7
    <3>2. CASE x \in A
      <4>1. Awaits(x, bm, ah)
        BY <3>2, <2>1, <1>7 DEF JoinHolds
      <4>q. QED
        BY <4>1, <1>7 DEF Awaits
    <3>q. QED
      BY <3>1, <3>2, <1>1
  <2>3. ASSUME NEW y \in B PROVE Awaits(y, nh, c)
    <3>1. Awaits(y, bh, am)
      BY <2>1, <1>7 DEF JoinHolds
    <3>2. CASE y \in Entries(bh.buffer)
      BY <3>2, <1>7
    <3>3. CASE \E x \in Entries(am) : x.v - y.v > JoinWindow
      BY <3>3, <1>1 DEF Awaits
    <3>q. QED
      BY <3>1, <3>2, <3>3 DEF Awaits
  <2>4. ASSUME NEW x \in C, NEW y \in B,
               Distance(x.v, y.v) <= JoinWindow, Joins(Pair(s, x, y)),
               nm.att[x.id] = x.v, nh.att[y.id] = y.v
        PROVE  Pair(s, x, y) \in Entries(o \o q)
    <3>1. CASE x = t
      <4>1. Pair(s, x, y) \in Entries(q)
        BY <1>7, <2>4, <3>1
      <4>q. QED
        BY <4>1, <1>5
    <3>2. CASE x \in A
      <4>1. bm.att[x.id] = x.v
        BY <1>1, <1>3, <2>4, <3>2
      <4>2. Pair(s, x, y) \in Entries(o)
        BY <1>7, <2>1, <2>4, <3>2, <4>1 DEF JoinHolds
      <4>q. QED
        BY <4>2, <1>5
    <3>q. QED
      BY <3>1, <3>2, <1>1
  <2>q. QED
    BY <2>2, <2>3, <2>4
<1> HIDE DEF A, B, C
<1>q. QED
  BY <1>5, <1>6, <1>7 DEF JoinHolds, A, B, C

\* The names of JoinTuple.
MineOf(b, t) == IF IsEmpty(AddToVector(b, t)) THEN SetThreshold(AddToVector(b, t), t)
                ELSE AddToVector(b, t)
\* The buffer with the new tuple stored, with its threshold raised, and the pairs found.
KeptOfMine(m, h, t) == IF Threshold(h) - t.v <= JoinWindow THEN PushBack(m, t) ELSE m
RaisedOf(k, s) == AdvanceThreshold(IncreaseSlack(k), JoinSlack[s])
PairsFound(s, t, h) == [i \in DOMAIN Partners(s, t, h) |-> Pair(s, t, Partners(s, t, h)[i])]

\* The pairs of the new tuple: the tuples of the other buffer whose cells are in its window.
LEMMA FoundPairs ==
  ASSUME NEW s, NEW t, NEW a, NEW h, Buffered(h, a)
  PROVE  /\ PairsFound(s, t, h) \in Seq(PairsWith(s, t, a))
         /\ Distinct(PairsFound(s, t, h))
         /\ \A y \in Entries(a) :
              Pair(s, t, y) \in Entries(PairsFound(s, t, h)) <=>
                /\ y \in Entries(h.buffer)
                /\ Distance(h.att[y.id], t.v) <= JoinWindow
                /\ Joins(Pair(s, t, y))
<1> DEFINE A == Entries(a)
           b == h.buffer
           D == {i \in DOMAIN b : /\ Distance(h.att[b[i].id], t.v) <= JoinWindow
                                  /\ Joins(Pair(s, t, b[i]))}
           f == Sift(b, D)
           Z == PairsWith(s, t, a)
           q == [i \in DOMAIN f |-> Pair(s, t, f[i])]
<1>1. b \in Seq(A) /\ Distinct(b)
  BY DEF Buffered
<1>2. Partners(s, t, h) = f
  BY DEF Partners, Att
<1>3. f \in Seq(A) /\ Entries(f) = {b[i] : i \in DOMAIN b \cap D} /\ Distinct(f)
  <2> HIDE DEF A, b, D
  <2> QED BY <1>1, SiftEntries
<1>4. PairsFound(s, t, h) = q
  BY <1>2 DEF PairsFound
<1>5. \A y \in A : y \in Entries(f) <=> /\ y \in Entries(b)
                                       /\ Distance(h.att[y.id], t.v) <= JoinWindow
                                       /\ Joins(Pair(s, t, y))
  <2> HIDE DEF f, A
  <2> QED BY <1>3 DEF Entries
<1> HIDE DEF f, A, b, D
<1>6. DOMAIN f = 1..Len(f) /\ Len(f) \in Nat /\ \A i \in 1..Len(f) : f[i] \in A
  BY <1>3
<1>7. q \in Seq(Z) /\ DOMAIN q = DOMAIN f /\ \A i \in DOMAIN f : q[i] = Pair(s, t, f[i])
  <2>1. q = [i \in 1..Len(f) |-> Pair(s, t, f[i])]
    BY <1>6
  <2>2. \A i \in 1..Len(f) : Pair(s, t, f[i]) \in Z
    BY <1>6 DEF PairsWith, A
  <2> HIDE DEF Z
  <2>q. QED
    BY <1>6, <2>1, <2>2
<1> HIDE DEF q
<1>8. Distinct(q)
  <2> SUFFICES ASSUME NEW i \in DOMAIN f, NEW j \in DOMAIN f, q[i] = q[j] PROVE i = j
    BY <1>7 DEF Distinct
  <2>1. f[i] = f[j]
    BY <1>7, PairSides
  <2>q. QED
    BY <2>1, <1>3 DEF Distinct
<1>9. ASSUME NEW y \in A PROVE Pair(s, t, y) \in Entries(q) <=> y \in Entries(f)
  <2>1. ASSUME Pair(s, t, y) \in Entries(q) PROVE y \in Entries(f)
    <3>1. PICK i \in DOMAIN f : Pair(s, t, y) = Pair(s, t, f[i])
      BY <1>7, <2>1 DEF Entries
    <3>2. y = f[i]
      BY <3>1, PairSides
    <3>q. QED
      BY <3>2 DEF Entries
  <2>2. ASSUME y \in Entries(f) PROVE Pair(s, t, y) \in Entries(q)
    <3>1. PICK i \in DOMAIN f : y = f[i]
      BY <2>2 DEF Entries
    <3>q. QED
      BY <3>1, <1>7 DEF Entries
  <2>q. QED
    BY <2>1, <2>2
<1>q. QED
  BY <1>4, <1>5, <1>7, <1>8, <1>9 DEF A, b, Z

\* The other side's threshold is not above all the values that came there.
LEMMA ThresholdReached ==
  ASSUME NEW a, Comparable(Entries(a)), NEW h, Buffered(h, a), h.thr \in IdsOf(a)
  PROVE  Threshold(h) \in Int /\ \E y \in Entries(a) : Threshold(h) <= y.v
<1>1. PICK x \in Entries(a) : h.thr = x.id
  BY DEF IdsOf
<1>2. h.att[x.id] \in Int /\ \E u \in Entries(a) : h.att[x.id] <= u.v
  BY DEF Buffered
<1>q. QED
  BY <1>1, <1>2 DEF Threshold

\* The new tuple is stored unless the other side has passed its window.
LEMMA KeptFacts ==
  ASSUME JoinWindow \in Nat,
         NEW am, NEW t, Coming(am, t), NEW bm, Buffered(bm, am),
         NEW ah, Comparable(Entries(ah)), NEW bh, Buffered(bh, ah), bh.buffer # <<>>,
         NEW m, m = MineOf(bm, t), NEW k, k = KeptOfMine(m, bh, t)
  PROVE  /\ Buffered(k, Append(am, t)) /\ k.thr \in IdsOf(Append(am, t))
         /\ k.thr = m.thr /\ k.att = m.att /\ k.vec = m.vec
         /\ \A x \in Entries(bm.buffer) : x \in Entries(k.buffer)
         /\ Awaits(t, k, ah)
<1> DEFINE c == Append(am, t)
<1>1. /\ Buffered(m, c) /\ m.thr \in IdsOf(c) /\ m.buffer = bm.buffer
  BY ArrivedBuffer DEF MineOf
<1>2. t \in Entries(c) /\ t \notin Entries(am) /\ t.v \in Int
  BY ComingFacts
<1>3. t \notin Entries(m.buffer)
  <2> DEFINE A == Entries(am)
  <2>1. m.buffer \in Seq(A)
    BY <1>1 DEF Buffered
  <2> HIDE DEF A
  <2>2. Entries(m.buffer) \subseteq A
    BY <2>1 DEF Entries
  <2>q. QED
    BY <2>2, <1>2 DEF A
<1> HIDE DEF c
<1>4. CASE Threshold(bh) - t.v <= JoinWindow
  <2>1. k = PushBack(m, t)
    BY <1>4 DEF KeptOfMine
  <2>2. /\ Buffered(k, c) /\ k.thr = m.thr /\ k.att = m.att /\ k.vec = m.vec
        /\ Entries(k.buffer) = Entries(m.buffer) \cup {t}
    BY <2>1, <1>1, <1>2, <1>3, PushedBuffer
  <2>q. QED
    BY <2>2, <1>1 DEF Awaits, c
<1>5. CASE ~(Threshold(bh) - t.v <= JoinWindow)
  <2>1. k = m
    BY <1>5 DEF KeptOfMine
  <2>2. bh.thr \in IdsOf(ah)
    BY DEF Buffered, IdsOf
  <2>3. PICK y \in Entries(ah) : Threshold(bh) <= y.v
    BY <2>2, ThresholdReached
  <2>4. Threshold(bh) \in Int /\ y.v \in Int
    BY <2>2, ThresholdReached DEF Comparable
  <2>5. y.v - t.v > JoinWindow
    BY <2>3, <2>4, <1>2, <1>5
  <2>q. QED
    BY <2>1, <2>5, <1>1 DEF Awaits, c
<1>q. QED
  BY <1>4, <1>5

\* Of no tuple that has gone from the other buffer comes a partner yet.
LEMMA GoneFar ==
  ASSUME JoinWindow \in Nat,
         NEW s, NEW am, NEW ah, NEW bm, NEW bh, NEW o, JoinHolds(s, am, ah, bm, bh, o),
         NEW t, Coming(am, t), Comparable(Entries(ah)),
         Rising(Append(am, t)), Rising(ah),
         NEW y \in Entries(ah), Distance(t.v, y.v) <= JoinWindow
  PROVE  y \in Entries(bh.buffer)
<1>1. Rising(am) /\ \A u \in Entries(am) : u.v <= t.v
  BY RisingMore
<1>2. Awaits(y, bh, am)
  BY <1>1 DEF JoinHolds
<1>3. t.v \in Int /\ y.v \in Int /\ \A u \in Entries(am) : u.v \in Int
  BY ComingFacts DEF Comparable
<1>4. ASSUME NEW x \in Entries(am), x.v - y.v > JoinWindow PROVE FALSE
  <2>1. t.v - y.v > JoinWindow /\ t.v > y.v
    BY <1>1, <1>3, <1>4
  <2>q. QED
    BY <2>1, <1>3 DEF Distance
<1>q. QED
  BY <1>2, <1>4 DEF Awaits

\* The first branch of doBox: the other buffer is empty, and the tuple is stored.
LEMMA EmptyCase ==
  ASSUME JoinWindow \in Nat,
         NEW s, NEW am, NEW ah, NEW bm, NEW bh, NEW o, JoinHolds(s, am, ah, bm, bh, o),
         NEW t, Coming(am, t), Comparable(Entries(ah)), bh.buffer = <<>>
  PROVE  JoinHolds(s, Append(am, t), ah, PushBack(MineOf(bm, t), t), bh, o \o <<>>)
<1> DEFINE m == MineOf(bm, t)
           c == Append(am, t)
           p == PushBack(m, t)
           q == <<>>
           Z == PairsWith(s, t, ah)
<1>1. Buffered(bm, am) /\ Buffered(bh, ah)
  BY DEF JoinHolds
<1>2. /\ Buffered(m, c) /\ m.thr \in IdsOf(c) /\ m.buffer = bm.buffer
      /\ \A u \in Entries(am) : m.att[u.id] = bm.att[u.id]
  BY <1>1, ArrivedBuffer DEF MineOf
<1>3. t \in Entries(c) /\ t \notin Entries(am)
  BY ComingFacts
<1>4. t \notin Entries(m.buffer)
  <2> DEFINE A == Entries(am)
  <2>1. m.buffer \in Seq(A)
    BY <1>1, <1>2 DEF Buffered
  <2> HIDE DEF A, m
  <2>2. Entries(m.buffer) \subseteq A
    BY <2>1 DEF Entries
  <2>q. QED
    BY <2>2, <1>3 DEF A
<1> HIDE DEF m
<1>5. /\ Buffered(p, c) /\ p.att = m.att /\ Entries(p.buffer) = Entries(bm.buffer) \cup {t}
  <2> HIDE DEF c
  <2> QED BY <1>2, <1>3, <1>4, PushedBuffer
<1> HIDE DEF p
<1>6. \A u \in Entries(am) : bm.att[u.id] <= p.att[u.id]
  <2> SUFFICES ASSUME NEW u \in Entries(am) PROVE bm.att[u.id] <= p.att[u.id]
    OBVIOUS
  <2>1. bm.att[u.id] \in Int
    BY <1>1 DEF Buffered
  <2>q. QED
    BY <2>1, <1>2, <1>5
<1>7. q \in Seq(Z) /\ Distinct(q) /\ Entries(q) = {}
  BY DEF Distinct, Entries
<1>8. Entries(bh.buffer) = {}
  BY DEF Entries
<1>9. ASSUME Rising(c), Rising(ah)
      PROVE  /\ \A y \in Entries(ah) : ~(Distance(t.v, y.v) <= JoinWindow)
             /\ Awaits(t, p, ah)
  BY <1>5, <1>8, <1>9, GoneFar DEF Awaits
<1> HIDE DEF c, q
<1>10. JoinHolds(s, c, ah, p, bh, o \o q)
  <2>1. c = Append(am, t)
    BY DEF c
  <2>2. \A y \in Entries(ah) : Pair(s, t, y) \in Entries(q) =>
          Joins(Pair(s, t, y)) /\ Distance(bh.att[y.id], t.v) <= JoinWindow
    BY <1>7
  <2>3. Rising(c) /\ Rising(ah) =>
           /\ \A y \in Entries(ah) :
                Distance(t.v, y.v) <= JoinWindow /\ Joins(Pair(s, t, y)) /\ bh.att[y.id] = y.v
                => Pair(s, t, y) \in Entries(q)
           /\ \A x \in Entries(bm.buffer) : x \in Entries(p.buffer)
           /\ Awaits(t, p, ah)
           /\ \A y \in Entries(bh.buffer) : Awaits(y, bh, c)
    BY <1>5, <1>8, <1>9
  <2>4. q \in Seq(PairsWith(s, t, ah))
    BY <1>7
  <2>q. QED
    BY <1>1, <1>5, <1>6, <1>7, <2>1, <2>2, <2>3, <2>4, PairsAfter
<1>q. QED
  BY <1>10 DEF c, q, p, m

\* The tuple is below the threshold of its side: only when its side is out of order.
LEMMA LateCase ==
  ASSUME JoinWindow \in Nat,
         NEW s, NEW am, NEW ah, NEW bm, NEW bh, NEW o, JoinHolds(s, am, ah, bm, bh, o),
         NEW t, Coming(am, t), Comparable(Entries(ah)),
         NEW m, m = MineOf(bm, t), t.v < Threshold(m)
  PROVE  JoinHolds(s, Append(am, t), ah, m, bh, o \o <<>>)
<1> DEFINE c == Append(am, t)
           q == <<>>
           Z == PairsWith(s, t, ah)
<1>1. Buffered(bm, am) /\ Buffered(bh, ah)
  BY DEF JoinHolds
<1>2. /\ Buffered(m, c) /\ m.thr \in IdsOf(c) /\ m.buffer = bm.buffer
      /\ \A u \in Entries(am) : m.att[u.id] = bm.att[u.id]
  BY <1>1, ArrivedBuffer DEF MineOf
<1>3. \A u \in Entries(am) : bm.att[u.id] <= m.att[u.id]
  <2> SUFFICES ASSUME NEW u \in Entries(am) PROVE bm.att[u.id] <= m.att[u.id]
    OBVIOUS
  <2>1. bm.att[u.id] \in Int
    BY <1>1 DEF Buffered
  <2>q. QED
    BY <2>1, <1>2
<1>4. q \in Seq(Z) /\ Distinct(q) /\ Entries(q) = {}
  BY DEF Distinct, Entries
<1>5. ~Rising(c)
  <2>1. Entries(c) = Entries(am) \cup {t} /\ t.v \in Int /\ \A u \in Entries(am) : u.v \in Int
    BY ComingFacts
  <2>2. Comparable(Entries(c))
    BY <2>1 DEF Coming
  <2>3. PICK u \in Entries(c) : Threshold(m) <= u.v
    BY <1>2, <2>2, ThresholdReached
  <2>4. Threshold(m) \in Int
    BY <1>2, <2>2, ThresholdReached
  <2>5. t.v < u.v
    BY <2>1, <2>3, <2>4
  <2>6. u \in Entries(am)
    BY <2>1, <2>5
  <2>7. Rising(c) => u.v <= t.v
    BY <2>6, RisingMore
  <2>q. QED
    BY <2>1, <2>5, <2>6, <2>7
<1> HIDE DEF c, q
<1>6. JoinHolds(s, c, ah, m, bh, o \o q)
  <2>1. c = Append(am, t)
    BY DEF c
  <2>2. \A y \in Entries(ah) : Pair(s, t, y) \in Entries(q) =>
          Joins(Pair(s, t, y)) /\ Distance(bh.att[y.id], t.v) <= JoinWindow
    BY <1>4
  <2>3. Rising(c) /\ Rising(ah) =>
           /\ \A y \in Entries(ah) :
                Distance(t.v, y.v) <= JoinWindow /\ Joins(Pair(s, t, y)) /\ bh.att[y.id] = y.v
                => Pair(s, t, y) \in Entries(q)
           /\ \A x \in Entries(bm.buffer) : x \in Entries(m.buffer)
           /\ Awaits(t, m, ah)
           /\ \A y \in Entries(bh.buffer) : Awaits(y, bh, c)
    BY <1>5
  <2>4. q \in Seq(PairsWith(s, t, ah))
    BY <1>4
  <2>q. QED
    BY <1>1, <1>2, <1>3, <1>4, <2>1, <2>2, <2>3, <2>4, PairsAfter
<1>q. QED
  BY <1>6 DEF c, q

\* A tuple that is not late finds its pairs.
LEMMA TimelyCase ==
  ASSUME JoinWindow \in Nat,
         NEW s, NEW am, NEW ah, NEW bm, NEW bh, NEW o, JoinHolds(s, am, ah, bm, bh, o),
         NEW t, Coming(am, t), Comparable(Entries(ah)), bh.buffer # <<>>,
         NEW c, c = Append(am, t),
         NEW nm, Buffered(nm, c), \A u \in Entries(am) : bm.att[u.id] <= nm.att[u.id],
         NEW nh, Buffered(nh, ah), nh.att = bh.att,
         \A x \in Entries(bm.buffer) : x \in Entries(nm.buffer),
         Awaits(t, nm, ah),
         \A y \in Entries(bh.buffer) : Awaits(y, nh, c)
  PROVE  JoinHolds(s, c, ah, nm, nh, o \o PairsFound(s, t, bh))
<1> DEFINE q == PairsFound(s, t, bh)
<1>1. Buffered(bm, am) /\ Buffered(bh, ah)
  BY DEF JoinHolds
<1>2. /\ q \in Seq(PairsWith(s, t, ah)) /\ Distinct(q)
      /\ \A y \in Entries(ah) : Pair(s, t, y) \in Entries(q) <=>
                /\ y \in Entries(bh.buffer)
                /\ Distance(bh.att[y.id], t.v) <= JoinWindow
                /\ Joins(Pair(s, t, y))
  BY <1>1, FoundPairs
<1> HIDE DEF q
<1>3. ASSUME Rising(c), Rising(ah), NEW y \in Entries(ah),
             Distance(t.v, y.v) <= JoinWindow, Joins(Pair(s, t, y)), bh.att[y.id] = y.v
      PROVE  Pair(s, t, y) \in Entries(q)
  <2>1. y \in Entries(bh.buffer)
    BY <1>3, GoneFar
  <2>2. t.v \in Int /\ y.v \in Int
    BY ComingFacts DEF Comparable
  <2>3. Distance(bh.att[y.id], t.v) <= JoinWindow
    BY <2>2, <1>3 DEF Distance
  <2>q. QED
    BY <1>2, <1>3, <2>1, <2>3
<1>4. Rising(c) /\ Rising(ah) =>
           /\ \A y \in Entries(ah) :
                Distance(t.v, y.v) <= JoinWindow /\ Joins(Pair(s, t, y)) /\ bh.att[y.id] = y.v
                => Pair(s, t, y) \in Entries(q)
           /\ \A x \in Entries(bm.buffer) : x \in Entries(nm.buffer)
           /\ Awaits(t, nm, ah)
           /\ \A y \in Entries(bh.buffer) : Awaits(y, nh, c)
  BY <1>3
<1>5. \A y \in Entries(ah) : Pair(s, t, y) \in Entries(q) =>
        Joins(Pair(s, t, y)) /\ Distance(bh.att[y.id], t.v) <= JoinWindow
  BY <1>2
<1>q. QED
  <2>1. JoinHolds(s, c, ah, nm, nh, o \o q)
    BY <1>2, <1>4, <1>5, PairsAfter
  <2>q. QED
    BY <2>1 DEF q

\* The tuple is at the threshold of its side, which stays.
LEMMA EqualCase ==
  ASSUME JoinWindow \in Nat,
         NEW s, NEW am, NEW ah, NEW bm, NEW bh, NEW o, JoinHolds(s, am, ah, bm, bh, o),
         NEW t, Coming(am, t), Comparable(Entries(ah)), bh.buffer # <<>>,
         NEW m, m = MineOf(bm, t), NEW k, k = KeptOfMine(m, bh, t)
  PROVE  JoinHolds(s, Append(am, t), ah, k, bh, o \o PairsFound(s, t, bh))
<1> DEFINE c == Append(am, t)
<1>1. Buffered(bm, am) /\ Buffered(bh, ah)
  BY DEF JoinHolds
<1>2. /\ Buffered(k, c) /\ k.att = m.att
      /\ \A x \in Entries(bm.buffer) : x \in Entries(k.buffer)
      /\ Awaits(t, k, ah)
  BY <1>1, KeptFacts
<1>3. \A u \in Entries(am) : m.att[u.id] = bm.att[u.id]
  BY <1>1, ArrivedBuffer DEF MineOf
<1>4. \A u \in Entries(am) : bm.att[u.id] <= k.att[u.id]
  <2> SUFFICES ASSUME NEW u \in Entries(am) PROVE bm.att[u.id] <= k.att[u.id]
    OBVIOUS
  <2>1. bm.att[u.id] \in Int
    BY <1>1 DEF Buffered
  <2>q. QED
    BY <2>1, <1>2, <1>3
<1>5. \A y \in Entries(bh.buffer) : Awaits(y, bh, c)
  BY DEF Awaits
<1>6. c = Append(am, t)
  OBVIOUS
<1> HIDE DEF c
<1>q. QED
  BY <1>1, <1>2, <1>4, <1>5, <1>6, TimelyCase

\* The tuple is above the threshold, which may rise; the other buffer is erased.
LEMMA AboveCase ==
  ASSUME JoinWindow \in Nat,
         NEW s, JoinSlack[s] \in Nat,
         NEW am, NEW ah, NEW bm, NEW bh, NEW o, JoinHolds(s, am, ah, bm, bh, o),
         NEW t, Coming(am, t), Comparable(Entries(ah)), bh.buffer # <<>>,
         NEW m, m = MineOf(bm, t), t.v > Threshold(m), NEW k, k = KeptOfMine(m, bh, t),
         NEW r, r = RaisedOf(k, s), NEW e, e = Erase(bh, Threshold(r), JoinWindow)
  PROVE  JoinHolds(s, Append(am, t), ah, r, e, o \o PairsFound(s, t, bh))
<1> DEFINE c == Append(am, t)
<1>1. Buffered(bm, am) /\ Buffered(bh, ah)
  BY DEF JoinHolds
<1>2. /\ Buffered(k, c) /\ k.thr \in IdsOf(c) /\ k.att = m.att /\ k.vec = m.vec /\ k.thr = m.thr
      /\ \A x \in Entries(bm.buffer) : x \in Entries(k.buffer)
      /\ Awaits(t, k, ah)
  BY <1>1, KeptFacts
<1>3. /\ \A u \in Entries(am) : m.att[u.id] = bm.att[u.id]
      /\ m.att[t.id] = t.v /\ t.id \in m.vec
  BY <1>1, ArrivedBuffer DEF MineOf
<1>4. Entries(c) = Entries(am) \cup {t} /\ t.v \in Int /\ \A u \in Entries(c) : u.v \in Int
  BY ComingFacts
<1>5. Comparable(Entries(c))
  BY <1>4 DEF Coming
<1>6. c = Append(am, t)
  OBVIOUS
<1> HIDE DEF c
<1>7. /\ Buffered(r, c) /\ r.buffer = k.buffer /\ r.thr = k.thr
      /\ \A u \in Entries(c) : k.att[u.id] <= r.att[u.id]
  <2> DEFINE n == JoinSlack[s]
             d == t.id
  <2>1. n \in Nat /\ d \in k.vec /\ k.att[d] > k.att[k.thr]
    BY <1>2, <1>3 DEF Threshold
  <2> HIDE DEF n, d
  <2>2. LET x == AdvanceThreshold(IncreaseSlack(k), n) IN
         /\ Buffered(x, c)
         /\ x.buffer = k.buffer /\ x.thr = k.thr
         /\ \A u \in Entries(c) : k.att[u.id] <= x.att[u.id]
    BY <1>2, <1>4, <2>1, RaisedBuffer
  <2>q. QED
    BY <2>2 DEF RaisedOf, n
<1>8. \A u \in Entries(am) : bm.att[u.id] <= r.att[u.id]
  BY <1>2, <1>3, <1>4, <1>7
<1>9. \A x \in Entries(bm.buffer) : x \in Entries(r.buffer)
  BY <1>2, <1>7
<1>10. Awaits(t, r, ah)
  BY <1>2, <1>7 DEF Awaits
<1>11. /\ Buffered(e, ah) /\ e.att = bh.att
       /\ \A y \in Entries(bh.buffer) :
            y \in Entries(e.buffer) \/ ~(Threshold(r) - bh.att[y.id] <= JoinWindow)
  BY <1>1, ErasedBuffer
<1>12. ASSUME NEW y \in Entries(bh.buffer) PROVE Awaits(y, e, c)
  <2>1. y \in Entries(ah)
    <3> DEFINE A == Entries(ah)
    <3>1. bh.buffer \in Seq(A)
      BY <1>1 DEF Buffered
    <3> HIDE DEF A
    <3>2. Entries(bh.buffer) \subseteq A
      BY <3>1 DEF Entries
    <3>q. QED
      BY <3>2 DEF A
  <2>2. y.v \in Int /\ bh.att[y.id] \in Int /\ y.v <= bh.att[y.id]
    BY <2>1, <1>1 DEF Buffered, Comparable
  <2>3. Threshold(r) \in Int /\ \E u \in Entries(c) : Threshold(r) <= u.v
    <3>1. r.thr \in IdsOf(c)
      BY <1>2, <1>7
    <3>q. QED
      BY <3>1, <1>5, <1>7, ThresholdReached
  <2>4. PICK u \in Entries(c) : Threshold(r) <= u.v
    BY <2>3
  <2>5. CASE ~(Threshold(r) - bh.att[y.id] <= JoinWindow)
    <3>1. u.v - y.v > JoinWindow
      BY <1>4, <2>2, <2>3, <2>4, <2>5
    <3>q. QED
      BY <3>1 DEF Awaits
  <2>q. QED
    BY <1>11, <2>5 DEF Awaits
<1>q. QED
  BY <1>6, <1>7, <1>8, <1>9, <1>10, <1>11, <1>12, TimelyCase

-----------------------------------------------------------------------------
\* One round of the loops of doBox.
LEMMA TupleKeepsJoin ==
  ASSUME JoinWindow \in Nat, NEW s \in {1, 2}, JoinSlack[s] \in Nat,
         NEW X, NEW am, NEW ah, NEW t, Coming(am, t), Comparable(Entries(ah)),
         PairsOf(s, Append(am, t), ah) \subseteq X,
         NEW acc, NEW o \in Seq(X), acc.out \in Seq(X),
         JoinHolds(s, am, ah, acc.state[s], acc.state[Other(s)], o \o acc.out),
         NEW next, next = JoinTuple(s, acc, t)
  PROVE  /\ next.out \in Seq(X)
         /\ JoinHolds(s, Append(am, t), ah, next.state[s], next.state[Other(s)], o \o next.out)
<1> DEFINE bm == acc.state[s]
           bh == acc.state[Other(s)]
           m == MineOf(bm, t)
           k == KeptOfMine(m, bh, t)
           r == RaisedOf(k, s)
           e == Erase(bh, Threshold(r), JoinWindow)
           q == PairsFound(s, t, bh)
           c == Append(am, t)
           After(x, h) == IF s = Left THEN <<x, h>> ELSE <<h, x>>
           oo == o \o acc.out
<1>1. JoinHolds(s, am, ah, bm, bh, oo)
  OBVIOUS
<1>2. \A x, h : After(x, h)[s] = x /\ After(x, h)[Other(s)] = h
  BY DEF Left, Other
<1>3. next = CASE IsEmpty(bh) -> [state |-> After(PushBack(m, t), bh), out |-> acc.out]
               [] ~IsEmpty(bh) /\ t.v < Threshold(m) -> [state |-> After(m, bh), out |-> acc.out]
               [] ~IsEmpty(bh) /\ t.v = Threshold(m) ->
                    [state |-> After(k, bh), out |-> acc.out \o q]
               [] ~IsEmpty(bh) /\ t.v > Threshold(m) ->
                    [state |-> After(r, e), out |-> acc.out \o q]
  BY DEF JoinTuple, MineOf, KeptOfMine, RaisedOf, PairsFound
<1>4. t.v \in Int /\ Threshold(m) \in Int
  <2>1. t.v \in Int /\ Comparable(Entries(c))
    BY ComingFacts DEF Coming
  <2>2. Buffered(m, c) /\ m.thr \in IdsOf(c)
    <3>1. Buffered(bm, am)
      BY <1>1 DEF JoinHolds
    <3> HIDE DEF bm
    <3>q. QED
      BY <3>1, ArrivedBuffer DEF MineOf
  <2> HIDE DEF m, c
  <2>q. QED
    BY <2>1, <2>2, ThresholdReached
<1>5. q \in Seq(X)
  <2> DEFINE Z == PairsWith(s, t, ah)
  <2>1. q \in Seq(Z)
    BY <1>1, FoundPairs DEF JoinHolds
  <2>2. Z \subseteq X
    <3>1. t \in Entries(Append(am, t))
      BY ComingFacts
    <3>q. QED
      BY <3>1 DEF PairsWith, PairsOf
  <2> HIDE DEF Z, q
  <2>q. QED
    BY <2>1, <2>2, WiderSeq
<1>6. oo \in Seq(X) /\ oo \o <<>> = oo
  <2> DEFINE x == acc.out
  <2>1. x \in Seq(X)
    OBVIOUS
  <2> HIDE DEF x
  <2>2. o \o x \in Seq(X) /\ (o \o x) \o <<>> = o \o x
    BY <2>1
  <2>q. QED
    BY <2>2 DEF x
<1>7. acc.out \o q \in Seq(X) /\ o \o (acc.out \o q) = oo \o q
  <2> DEFINE x == acc.out
  <2>1. x \in Seq(X)
    OBVIOUS
  <2> HIDE DEF x, q
  <2>2. x \o q \in Seq(X) /\ o \o (x \o q) = (o \o x) \o q
    BY <2>1, <1>5
  <2>q. QED
    BY <2>2 DEF x
<1> HIDE DEF bm, bh, m, k, r, e, q, c, After, oo
<1>8. CASE IsEmpty(bh)
  <2>1. next = [state |-> After(PushBack(m, t), bh), out |-> acc.out]
    BY <1>3, <1>8
  <2>2. /\ next.out = acc.out /\ next.state[s] = PushBack(m, t) /\ next.state[Other(s)] = bh
    BY <2>1, <1>2
  <2>3. JoinHolds(s, c, ah, PushBack(m, t), bh, oo \o <<>>)
    BY <1>1, <1>8, EmptyCase DEF IsEmpty, m, c
  <2>q. QED
    BY <2>2, <2>3, <1>6 DEF oo, c
<1>9. CASE ~IsEmpty(bh) /\ t.v < Threshold(m)
  <2>1. next = [state |-> After(m, bh), out |-> acc.out]
    BY <1>3, <1>4, <1>9
  <2>2. /\ next.out = acc.out /\ next.state[s] = m /\ next.state[Other(s)] = bh
    BY <2>1, <1>2
  <2>3. JoinHolds(s, c, ah, m, bh, oo \o <<>>)
    BY <1>1, <1>9, LateCase DEF m, c
  <2>q. QED
    BY <2>2, <2>3, <1>6 DEF oo, c
<1>10. CASE ~IsEmpty(bh) /\ t.v = Threshold(m)
  <2>1. next = [state |-> After(k, bh), out |-> acc.out \o q]
    BY <1>3, <1>4, <1>10
  <2>2. /\ next.out = acc.out \o q /\ next.state[s] = k /\ next.state[Other(s)] = bh
    BY <2>1, <1>2
  <2>3. JoinHolds(s, c, ah, k, bh, oo \o q)
    BY <1>1, <1>10, EqualCase DEF IsEmpty, m, c, k, q
  <2>q. QED
    BY <2>2, <2>3, <1>7 DEF c
<1>11. CASE ~IsEmpty(bh) /\ t.v > Threshold(m)
  <2>1. next = [state |-> After(r, e), out |-> acc.out \o q]
    BY <1>3, <1>4, <1>11
  <2>2. /\ next.out = acc.out \o q /\ next.state[s] = r /\ next.state[Other(s)] = e
    BY <2>1, <1>2
  <2>3. JoinHolds(s, c, ah, r, e, oo \o q)
    BY <1>1, <1>11, AboveCase DEF IsEmpty, m, c, k, q, r, e
  <2>q. QED
    BY <2>2, <2>3, <1>7 DEF c
<1>q. QED
  BY <1>4, <1>8, <1>9, <1>10, <1>11

-----------------------------------------------------------------------------
(* The train of one side.                                                  *)

\* A sequence of what it holds.
LEMMA OwnSeq ==
  ASSUME NEW X, NEW s \in Seq(X)
  PROVE  s \in Seq(Entries(s)) /\ Entries(s) \subseteq X
<1>1. Len(s) \in Nat /\ s = [i \in 1..Len(s) |-> s[i]] /\ DOMAIN s = 1..Len(s)
      /\ \A i \in 1..Len(s) : s[i] \in X
  OBVIOUS
<1>2. \A i \in 1..Len(s) : s[i] \in Entries(s)
  BY <1>1 DEF Entries
<1>q. QED
  BY <1>1, <1>2 DEF Entries

\* What a side has after the first n tuples of a train.
Given(a, train, n) == a \o SubSeq(train, 1, n)
\* The first n tuples of a train.
Firsts(train, n) == {train[i] : i \in 1..n}

\* The tuples of the side, whatever part of the train it has.
LEMMA GivenFacts ==
  ASSUME NEW Y, NEW a \in Seq(Y), NEW train \in Seq(Y), NEW n \in 0..Len(train)
  PROVE  /\ Given(a, train, n) \in Seq(Y)
         /\ Entries(Given(a, train, n)) = Entries(a) \cup Firsts(train, n)
<1> DEFINE b == SubSeq(train, 1, n)
<1>1. Len(train) \in Nat /\ n \in Nat /\ \A i \in 1..n : train[i] \in Y /\ i \in DOMAIN train
  OBVIOUS
<1>2. b = [i \in 1..n |-> train[i]]
  BY <1>1
<1>3. b \in Seq(Y) /\ Len(b) = n /\ DOMAIN b = 1..n /\ \A i \in 1..n : b[i] = train[i]
  BY <1>1, <1>2
<1> HIDE DEF b
<1>7. a \o b \in Seq(Y) /\ Entries(a \o b) = Entries(a) \cup Entries(b)
  BY <1>3, ConcatEntries
<1>8. Entries(b) = Firsts(train, n)
  BY <1>3 DEF Entries, Firsts
<1>10. Given(a, train, n) = a \o b
  BY DEF Given, b
<1>q. QED
  BY <1>7, <1>8, <1>10

\* One more tuple of the train.
LEMMA GivenNext ==
  ASSUME NEW Y, NEW a \in Seq(Y), NEW train \in Seq(Y), NEW n \in 0..Len(train), n < Len(train)
  PROVE  Given(a, train, n + 1) = Append(Given(a, train, n), train[n + 1])
<1> DEFINE b == SubSeq(train, 1, n)
           e == train[n + 1]
           r == Append(b, e)
<1>1. Len(train) \in Nat /\ n \in Nat /\ e \in Y /\ \A i \in 1..n : train[i] \in Y
  OBVIOUS
<1>2. b = [i \in 1..n |-> train[i]]
  BY <1>1
<1>3. b \in Seq(Y) /\ Len(b) = n /\ \A i \in 1..n : b[i] = train[i]
  BY <1>1, <1>2
<1>4. SubSeq(train, 1, n + 1) = [i \in 1..(n + 1) |-> train[i]]
  BY <1>1
<1>5. r = [i \in 1..(n + 1) |-> IF i = n + 1 THEN e ELSE b[i]]
  <2> HIDE DEF b, e
  <2> QED BY <1>1, <1>3 DEF e
<1> HIDE DEF b, r
<1>6. \A i \in 1..(n + 1) : (IF i = n + 1 THEN e ELSE b[i]) = train[i]
  BY <1>3
<1>7. r = [i \in 1..(n + 1) |-> train[i]]
  BY <1>5, <1>6
<1> HIDE DEF e
<1>8. a \o Append(b, e) = Append(a \o b, e)
  BY <1>1, <1>3
<1>9. Given(a, train, n) = a \o b /\ Given(a, train, n + 1) = a \o Append(b, e)
  BY <1>4, <1>7 DEF Given, b, r
<1>q. QED
  BY <1>8, <1>9 DEF e

\* Before and after the train.
LEMMA GivenEnds ==
  ASSUME NEW Y, NEW a \in Seq(Y), NEW train \in Seq(Y)
  PROVE  /\ Given(a, train, 0) = a
         /\ Given(a, train, Len(train)) = a \o train
<1>1. SubSeq(train, 1, 0) = <<>>
  OBVIOUS
<1>2. SubSeq(train, 1, Len(train)) = train
  OBVIOUS
<1>3. a \o <<>> = a
  OBVIOUS
<1>q. QED
  BY <1>1, <1>2, <1>3 DEF Given

\* What JoinTrain recurses with.
JoinStep(f, s, acc, train, n) == IF n = 0 THEN acc ELSE JoinTuple(s, f[n - 1], train[n])

\* f holds what JoinTrain has after each of the first N rounds.
JoinRounds(f, s, acc, train, N) == f = [n \in 0..N |-> JoinStep(f, s, acc, train, n)]

\* There is such a function, for every length.
LEMMA JoinStepsExist ==
  ASSUME NEW s, NEW acc, NEW train, NEW N \in Nat
  PROVE  \E f : JoinRounds(f, s, acc, train, N)
<1> DEFINE T == {m \in Nat : \E f : JoinRounds(f, s, acc, train, m)}
<1>0. ASSUME NEW f, NEW h, NEW n \in Nat, n # 0 => f[n - 1] = h[n - 1]
      PROVE  JoinStep(f, s, acc, train, n) = JoinStep(h, s, acc, train, n)
  BY <1>0 DEF JoinStep
<1>1. 0 \in T
  <2> DEFINE f == [n \in 0..0 |-> acc]
  <2>1. \A n \in 0..0 : JoinStep(f, s, acc, train, n) = acc
    BY DEF JoinStep
  <2>2. JoinRounds(f, s, acc, train, 0)
    BY <2>1 DEF JoinRounds
  <2>q. QED
    BY <2>2
<1>2. ASSUME NEW m \in Nat, m \in T PROVE m + 1 \in T
  <2> PICK f : JoinRounds(f, s, acc, train, m)
    BY <1>2
  <2> DEFINE h == [n \in 0..(m + 1) |-> JoinStep(f, s, acc, train, n)]
  <2>1. \A n \in 0..m : h[n] = f[n]
    BY DEF JoinRounds
  <2> HIDE DEF h
  <2>2. ASSUME NEW n \in 0..(m + 1)
        PROVE  JoinStep(f, s, acc, train, n) = JoinStep(h, s, acc, train, n)
    <3>1. n # 0 => n - 1 \in 0..m
      OBVIOUS
    <3>2. n # 0 => f[n - 1] = h[n - 1]
      BY <3>1, <2>1
    <3>q. QED
      BY <3>2, <1>0
  <2>3. JoinRounds(h, s, acc, train, m + 1)
    <3>1. h = [n \in 0..(m + 1) |-> JoinStep(f, s, acc, train, n)]
      BY DEF h
    <3>q. QED
      BY <3>1, <2>2, Zenon DEF JoinRounds
  <2>q. QED
    BY <2>3
<1>3. \A m \in Nat : m \in T
  <2> HIDE DEF T
  <2> QED BY <1>1, <1>2, NatSetInduction
<1>q. QED
  BY <1>3

\* No two tuples of Y have the same place.
Identified(Y) == \A x, y \in Y : x.id = y.id => x = y

\* Both loops of doBox.
LEMMA TrainKeepsJoin ==
  ASSUME JoinWindow \in Nat, NEW s \in {1, 2}, JoinSlack[s] \in Nat,
         NEW Y, Comparable(Y), Identified(Y),
         NEW am \in Seq(Y), NEW train \in Seq(Y), Distinct(train),
         Entries(am) \cap Entries(train) = {},
         NEW ah, Comparable(Entries(ah)),
         NEW X, PairsOf(s, am \o train, ah) \subseteq X,
         NEW acc, NEW o \in Seq(X), acc.out \in Seq(X),
         JoinHolds(s, am, ah, acc.state[s], acc.state[Other(s)], o \o acc.out),
         NEW next, next = JoinTrain(s, acc, train)
  PROVE  /\ next.out \in Seq(X)
         /\ JoinHolds(s, am \o train, ah, next.state[s], next.state[Other(s)], o \o next.out)
<1> DEFINE k == Len(train)
           f == CHOOSE h : h = [n \in 0..k |-> JoinStep(h, s, acc, train, n)]
           c(m) == Given(am, train, m)
           Good(m) == /\ f[m].out \in Seq(X)
                      /\ JoinHolds(s, c(m), ah, f[m].state[s], f[m].state[Other(s)], o \o f[m].out)
           M == {m \in Nat : m <= k => Good(m)}
<1>0. k \in Nat /\ DOMAIN train = 1..k
  OBVIOUS
<1>1. f = [n \in 0..k |-> JoinStep(f, s, acc, train, n)]
  <2> HIDE DEF k
  <2>1. \E h : JoinRounds(h, s, acc, train, k)
    BY <1>0, JoinStepsExist
  <2>q. QED
    BY <2>1 DEF JoinRounds
<1>2. next = f[k]
  BY DEF JoinTrain, JoinStep
<1> HIDE DEF f, k
<1>3. f[0] = acc
  BY <1>0, <1>1 DEF JoinStep
<1>4. \A n \in 1..k : f[n] = JoinTuple(s, f[n - 1], train[n])
  <2> SUFFICES ASSUME NEW n \in 1..k PROVE f[n] = JoinTuple(s, f[n - 1], train[n])
    OBVIOUS
  <2>1. n \in 0..k /\ n # 0
    BY <1>0
  <2>2. f[n] = JoinStep(f, s, acc, train, n)
    BY <2>1, <1>1
  <2>q. QED
    BY <2>1, <2>2 DEF JoinStep
<1>5. 0 \in M
  <2>1. c(0) = am
    BY GivenEnds
  <2>2. Good(0)
    BY <1>3, <2>1
  <2> HIDE DEF Good
  <2>q. QED
    BY <2>2
<1>6. ASSUME NEW m \in Nat, m \in M PROVE m + 1 \in M
  <2>1. SUFFICES ASSUME m + 1 <= k PROVE Good(m + 1)
    <3> HIDE DEF Good
    <3> QED OBVIOUS
  <2>2. Good(m)
    <3> HIDE DEF Good
    <3>1. m <= k
      BY <1>0, <2>1
    <3> QED BY <1>6, <3>1
  <2> DEFINE t == train[m + 1]
             a == c(m)
             x == f[m]
             y == f[m + 1]
  <2>3. m \in 0..k /\ m < k /\ m + 1 \in 1..k /\ m + 1 \in 0..k /\ (m + 1) - 1 = m
    BY <1>0, <2>1
  <2>4. y = JoinTuple(s, x, t)
    BY <1>4, <2>3
  <2>5. /\ a \in Seq(Y) /\ Entries(a) = Entries(am) \cup Firsts(train, m)
        /\ c(m + 1) = Append(a, t) /\ c(m + 1) \in Seq(Y)
        /\ Entries(c(m + 1)) = Entries(am) \cup Firsts(train, m + 1)
    <3>1. m \in 0..Len(train) /\ m < Len(train)
      BY <2>3 DEF k
    <3>2. a \in Seq(Y) /\ Entries(a) = Entries(am) \cup Firsts(train, m)
      BY <3>1, GivenFacts
    <3>5. c(m + 1) = Append(a, t)
      BY <3>1, GivenNext
    <3> DEFINE n == m + 1
    <3>3. n \in 0..Len(train)
      BY <2>3 DEF k
    <3> HIDE DEF n
    <3>4. Given(am, train, n) \in Seq(Y)
          /\ Entries(Given(am, train, n)) = Entries(am) \cup Firsts(train, n)
      BY <3>3, GivenFacts
    <3>q. QED
      BY <3>2, <3>4, <3>5 DEF n
  <2>6. t \in Y /\ t \in Entries(train) /\ t \notin Entries(am)
    <3>1. t \in Entries(train)
      BY <1>0, <2>3 DEF Entries
    <3>q. QED
      BY <3>1, OwnSeq
  <2>7. t \notin Firsts(train, m)
    <3> SUFFICES ASSUME NEW i \in 1..m, train[i] = t PROVE FALSE
      BY DEF Firsts
    <3>1. i \in 1..k /\ i # m + 1
      BY <2>3, <1>0
    <3>q. QED
      BY <3>1, <2>3, <1>0 DEF Distinct
  <2>8. Coming(a, t)
    <3>1. a \in Seq(Entries(a)) /\ Entries(a) \subseteq Y
      BY <2>5, OwnSeq
    <3>2. t \notin Entries(a)
      BY <2>5, <2>6, <2>7
    <3> HIDE DEF a, t
    <3>q. QED
      BY <3>1, <3>2, <2>6 DEF Coming, Comparable, Identified
  <2>9. PairsOf(s, Append(a, t), ah) \subseteq X
    <3>1. Entries(am \o train) = Entries(am) \cup Entries(train)
      BY ConcatEntries
    <3>2. Firsts(train, m + 1) \subseteq Entries(train)
      BY <1>0, <2>3 DEF Entries, Firsts
    <3>3. Entries(c(m + 1)) \subseteq Entries(am \o train)
      BY <3>1, <3>2, <2>5
    <3> DEFINE d == c(m + 1)
               e == am \o train
    <3>4. Entries(d) \subseteq Entries(e) /\ Append(a, t) = d /\ PairsOf(s, e, ah) \subseteq X
      BY <3>3, <2>5
    <3> HIDE DEF d, e
    <3>5. PairsOf(s, d, ah) \subseteq X
      BY <3>4 DEF PairsOf
    <3>q. QED
      BY <3>4, <3>5
  <2>10. /\ x.out \in Seq(X)
         /\ JoinHolds(s, a, ah, x.state[s], x.state[Other(s)], o \o x.out)
    BY <2>2
  <2> HIDE DEF a, x, y, t
  <2>11. /\ y.out \in Seq(X)
         /\ JoinHolds(s, Append(a, t), ah, y.state[s], y.state[Other(s)], o \o y.out)
    BY <2>4, <2>8, <2>9, <2>10, TupleKeepsJoin
  <2>q. QED
    BY <2>5, <2>11 DEF y
<1>7. \A m \in Nat : m \in M
  <2> HIDE DEF M
  <2> QED BY <1>5, <1>6, NatSetInduction
<1>8. Good(k)
  <2> HIDE DEF Good
  <2> QED BY <1>0, <1>7
<1>9. c(k) = am \o train
  BY GivenEnds DEF k
<1>q. QED
  BY <1>2, <1>8, <1>9

-----------------------------------------------------------------------------
\* A join seen from its other side.
LEMMA JoinSwaps ==
  ASSUME NEW s \in {1, 2}, NEW a, NEW b, Comparable(Entries(a)), Comparable(Entries(b)),
         NEW ba, NEW bb, NEW o, JoinHolds(s, a, b, ba, bb, o)
  PROVE  JoinHolds(Other(s), b, a, bb, ba, o)
<1> DEFINE z == Other(s)
<1>1. \A x, y : Pair(z, y, x) = Pair(s, x, y)
  BY DEF Pair, Left, Other
<1>2. PairsOf(z, b, a) = PairsOf(s, a, b)
  <2>1. ASSUME NEW x \in Entries(a), NEW y \in Entries(b)
        PROVE  Pair(s, x, y) \in PairsOf(z, b, a)
    BY <1>1 DEF PairsOf
  <2>2. ASSUME NEW x \in Entries(a), NEW y \in Entries(b)
        PROVE  Pair(z, y, x) \in PairsOf(s, a, b)
    BY <1>1 DEF PairsOf
  <2>q. QED
    BY <2>1, <2>2 DEF PairsOf
<1>3. ASSUME NEW x \in Entries(a), NEW y \in Entries(b)
      PROVE  Distance(y.v, x.v) = Distance(x.v, y.v)
  BY DEF Comparable, Distance
<1> HIDE DEF z
<1>4. o \in Seq(PairsOf(z, b, a)) /\ Distinct(o) /\ Buffered(bb, b) /\ Buffered(ba, a)
  BY <1>2 DEF JoinHolds
<1>5. ASSUME NEW x \in Entries(b), NEW y \in Entries(a), Pair(z, x, y) \in Entries(o)
      PROVE  /\ Joins(Pair(z, x, y))
             /\ Distance(x.v, y.v) <= JoinWindow \/ bb.att[x.id] # x.v \/ ba.att[y.id] # y.v
  BY <1>1, <1>3, <1>5 DEF JoinHolds
<1>6. ASSUME Rising(a), Rising(b)
      PROVE  /\ \A x \in Entries(b) : Awaits(x, bb, a)
             /\ \A y \in Entries(a) : Awaits(y, ba, b)
             /\ \A x \in Entries(b), y \in Entries(a) :
                  /\ Distance(x.v, y.v) <= JoinWindow /\ Joins(Pair(z, x, y))
                  /\ bb.att[x.id] = x.v /\ ba.att[y.id] = y.v
                  => Pair(z, x, y) \in Entries(o)
  BY <1>1, <1>3, <1>6 DEF JoinHolds
<1>7. JoinHolds(z, b, a, bb, ba, o)
  BY <1>4, <1>5, <1>6 DEF JoinHolds
<1>q. QED
  BY <1>7 DEF z

\* A run of the box on the trains u and w, after a and b.
LEMMA RunKeepsJoin ==
  ASSUME JoinWindow \in Nat, JoinSlack \in Nat \X Nat,
         NEW Y, Comparable(Y), Identified(Y), NEW Z, Comparable(Z), Identified(Z),
         NEW a \in Seq(Y), NEW u \in Seq(Y), Distinct(u), Entries(a) \cap Entries(u) = {},
         NEW b \in Seq(Z), NEW w \in Seq(Z), Distinct(w), Entries(b) \cap Entries(w) = {},
         NEW st, NEW o, JoinHolds(1, a, b, st[1], st[2], o),
         NEW ret, ret = DoJoin(st, u, w)
  PROVE  /\ ret.out[1] \in Seq(PairsOf(1, a \o u, b \o w))
         /\ o \in Seq(PairsOf(1, a \o u, b \o w))
         /\ ret.output_tuples_array[1] = Len(ret.out[1])
         /\ JoinHolds(1, a \o u, b \o w, ret.state[1], ret.state[2], o \o ret.out[1])
<1> DEFINE c == a \o u
           d == b \o w
           X == PairsOf(1, c, d)
           acc == [state |-> st, out |-> <<>>]
           l == JoinTrain(Left, acc, u)
           r == JoinTrain(Right, l, w)
<1>1. /\ c \in Seq(Y) /\ Entries(c) = Entries(a) \cup Entries(u)
      /\ d \in Seq(Z) /\ Entries(d) = Entries(b) \cup Entries(w)
  BY ConcatEntries
<1>2. /\ Entries(c) \subseteq Y /\ Entries(d) \subseteq Z /\ Entries(b) \subseteq Z
      /\ Comparable(Entries(c)) /\ Comparable(Entries(d)) /\ Comparable(Entries(b))
  <2> HIDE DEF c, d
  <2>1. Entries(c) \subseteq Y /\ Entries(d) \subseteq Z /\ Entries(b) \subseteq Z
    BY <1>1, OwnSeq
  <2>q. QED
    BY <2>1 DEF Comparable
<1>3. ret.out[1] = r.out /\ ret.output_tuples_array[1] = Len(r.out) /\ ret.state = r.state
  BY DEF DoJoin, BoxOut
<1>4. JoinSlack[1] \in Nat /\ JoinSlack[2] \in Nat
  OBVIOUS
<1>5. PairsOf(2, d, c) = X
  <2> HIDE DEF c, d
  <2>1. \A x, y : Pair(2, y, x) = Pair(1, x, y)
    BY DEF Pair, Left
  <2>2. ASSUME NEW x \in Entries(c), NEW y \in Entries(d)
        PROVE  Pair(1, x, y) \in PairsOf(2, d, c) /\ Pair(2, y, x) \in PairsOf(1, c, d)
    BY <2>1 DEF PairsOf
  <2>q. QED
    BY <2>2 DEF PairsOf
<1>6. PairsOf(1, c, b) \subseteq X /\ PairsOf(1, a, b) \subseteq X
  <2> HIDE DEF c, d
  <2> QED BY <1>1 DEF PairsOf
<1>7. o \in Seq(X)
  <2> DEFINE W == PairsOf(1, a, b)
  <2>1. o \in Seq(W)
    BY DEF JoinHolds
  <2> HIDE DEF W, X
  <2>2. W \subseteq X
    BY <1>6 DEF W
  <2>q. QED
    BY <2>1, <2>2, WiderSeq
<1>8. Other(1) = 2 /\ Other(2) = 1 /\ Left = 1 /\ Right = 2
  BY DEF Other, Left, Right
<1> HIDE DEF X
<1>9. /\ acc.out \in Seq(X)
      /\ JoinHolds(1, a, b, acc.state[1], acc.state[Other(1)], o \o acc.out)
  <2>1. o \o <<>> = o /\ <<>> \in Seq(X)
    BY <1>7
  <2>q. QED
    BY <2>1, <1>8
<1> HIDE DEF acc, l, c, d
<1>10. l = JoinTrain(1, acc, u)
  BY <1>8 DEF l
<1>11. /\ l.out \in Seq(X)
       /\ JoinHolds(1, c, b, l.state[1], l.state[Other(1)], o \o l.out)
  BY <1>2, <1>4, <1>6, <1>7, <1>9, <1>10, TrainKeepsJoin DEF c
<1>12. JoinHolds(2, b, c, l.state[2], l.state[Other(2)], o \o l.out)
  <2>1. JoinHolds(Other(1), b, c, l.state[Other(1)], l.state[1], o \o l.out)
    BY <1>2, <1>11, JoinSwaps
  <2>q. QED
    BY <2>1, <1>8
<1> HIDE DEF r
<1>13. r = JoinTrain(2, l, w)
  BY <1>8 DEF r
<1>14. /\ r.out \in Seq(X)
       /\ JoinHolds(2, d, c, r.state[2], r.state[Other(2)], o \o r.out)
  <2> DEFINE q == l.out
             left == l.state[Other(2)]
             right == l.state[2]
  <2>1. /\ PairsOf(2, b \o w, c) \subseteq X /\ q \in Seq(X) /\ o \in Seq(X)
        /\ JoinSlack[2] \in Nat /\ 2 \in {1, 2} /\ Comparable(Entries(c))
        /\ JoinHolds(2, b, c, right, left, o \o q)
    BY <1>2, <1>4, <1>5, <1>7, <1>11, <1>12 DEF d
  <2>q. QED
    BY <2>1, <1>13, TrainKeepsJoin, ZenonT(60) DEF d
<1>15. JoinHolds(1, c, d, r.state[1], r.state[2], o \o r.out)
  <2>1. JoinHolds(Other(2), c, d, r.state[Other(2)], r.state[2], o \o r.out)
    BY <1>2, <1>14, JoinSwaps
  <2>q. QED
    BY <2>1, <1>8
<1>q. QED
  BY <1>3, <1>7, <1>14, <1>15 DEF X, c, d

-----------------------------------------------------------------------------
(* The box.                                                                *)

\* The tuples of a stream are comparable, and no two have the same place.
LEMMA NumberedEntries ==
  ASSUME NEW s, Numbered(s)
  PROVE  Comparable(Entries(s)) /\ Identified(Entries(s)) /\ Distinct(s)
<1>1. DOMAIN s = 1..Len(s) /\ Len(s) \in Nat /\ \A i \in DOMAIN s : s[i].id \in Int /\ s[i].v \in Int
  BY DEF Numbered
<1>2. Comparable(Entries(s))
  BY <1>1 DEF Comparable, Entries
<1>3. ASSUME NEW i \in DOMAIN s, NEW j \in DOMAIN s, s[i].id = s[j].id PROVE i = j
  <2>1. ~(i < j) /\ ~(j < i)
    BY <1>1, <1>3 DEF Numbered
  <2>q. QED
    BY <1>1, <2>1
<1>4. Distinct(s)
  BY <1>3 DEF Distinct
<1>5. Identified(Entries(s))
  BY <1>3 DEF Identified, Entries
<1>q. QED
  BY <1>2, <1>4, <1>5

\* The tuples that load shedding spares are some of the train, each once.
LEMMA UnshedPart ==
  ASSUME NEW X, NEW t \in Seq(X), Distinct(t), NEW flags
  PROVE  /\ Unshed(t, flags) \in Seq(X) /\ Distinct(Unshed(t, flags))
         /\ Entries(Unshed(t, flags)) \subseteq Entries(t)
<1> DEFINE D == {j \in DOMAIN t : flags[j]}
<1>1. Unshed(t, flags) = Sift(t, D)
  BY DEF Unshed
<1> HIDE DEF D
<1>2. /\ Sift(t, D) \in Seq(X) /\ Distinct(Sift(t, D))
      /\ Entries(Sift(t, D)) = {t[i] : i \in DOMAIN t \cap D}
  BY SiftEntries
<1>q. QED
  BY <1>1, <1>2 DEF Entries

\* The spared tuples of a train are tuples of it, in no other train.
LEMMA UnshedEntries ==
  ASSUME NEW s, Numbered(s), NEW c \in Nat, NEW k \in Nat, c + k <= Len(s),
         NEW train, train = SubSeq(s, c + 1, c + k), NEW flags
  PROVE  /\ Unshed(train, flags) \in Seq(Entries(s))
         /\ Distinct(Unshed(train, flags))
         /\ Entries(Unshed(train, flags)) \subseteq Firsts(s, c + k)
         /\ Entries(Unshed(train, flags)) \cap Firsts(s, c) = {}
<1> DEFINE E == Entries(s)
           u == Unshed(train, flags)
<1>1. s \in Seq(E) /\ Len(s) \in Nat /\ DOMAIN s = 1..Len(s) /\ Distinct(s)
  BY NumberedEntries DEF Numbered
<1> HIDE DEF E
<1>2. train = [i \in 1..k |-> s[i + (c + 1) - 1]]
  <2>1. (c + k) - (c + 1) + 1 = k
    OBVIOUS
  <2>q. QED
    BY <1>1, <2>1
<1>3. /\ Len(train) = k /\ DOMAIN train = 1..k /\ train \in Seq(E)
      /\ \A i \in 1..k : train[i] = s[c + i] /\ c + i \in 1..Len(s)
  <2>1. \A i \in 1..k : i + (c + 1) - 1 = c + i /\ c + i \in 1..Len(s)
    BY <1>1
  <2>q. QED
    BY <1>1, <1>2, <2>1
<1>4. Distinct(train)
  <2> SUFFICES ASSUME NEW i \in 1..k, NEW j \in 1..k, train[i] = train[j] PROVE i = j
    BY <1>3 DEF Distinct
  <2>1. c + i = c + j
    <3>1. s[c + i] = s[c + j] /\ c + i \in DOMAIN s /\ c + j \in DOMAIN s
      BY <1>1, <1>3
    <3>q. QED
      BY <3>1, <1>1 DEF Distinct
  <2>q. QED
    BY <2>1
<1>5. /\ u \in Seq(E) /\ Distinct(u)
      /\ Entries(u) \subseteq {train[i] : i \in 1..k}
  <2>1. u \in Seq(E) /\ Distinct(u) /\ Entries(u) \subseteq Entries(train)
    BY <1>3, <1>4, UnshedPart
  <2>q. QED
    BY <1>3, <2>1 DEF Entries
<1> HIDE DEF u
<1>6. \A i \in 1..k : train[i] \in Firsts(s, c + k)
  <2> SUFFICES ASSUME NEW i \in 1..k PROVE s[c + i] \in Firsts(s, c + k)
    BY <1>3
  <2>1. c + i \in 1..(c + k)
    OBVIOUS
  <2>q. QED
    BY <2>1 DEF Firsts
<1>7. \A i \in 1..k : train[i] \notin Firsts(s, c)
  <2> SUFFICES ASSUME NEW i \in 1..k, NEW j \in 1..c, s[c + i] = s[j] PROVE FALSE
    BY <1>3 DEF Firsts
  <2>1. j \in 1..Len(s) /\ c + i # j
    BY <1>1
  <2>q. QED
    BY <2>1, <1>1, <1>3 DEF Distinct
<1>q. QED
  BY <1>5, <1>6, <1>7 DEF E, u

\* What the box kept of an input: some of what it dequeued.
KeptOf(p) ==
  /\ taken[p] \in Nat /\ taken[p] <= Len(Stream(p))
  /\ kept[p] \in Seq(Entries(Stream(p)))
  /\ Entries(kept[p]) \subseteq Firsts(Stream(p), taken[p])

\* The inductive invariant: the join is right on what it has been given so far.
JoinInv ==
  /\ box \in Cases
  /\ Op = "join" =>
       /\ KeptOf(1) /\ KeptOf(2)
       /\ JoinHolds(1, kept[1], kept[2], state[1], state[2], out[1])

\* A join that nothing came to.
LEMMA EmptyJoin == JoinHolds(1, <<>>, <<>>, EmptyBufferList, EmptyBufferList, <<>>)
<1> DEFINE e == EmptyBufferList
           n == <<>>
<1>1. Entries(n) = {} /\ n \in Seq({}) /\ DOMAIN n = {}
  BY DEF Entries
<1>2. Buffered(e, n)
  <2>1. e.vec = {} /\ IsFiniteSet(e.vec)
    BY FS_EmptySet DEF EmptyBufferList
  <2>2. {t.id : t \in Entries(n)} = {}
    BY <1>1
  <2>3. e.buffer = n /\ e.att \in [{} -> Int] /\ IsBufferList(e)
    BY DEF EmptyBufferList, IsBufferList
  <2> HIDE DEF e, n
  <2>4. Distinct(n)
    BY <1>1 DEF Distinct
  <2>q. QED
    BY <1>1, <2>1, <2>2, <2>3, <2>4 DEF Buffered, n
<1>3. n \in Seq(PairsOf(1, n, n)) /\ Distinct(n)
  BY <1>1 DEF Distinct
<1> HIDE DEF e, n
<1>4. JoinHolds(1, n, n, e, e, n)
  BY <1>1, <1>2, <1>3 DEF JoinHolds
<1>q. QED
  BY <1>4 DEF e, n

\* At first nothing came on either side.
LEMMA JoinInitInv == OpInit => JoinInv
<1> SUFFICES ASSUME OpInit, Op = "join"
             PROVE  KeptOf(1) /\ KeptOf(2) /\ JoinHolds(1, kept[1], kept[2], state[1], state[2], out[1])
  BY DEF OpInit, JoinInv
<1>1. box \in Cases /\ 1 \in Ports /\ 2 \in Ports
  BY CasesAssumption DEF OpInit, Ports, Op
<1>2. /\ taken = [p \in Ports |-> 0] /\ kept = [p \in Ports |-> <<>>]
      /\ state = <<EmptyBufferList, EmptyBufferList>> /\ out = [p \in {1} |-> <<>>]
  BY DEF OpInit, InitState, InitJoin, OutPorts
<1>3. ASSUME NEW p \in Ports PROVE KeptOf(p)
  <2>1. Len(Stream(p)) \in Nat
    BY <1>1, <1>3, PortNumbered DEF Numbered
  <2>2. taken[p] = 0 /\ kept[p] = <<>>
    BY <1>2, <1>3
  <2>3. Entries(<<>>) = {}
    BY DEF Entries
  <2>q. QED
    BY <2>1, <2>2, <2>3 DEF KeptOf
<1>4. kept[1] = <<>> /\ kept[2] = <<>> /\ out[1] = <<>>
  BY <1>1, <1>2
<1>5. state[1] = EmptyBufferList /\ state[2] = EmptyBufferList
  BY <1>2
<1>q. QED
  BY <1>1, <1>3, <1>4, <1>5, EmptyJoin

\* The kept tuples after a run, and those of the run.
LEMMA KeptMore ==
  ASSUME box \in Cases, NEW p \in Ports, KeptOf(p), NEW n \in Trains, NEW flags
  PROVE  LET u == Unshed(Train(p, n), flags)
             s == Stream(p) IN
         /\ u \in Seq(Entries(s)) /\ Distinct(u) /\ Entries(kept[p]) \cap Entries(u) = {}
         /\ taken[p] + n[p] \in Nat /\ taken[p] + n[p] <= Len(s)
         /\ kept[p] \o u \in Seq(Entries(s))
         /\ Entries(kept[p] \o u) \subseteq Firsts(s, taken[p] + n[p])
<1> DEFINE s == Stream(p)
           c == taken[p]
           k == n[p]
           a == kept[p]
           train == Train(p, n)
           u == Unshed(train, flags)
<1>1. Numbered(s) /\ c \in Nat /\ c <= Len(s) /\ a \in Seq(Entries(s)) /\ Entries(a) \subseteq Firsts(s, c)
  BY PortNumbered DEF KeptOf
<1>2. k \in Nat /\ c + k <= Len(s)
  <2>1. TrainMax \in Nat
    BY OperatorAssumption
  <2>q. QED
    BY <2>1 DEF Trains
<1>3. train = SubSeq(s, c + 1, c + k)
  BY DEF Train
<1> HIDE DEF s, c, k, a, train
<1>4. /\ u \in Seq(Entries(s)) /\ Distinct(u) /\ Entries(u) \subseteq Firsts(s, c + k)
      /\ Entries(u) \cap Firsts(s, c) = {}
  BY <1>1, <1>2, <1>3, UnshedEntries
<1> HIDE DEF u
<1>5. a \o u \in Seq(Entries(s)) /\ Entries(a \o u) = Entries(a) \cup Entries(u)
  BY <1>1, <1>4, ConcatEntries
<1>6. Firsts(s, c) \subseteq Firsts(s, c + k)
  BY <1>1, <1>2 DEF Firsts
<1>7. c + k \in Nat
  BY <1>1, <1>2
<1>q. QED
  BY <1>1, <1>2, <1>4, <1>5, <1>6, <1>7 DEF s, c, k, a, u, train

\* A run of a join on the next trains of its streams.
LEMMA JoinRuns ==
  ASSUME JoinInv, Join
  PROVE  JoinInv'
<1>1. PICK n \in Trains : \E ls \in Shedding(n) :
        HasRun(n, ls, DoJoin(state, Unshed(Train(1, n), ls[1]), Unshed(Train(2, n), ls[2])))
  BY DEF Join
<1>2. PICK ls : HasRun(n, ls, DoJoin(state, Unshed(Train(1, n), ls[1]), Unshed(Train(2, n), ls[2])))
  BY <1>1
<1> DEFINE u == Unshed(Train(1, n), ls[1])
           w == Unshed(Train(2, n), ls[2])
           ret == DoJoin(state, u, w)
           a == kept[1]
           b == kept[2]
           o == out[1]
           Y == Entries(Stream(1))
           Z == Entries(Stream(2))
<1>3. Op = "join" /\ box \in Cases /\ 1 \in Ports /\ 2 \in Ports
  BY CasesAssumption DEF JoinInv, Join, Ports, Op
<1>4. KeptOf(1) /\ KeptOf(2) /\ JoinHolds(1, a, b, state[1], state[2], o)
  BY <1>3 DEF JoinInv
<1>5. /\ u \in Seq(Y) /\ Distinct(u) /\ Entries(a) \cap Entries(u) = {}
      /\ taken[1] + n[1] \in Nat /\ taken[1] + n[1] <= Len(Stream(1))
      /\ a \o u \in Seq(Y) /\ Entries(a \o u) \subseteq Firsts(Stream(1), taken[1] + n[1])
  BY <1>3, <1>4, KeptMore
<1>6. /\ w \in Seq(Z) /\ Distinct(w) /\ Entries(b) \cap Entries(w) = {}
      /\ taken[2] + n[2] \in Nat /\ taken[2] + n[2] <= Len(Stream(2))
      /\ b \o w \in Seq(Z) /\ Entries(b \o w) \subseteq Firsts(Stream(2), taken[2] + n[2])
  BY <1>3, <1>4, KeptMore
<1>7. /\ JoinWindow \in Nat /\ JoinSlack \in Nat \X Nat
      /\ Comparable(Y) /\ Identified(Y) /\ Comparable(Z) /\ Identified(Z)
      /\ a \in Seq(Y) /\ b \in Seq(Z)
  BY <1>3, <1>4, OperatorAssumption, PortNumbered, NumberedEntries DEF KeptOf
<1>8. /\ taken' = [p \in Ports |-> taken[p] + n[p]]
      /\ kept' = [p \in Ports |-> kept[p] \o Unshed(Train(p, n), ls[p])]
      /\ state' = ret.state
      /\ out' = [p \in {1} |-> out[p] \o SubSeq(ret.out[p], 1, ret.output_tuples_array[p])]
      /\ box' = box
  BY <1>2, <1>3 DEF HasRun, OutPorts
<1>9. /\ taken'[1] = taken[1] + n[1] /\ taken'[2] = taken[2] + n[2]
      /\ kept'[1] = a \o u /\ kept'[2] = b \o w
  BY <1>3, <1>8
<1>10. out'[1] = o \o SubSeq(ret.out[1], 1, ret.output_tuples_array[1])
  BY <1>8
<1> DEFINE r == ret.out[1]
           X == PairsOf(1, a \o u, b \o w)
<1>11. /\ r \in Seq(X) /\ ret.output_tuples_array[1] = Len(r)
       /\ JoinHolds(1, a \o u, b \o w, ret.state[1], ret.state[2], o \o r)
  <2> HIDE DEF a, b, u, w, o, Y, Z, ret
  <2>0. ret = DoJoin(state, u, w)
    BY DEF ret
  <2>1. /\ JoinWindow \in Nat /\ JoinSlack \in Nat \X Nat
        /\ Comparable(Y) /\ Identified(Y) /\ Comparable(Z) /\ Identified(Z)
        /\ a \in Seq(Y) /\ u \in Seq(Y) /\ Distinct(u) /\ Entries(a) \cap Entries(u) = {}
        /\ b \in Seq(Z) /\ w \in Seq(Z) /\ Distinct(w) /\ Entries(b) \cap Entries(w) = {}
        /\ JoinHolds(1, a, b, state[1], state[2], o)
    BY <1>4, <1>5, <1>6, <1>7
  <2>2. ret.out[1] \in Seq(PairsOf(1, a \o u, b \o w))
    BY <2>0, <2>1, RunKeepsJoin, ZenonT(60)
  <2>4. ret.output_tuples_array[1] = Len(ret.out[1])
    BY <2>0 DEF DoJoin, BoxOut
  <2>3. JoinHolds(1, a \o u, b \o w, ret.state[1], ret.state[2], o \o r)
    BY <2>0, <2>1, RunKeepsJoin, ZenonT(60)
  <2>q. QED
    BY <2>2, <2>3, <2>4
<1> HIDE DEF a, b, u, w, o, Y, Z, r, X, ret
<1>12. SubSeq(r, 1, Len(r)) = r
  BY <1>11
<1>13. JoinHolds(1, kept'[1], kept'[2], state'[1], state'[2], out'[1])
  BY <1>8, <1>9, <1>10, <1>11, <1>12 DEF r
<1>14. Stream(1)' = Stream(1) /\ Stream(2)' = Stream(2) /\ Op' = Op
  BY <1>8 DEF Stream, Op
<1>15. KeptOf(1)' /\ KeptOf(2)'
  BY <1>5, <1>6, <1>9, <1>14 DEF KeptOf, Y, Z
<1>q. QED
  BY <1>3, <1>8, <1>13, <1>15 DEF JoinInv

\* Another box is not a join, and stays what it is.
LEMMA OthersThanJoin ==
  ASSUME JoinInv, OpNext, ~Join
  PROVE  JoinInv'
<1>1. box' = box
  BY DEF OpNext, Filter, Union, Map, HelloWorld, Experiment, Drop, Restream, BSort, Resample,
         Aggregate, Tick, HasRun, Crashes
<1>2. Op # "join"
  BY DEF OpNext, Filter, Union, Map, HelloWorld, Experiment, Drop, Restream, BSort, Resample,
         Aggregate, Tick
<1>q. QED
  BY <1>1, <1>2 DEF JoinInv, Op

\* An element is once in a sequence that repeats nothing.
LEMMA OnceAmongDistinct ==
  ASSUME NEW s, Distinct(s), NEW x \in Entries(s)
  PROVE  Times(x, s) = 1
<1>1. PICK k \in DOMAIN s : x = s[k]
  BY DEF Entries
<1>2. {i \in DOMAIN s : s[i] = x} = {k}
  BY <1>1 DEF Distinct
<1>3. Cardinality({k}) = 1
  BY FS_Singleton
<1>q. QED
  BY <1>2, <1>3 DEF Times

\* A stream in order without slack has rising values.
LEMMA InOrderRises ==
  ASSUME NEW a, a \in Seq(Entries(a)), Comparable(Entries(a)), InOrder(a, 0)
  PROVE  Rising(a)
<1>1. DOMAIN a = 1..Len(a) /\ Len(a) \in Nat
  OBVIOUS
<1>2. \A i \in DOMAIN a : a[i].v \in Int
  BY DEF Comparable, Entries
<1>3. SUFFICES ASSUME NEW i \in DOMAIN a, NEW j \in DOMAIN a, i < j, ~(a[i].v <= a[j].v)
               PROVE  FALSE
  BY DEF Rising
<1> DEFINE S == {k \in 1..(j - 1) : a[k].v > a[j].v}
<1>4. i \in S
  BY <1>1, <1>2, <1>3
<1>5. IsFiniteSet(S)
  <2>1. IsFiniteSet(1..(j - 1))
    BY <1>1, FS_Interval
  <2>q. QED
    BY <2>1, FS_Subset
<1>6. Cardinality(S) <= 0
  BY DEF InOrder
<1> HIDE DEF S
<1>7. Cardinality(S) \in Nat /\ (Cardinality(S) = 0 <=> S = {})
  BY <1>5, FS_CardinalityType, FS_EmptySet
<1>q. QED
  BY <1>4, <1>6, <1>7

\* What the invariant says of the output is JoinExact.
LEMMA InvJoins == JoinInv => JoinExact
<1> SUFFICES ASSUME JoinInv, Op = "join"
             PROVE  JoinExact
  BY DEF JoinExact
<1> DEFINE a == kept[1]
           b == kept[2]
           ba == state[1]
           bb == state[2]
           o == out[1]
<1>1. box \in Cases /\ 1 \in Ports /\ 2 \in Ports
  BY CasesAssumption DEF JoinInv, Ports, Op
<1>2. KeptOf(1) /\ KeptOf(2) /\ JoinHolds(1, a, b, ba, bb, o)
  BY DEF JoinInv
<1>3. /\ a \in Seq(Entries(a)) /\ b \in Seq(Entries(b))
      /\ Comparable(Entries(a)) /\ Comparable(Entries(b))
  <2>1. /\ Comparable(Entries(Stream(1))) /\ Comparable(Entries(Stream(2)))
        /\ a \in Seq(Entries(Stream(1))) /\ b \in Seq(Entries(Stream(2)))
    BY <1>1, <1>2, PortNumbered, NumberedEntries DEF KeptOf
  <2> HIDE DEF a, b
  <2>2. /\ a \in Seq(Entries(a)) /\ b \in Seq(Entries(b))
        /\ Entries(a) \subseteq Entries(Stream(1)) /\ Entries(b) \subseteq Entries(Stream(2))
    BY <2>1, OwnSeq
  <2>q. QED
    BY <2>1, <2>2 DEF Comparable
<1>4. \A x, y : CellsHold(<<x, y>>) <=> ~Moved(ba, x) /\ ~Moved(bb, y)
  BY DEF CellsHold, Left, Right
<1>5. \A x, y : InWindow(<<x, y>>) <=> Distance(x.v, y.v) <= JoinWindow /\ Joins(<<x, y>>)
  BY DEF InWindow
<1>6. \A x, y : Pair(1, x, y) = <<x, y>>
  BY DEF Pair, Left
<1> HIDE DEF a, b, ba, bb, o
<1>7. /\ \A x \in Entries(a) : Moved(ba, x) <=> ba.att[x.id] # x.v
      /\ \A y \in Entries(b) : Moved(bb, y) <=> bb.att[y.id] # y.v
  <2>1. /\ ba.att \in [{t.id : t \in Entries(a)} -> Int]
        /\ bb.att \in [{t.id : t \in Entries(b)} -> Int]
    BY <1>2 DEF JoinHolds, Buffered
  <2>q. QED
    BY <2>1 DEF Moved
<1>8. Distinct(o) /\ Entries(o) \subseteq PairsOf(1, a, b)
  <2> DEFINE X == PairsOf(1, a, b)
  <2>1. o \in Seq(X) /\ Distinct(o)
    BY <1>2 DEF JoinHolds
  <2> HIDE DEF X
  <2>2. Entries(o) \subseteq X
    BY <2>1, OwnSeq
  <2>q. QED
    BY <2>1, <2>2 DEF X
<1>9. ASSUME NEW i \in DOMAIN o
      PROVE  Times(o[i], o) = 1 /\ Joins(o[i]) /\ (InWindow(o[i]) \/ ~CellsHold(o[i]))
  <2>1. o[i] \in Entries(o)
    BY DEF Entries
  <2>2. Times(o[i], o) = 1
    BY <2>1, <1>8, OnceAmongDistinct
  <2>3. PICK x \in Entries(a), y \in Entries(b) : o[i] = Pair(1, x, y)
    BY <2>1, <1>8 DEF PairsOf
  <2>4. /\ Joins(o[i])
        /\ Distance(x.v, y.v) <= JoinWindow \/ ba.att[x.id] # x.v \/ bb.att[y.id] # y.v
    BY <2>1, <2>3, <1>2 DEF JoinHolds
  <2>5. o[i] = <<x, y>>
    BY <2>3, <1>6
  <2>q. QED
    BY <2>2, <2>4, <2>5, <1>4, <1>5, <1>7
<1>10. ASSUME InOrder(a, 0), InOrder(b, 0), NEW i \in DOMAIN a, NEW j \in DOMAIN b,
              InWindow(<<a[i], b[j]>>), CellsHold(<<a[i], b[j]>>)
       PROVE  Times(<<a[i], b[j]>>, o) = 1
  <2>1. Rising(a) /\ Rising(b)
    BY <1>3, <1>10, InOrderRises
  <2> DEFINE x == a[i]
             y == b[j]
  <2>2. x \in Entries(a) /\ y \in Entries(b)
    BY DEF Entries
  <2>3. InWindow(<<x, y>>) /\ CellsHold(<<x, y>>)
    BY <1>10
  <2> HIDE DEF x, y
  <2>4. /\ Distance(x.v, y.v) <= JoinWindow /\ Joins(Pair(1, x, y))
        /\ ba.att[x.id] = x.v /\ bb.att[y.id] = y.v
    BY <2>2, <2>3, <1>4, <1>5, <1>6, <1>7
  <2>5. Pair(1, x, y) \in Entries(o)
    BY <2>1, <2>2, <2>4, <1>2 DEF JoinHolds
  <2>6. Times(<<x, y>>, o) = 1
    BY <2>5, <1>6, <1>8, OnceAmongDistinct
  <2>q. QED
    BY <2>6 DEF x, y
<1>q. QED
  BY <1>9, <1>10 DEF JoinExact, a, b, o

(***************************************************************************)
(* A join emits no pair twice, none against its predicate, and one outside *)
(* the window only when a cell moved; on streams in order it emits every   *)
(* pair in the window whose cells did not move: for every two streams, all *)
(* the trains they are cut into and all that load shedding leaves of them, *)
(* every window, both slacks, every predicate.                             *)
(***************************************************************************)
THEOREM JoinsExactly == OpSpec => []JoinExact
<1>1. OpInit => JoinInv
  BY JoinInitInv
<1>2. JoinInv /\ [OpNext]_opVars => JoinInv'
  <2> SUFFICES ASSUME JoinInv, [OpNext]_opVars PROVE JoinInv'
    OBVIOUS
  <2>1. CASE Join
    BY <2>1, JoinRuns
  <2>2. CASE OpNext /\ ~Join
    BY <2>2, OthersThanJoin
  <2>3. CASE UNCHANGED opVars
    BY <2>3 DEF opVars, JoinInv, KeptOf, Op, Stream
  <2>q. QED
    BY <2>1, <2>2, <2>3
<1>3. JoinInv => JoinExact
  BY InvJoins
<1>q. QED
  BY <1>1, <1>2, <1>3, PTL DEF OpSpec
=============================================================================
