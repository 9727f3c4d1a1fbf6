----------------------------- MODULE SumTheorems -----------------------------
(***************************************************************************)
(* Sums over finite sets, for the proofs of the properties that count over *)
(* several files, arcs or threads.  SumFunction of the community modules   *)
(* is a fold, that is a recursive function, which the provers see as a     *)
(* CHOOSE: that such a function exists is proved first, by induction on    *)
(* the size of the set, and then every fact on sums by induction again.    *)
(*                                                                         *)
(* Induction is stated on a set, never on an operator: to show P of every  *)
(* number, show that {n \in Nat : P(n)} has 0 and each successor.          *)
(***************************************************************************)
EXTENDS Integers, Functions, FiniteSets, FiniteSetTheorems, WellFoundedInduction, TLAPS

\* A set of numbers that is not empty has a least one.
LEMMA NatLeast ==
  ASSUME NEW T, T \subseteq Nat, T # {}
  PROVE  \E n \in T : \A m \in T : n <= m
<1>1. IsWellFoundedOn(OpToRel(<, Nat), Nat)
  BY NatLessThanWellFounded
<1>2. PICK n \in T : \A m \in T : ~(<<m, n>> \in OpToRel(<, Nat))
  BY <1>1, WFMin
<1>3. \A m \in T : ~(m < n)
  BY <1>2 DEF OpToRel
<1> QED BY <1>3

\* A set with 0 and with the successor of each number in it has all numbers:
\* what is left over would have a least number.
LEMMA NatSetInduction ==
  ASSUME NEW T, 0 \in T, \A n \in Nat : n \in T => n + 1 \in T
  PROVE  \A n \in Nat : n \in T
<1> DEFINE U == Nat \ T
<1>1. SUFFICES ASSUME U # {} PROVE FALSE
  OBVIOUS
<1>2. PICK x \in U : \A y \in U : x <= y
  BY <1>1, NatLeast
<1>3. x # 0
  OBVIOUS
<1>4. x - 1 \in Nat /\ x - 1 \notin U
  BY <1>2, <1>3
<1> QED BY <1>4

\* A collection of sets with the empty one, and with every set from which
\* some element can be taken so that the rest is in it, has every finite set.
LEMMA FiniteSetInduction ==
  ASSUME NEW S, IsFiniteSet(S), NEW C, {} \in C,
         \A s \in SUBSET S : (s # {} /\ \A x \in s : s \ {x} \in C) => s \in C
  PROVE  S \in C
<1> DEFINE T == {n \in Nat : \A s \in SUBSET S : Cardinality(s) = n => s \in C}
<1>1. \A s \in SUBSET S : IsFiniteSet(s) /\ Cardinality(s) \in Nat
  BY FS_Subset, FS_CardinalityType
<1>2. 0 \in T
  BY <1>1, FS_EmptySet
<1>3. ASSUME NEW n \in Nat, n \in T PROVE n + 1 \in T
  <2> SUFFICES ASSUME NEW s \in SUBSET S, Cardinality(s) = n + 1 PROVE s \in C
    OBVIOUS
  <2>1. s # {}
    BY <1>1, FS_EmptySet
  <2>2. ASSUME NEW x \in s PROVE s \ {x} \in C
    <3>1. Cardinality(s \ {x}) = n
      BY <1>1, FS_RemoveElement
    <3>q. QED
      BY <3>1, <1>3
  <2>q. QED
    BY <2>1, <2>2
<1>4. \A n \in Nat : n \in T
  <2> HIDE DEF T
  <2> QED BY <1>2, <1>3, NatSetInduction
<1>q. QED
  BY <1>1, <1>4

-----------------------------------------------------------------------------
\* What SumFunction recurses with: the sum over s from those over less.
Chosen(s) == CHOOSE x \in s : TRUE
SumBy(iter, fun, s) == IF s = {} THEN 0 ELSE fun[Chosen(s)] + iter[s \ {Chosen(s)}]
Sums(iter, fun, S)  == iter = [s \in SUBSET S |-> SumBy(iter, fun, s)]

\* What is left of a set without its chosen element is a smaller set.
LEMMA LeftOver ==
  ASSUME NEW S, IsFiniteSet(S)
  PROVE  /\ Cardinality(S) \in Nat
         /\ \A s \in SUBSET S :
              /\ IsFiniteSet(s) /\ Cardinality(s) \in Nat
              /\ Cardinality(s) <= Cardinality(S)
              /\ s = {} <=> Cardinality(s) = 0
              /\ \A x \in s : Cardinality(s \ {x}) = Cardinality(s) - 1
              /\ s # {} => Chosen(s) \in s
<1>1. \A s \in SUBSET S : /\ IsFiniteSet(s) /\ Cardinality(s) \in Nat
                          /\ Cardinality(s) <= Cardinality(S)
  BY FS_Subset, FS_CardinalityType
<1>2. \A s \in SUBSET S : s = {} <=> Cardinality(s) = 0
  BY <1>1, FS_EmptySet
<1>3. \A s \in SUBSET S : \A x \in s : Cardinality(s \ {x}) = Cardinality(s) - 1
  BY <1>1, FS_RemoveElement
<1>q. QED
  BY <1>1, <1>2, <1>3 DEF Chosen

\* There is such a function: it is built up by the size of the subsets.
LEMMA SumsExist ==
  ASSUME NEW fun, NEW S, IsFiniteSet(S)
  PROVE  \E g : Sums(g, fun, S)
<1> DEFINE Small(n) == {s \in SUBSET S : Cardinality(s) <= n}
           Upto(g, n) == g = [s \in Small(n) |-> SumBy(g, fun, s)]
           T == {n \in Nat : \E g : Upto(g, n)}
<1>1. /\ \A s \in SUBSET S : Cardinality(s) \in Nat /\ Cardinality(s) <= Cardinality(S)
      /\ \A s \in SUBSET S : s = {} <=> Cardinality(s) = 0
      /\ \A s \in SUBSET S : s # {} => /\ s \ {Chosen(s)} \in SUBSET S
                                       /\ Cardinality(s \ {Chosen(s)}) = Cardinality(s) - 1
  BY LeftOver
<1>2. ASSUME NEW g, NEW h, NEW s, s # {} => g[s \ {Chosen(s)}] = h[s \ {Chosen(s)}]
      PROVE  SumBy(g, fun, s) = SumBy(h, fun, s)
  BY <1>2 DEF SumBy
<1>3. 0 \in T
  <2> DEFINE g == [s \in Small(0) |-> 0]
  <2>1. \A s \in Small(0) : s = {}
    BY <1>1
  <2>2. Upto(g, 0)
    BY <2>1 DEF SumBy
  <2>q. QED
    BY <2>2
<1>4. ASSUME NEW n \in Nat, n \in T PROVE n + 1 \in T
  <2>1. PICK g : Upto(g, n)
    BY <1>4
  <2> DEFINE h == [s \in Small(n + 1) |-> SumBy(g, fun, s)]
  <2>2. ASSUME NEW s \in Small(n + 1), s # {} PROVE s \ {Chosen(s)} \in Small(n)
    BY <1>1, <2>2
  <2>3. ASSUME NEW s \in Small(n) PROVE h[s] = g[s]
    <3>1. s \in Small(n + 1)
      BY <1>1
    <3>2. h[s] = SumBy(g, fun, s)
      BY <3>1
    <3>3. g[s] = SumBy(g, fun, s)
      BY <2>1
    <3>q. QED
      BY <3>2, <3>3
  <2>4. ASSUME NEW s \in Small(n + 1) PROVE SumBy(g, fun, s) = SumBy(h, fun, s)
    <3> HIDE DEF h, Small
    <3> QED BY <2>2, <2>3, <1>2
  <2>5. Upto(h, n + 1)
    <3>1. h = [s \in Small(n + 1) |-> SumBy(g, fun, s)]
      OBVIOUS
    <3> HIDE DEF h, Small
    <3> QED BY <3>1, <2>4
  <2>q. QED
    <3> HIDE DEF h, Small, Upto
    <3> QED BY <2>5
<1>5. Cardinality(S) \in T
  <2> HIDE DEF T
  <2> QED BY <1>1, <1>3, <1>4, LeftOver, NatSetInduction
<1>6. Small(Cardinality(S)) = SUBSET S
  BY <1>1
<1>q. QED
  BY <1>5, <1>6 DEF Sums

\* Any two such functions agree where both are defined.
LEMMA SumsAgree ==
  ASSUME NEW fun, NEW S, IsFiniteSet(S), NEW g, NEW h,
         \A s \in SUBSET S : g[s] = SumBy(g, fun, s),
         \A s \in SUBSET S : h[s] = SumBy(h, fun, s)
  PROVE  g[S] = h[S]
<1> DEFINE C == {s \in SUBSET S : g[s] = h[s]}
<1>1. {} \in C
  BY DEF SumBy
<1>2. ASSUME NEW s \in SUBSET S, s # {}, \A x \in s : s \ {x} \in C PROVE s \in C
  <2>1. Chosen(s) \in s
    BY <1>2 DEF Chosen
  <2>q. QED
    BY <1>2, <2>1 DEF SumBy
<1>3. S \in C
  <2> HIDE DEF C
  <2> QED BY <1>1, <1>2, FiniteSetInduction
<1>q. QED
  BY <1>3

-----------------------------------------------------------------------------
\* The sum over a set is taken by its chosen element, the one over none is 0.
LEMMA SumUnfold ==
  ASSUME NEW fun, NEW S, IsFiniteSet(S)
  PROVE  /\ SumFunctionOnSet(fun, {}) = 0
         /\ S # {} => /\ Chosen(S) \in S
                      /\ SumFunctionOnSet(fun, S)
                           = fun[Chosen(S)] + SumFunctionOnSet(fun, S \ {Chosen(S)})
<1>1. ASSUME NEW U, IsFiniteSet(U)
      PROVE  \E g : Sums(g, fun, U) /\ SumFunctionOnSet(fun, U) = g[U]
  <2>1. \E g : Sums(g, fun, U)
    BY <1>1, SumsExist
  <2>q. QED
    BY <2>1 DEF SumFunctionOnSet, FoldFunctionOnSet, MapThenFoldSet, Sums, SumBy, Chosen
<1>2. ASSUME NEW U, IsFiniteSet(U), NEW g, Sums(g, fun, U), NEW V \in SUBSET U
      PROVE  SumFunctionOnSet(fun, V) = g[V]
  <2>1. IsFiniteSet(V)
    BY <1>2, FS_Subset
  <2>2. PICK h : Sums(h, fun, V) /\ SumFunctionOnSet(fun, V) = h[V]
    BY <2>1, <1>1
  <2>3. /\ \A s \in SUBSET V : g[s] = SumBy(g, fun, s)
        /\ \A s \in SUBSET V : h[s] = SumBy(h, fun, s)
    BY <1>2, <2>2 DEF Sums
  <2>4. g[V] = h[V]
    BY <2>1, <2>3, SumsAgree
  <2>q. QED
    BY <2>2, <2>4
<1>3. PICK g : Sums(g, fun, S)
  BY SumsExist
<1>4. \A V \in SUBSET S : SumFunctionOnSet(fun, V) = g[V] /\ g[V] = SumBy(g, fun, V)
  BY <1>2, <1>3 DEF Sums
<1>5. S # {} => Chosen(S) \in S
  BY DEF Chosen
<1>q. QED
  BY <1>4, <1>5 DEF SumBy

-----------------------------------------------------------------------------
\* A sum of integers is one, and any element may be taken out of it first.
LEMMA SumTakeOut ==
  ASSUME NEW fun, NEW S, IsFiniteSet(S), \A x \in S : fun[x] \in Int
  PROVE  /\ SumFunctionOnSet(fun, S) \in Int
         /\ \A x \in S : SumFunctionOnSet(fun, S) = fun[x] + SumFunctionOnSet(fun, S \ {x})
<1> DEFINE Sum(s) == SumFunctionOnSet(fun, s)
           I == {s \in SUBSET S : Sum(s) \in Int}
           C == {s \in SUBSET S : \A x \in s : Sum(s) = fun[x] + Sum(s \ {x})}
<1>1. \A s \in SUBSET S : IsFiniteSet(s)
  BY FS_Subset
<1>2. /\ Sum({}) = 0
      /\ \A s \in SUBSET S : s # {} =>
           Chosen(s) \in s /\ Sum(s) = fun[Chosen(s)] + Sum(s \ {Chosen(s)})
  BY <1>1, SumUnfold
<1> HIDE DEF Sum
<1>0. \A s \in SUBSET S : Sum(s) \in Int
  <2>1. {} \in I
    BY <1>2
  <2>2. ASSUME NEW s \in SUBSET S, s # {}, \A x \in s : s \ {x} \in I PROVE s \in I
    <3>1. Chosen(s) \in s /\ Sum(s) = fun[Chosen(s)] + Sum(s \ {Chosen(s)})
      BY <1>2, <2>2
    <3>2. fun[Chosen(s)] \in Int /\ Sum(s \ {Chosen(s)}) \in Int
      BY <2>2, <3>1
    <3>q. QED
      BY <3>1, <3>2
  <2>3. ASSUME NEW U \in SUBSET S PROVE U \in I
    <3>1. \A s \in SUBSET U : (s # {} /\ \A x \in s : s \ {x} \in I) => s \in I
      BY <2>2
    <3> HIDE DEF I
    <3> QED BY <1>1, <2>1, <3>1, FiniteSetInduction
  <2>q. QED
    BY <2>3
<1>3. {} \in C
  BY <1>2
<1>4. ASSUME NEW s \in SUBSET S, s # {}, \A x \in s : s \ {x} \in C PROVE s \in C
  <2> DEFINE c == Chosen(s)
  <2>1. c \in s /\ Sum(s) = fun[c] + Sum(s \ {c}) /\ Sum(s \ {c}) \in Int /\ fun[c] \in Int
    BY <1>0, <1>2, <1>4
  <2>2. ASSUME NEW x \in s, x # c PROVE Sum(s) = fun[x] + Sum(s \ {x})
    <3>1. (s \ {c}) \ {x} = (s \ {x}) \ {c}
      OBVIOUS
    <3>2. Sum(s \ {c}) = fun[x] + Sum((s \ {c}) \ {x})
      BY <1>4, <2>1, <2>2
    <3>3. Sum(s \ {x}) = fun[c] + Sum((s \ {x}) \ {c}) /\ fun[x] \in Int
      BY <1>4, <2>1, <2>2
    <3>4. Sum(s) = fun[c] + (fun[x] + Sum((s \ {x}) \ {c}))
      BY <2>1, <3>1, <3>2
    <3>5. Sum((s \ {x}) \ {c}) \in Int
      BY <1>0
    <3>q. QED
      BY <3>3, <3>4, <3>5, <2>1
  <2>q. QED
    BY <2>1, <2>2
<1>5. S \in C
  <2> HIDE DEF C
  <2> QED BY <1>3, <1>4, FiniteSetInduction
<1>q. QED
  BY <1>0, <1>5 DEF Sum

\* Functions that agree on a set have the same sum over it.
LEMMA SumSame ==
  ASSUME NEW fun, NEW gun, NEW S, IsFiniteSet(S), \A x \in S : fun[x] = gun[x]
  PROVE  SumFunctionOnSet(fun, S) = SumFunctionOnSet(gun, S)
<1> DEFINE C == {s \in SUBSET S : SumFunctionOnSet(fun, s) = SumFunctionOnSet(gun, s)}
<1>1. {} \in C
  BY FS_EmptySet, SumUnfold
<1>2. ASSUME NEW s \in SUBSET S, s # {}, \A x \in s : s \ {x} \in C PROVE s \in C
  <2>1. IsFiniteSet(s)
    BY FS_Subset
  <2>2. /\ Chosen(s) \in s
        /\ SumFunctionOnSet(fun, s) = fun[Chosen(s)] + SumFunctionOnSet(fun, s \ {Chosen(s)})
        /\ SumFunctionOnSet(gun, s) = gun[Chosen(s)] + SumFunctionOnSet(gun, s \ {Chosen(s)})
    BY <1>2, <2>1, SumUnfold
  <2>3. s \ {Chosen(s)} \in C /\ fun[Chosen(s)] = gun[Chosen(s)]
    BY <1>2, <2>2
  <2>q. QED
    BY <2>2, <2>3
<1>3. S \in C
  <2> HIDE DEF C
  <2> QED BY <1>1, <1>2, FiniteSetInduction
<1>q. QED
  BY <1>3

\* Nothing adds up to nothing.
LEMMA SumZero ==
  ASSUME NEW fun, NEW S, IsFiniteSet(S), \A x \in S : fun[x] = 0
  PROVE  SumFunctionOnSet(fun, S) = 0
<1> DEFINE C == {s \in SUBSET S : SumFunctionOnSet(fun, s) = 0}
<1>1. {} \in C
  BY FS_EmptySet, SumUnfold
<1>2. ASSUME NEW s \in SUBSET S, s # {}, \A x \in s : s \ {x} \in C PROVE s \in C
  <2>1. IsFiniteSet(s)
    BY FS_Subset
  <2>2. /\ Chosen(s) \in s
        /\ SumFunctionOnSet(fun, s) = fun[Chosen(s)] + SumFunctionOnSet(fun, s \ {Chosen(s)})
    BY <1>2, <2>1, SumUnfold
  <2>3. s \ {Chosen(s)} \in C /\ fun[Chosen(s)] = 0
    BY <1>2, <2>2
  <2>q. QED
    BY <2>2, <2>3
<1>3. S \in C
  <2> HIDE DEF C
  <2> QED BY <1>1, <1>2, FiniteSetInduction
<1>q. QED
  BY <1>3

\* A change at one element changes the sum by as much.
LEMMA SumChangeOne ==
  ASSUME NEW fun, NEW gun, NEW S, IsFiniteSet(S), NEW x \in S,
         \A y \in S : fun[y] \in Int /\ gun[y] \in Int,
         \A y \in S \ {x} : fun[y] = gun[y]
  PROVE  SumFunctionOnSet(gun, S) = SumFunctionOnSet(fun, S) - fun[x] + gun[x]
<1>1. IsFiniteSet(S \ {x})
  BY FS_Subset
<1>2. SumFunctionOnSet(fun, S \ {x}) = SumFunctionOnSet(gun, S \ {x})
  BY <1>1, SumSame
<1>3. /\ SumFunctionOnSet(fun, S) = fun[x] + SumFunctionOnSet(fun, S \ {x})
      /\ SumFunctionOnSet(gun, S) = gun[x] + SumFunctionOnSet(gun, S \ {x})
      /\ SumFunctionOnSet(fun, S \ {x}) \in Int
  BY <1>1, SumTakeOut
<1>q. QED
  BY <1>2, <1>3

\* Something added at some of the elements is added as often as they are many.
LEMMA SumAddOn ==
  ASSUME NEW fun, NEW gun, NEW S, IsFiniteSet(S), NEW T \in SUBSET S, NEW n \in Int,
         \A x \in S : fun[x] \in Int,
         \A x \in S : gun[x] = fun[x] + IF x \in T THEN n ELSE 0
  PROVE  SumFunctionOnSet(gun, S) = SumFunctionOnSet(fun, S) + n * Cardinality(T)
<1> DEFINE C == {s \in SUBSET S : SumFunctionOnSet(gun, s)
                                    = SumFunctionOnSet(fun, s) + n * Cardinality(T \cap s)}
<1>1. {} \in C
  <2>1. T \cap {} = {} /\ Cardinality({}) = 0 /\ IsFiniteSet({})
    BY FS_EmptySet
  <2>2. SumFunctionOnSet(gun, {}) = 0 /\ SumFunctionOnSet(fun, {}) = 0
    BY <2>1, SumUnfold
  <2>3. 0 = 0 + n * 0
    OBVIOUS
  <2>q. QED
    BY <2>1, <2>2, <2>3
<1>2. ASSUME NEW s \in SUBSET S, s # {}, \A x \in s : s \ {x} \in C PROVE s \in C
  <2>1. PICK x \in s : TRUE
    BY <1>2
  <2>2. IsFiniteSet(s) /\ IsFiniteSet(s \ {x}) /\ IsFiniteSet(T \cap s)
    BY FS_Subset
  <2>3. /\ SumFunctionOnSet(fun, s) = fun[x] + SumFunctionOnSet(fun, s \ {x})
        /\ SumFunctionOnSet(gun, s) = gun[x] + SumFunctionOnSet(gun, s \ {x})
        /\ SumFunctionOnSet(fun, s \ {x}) \in Int
    <3>1. \A y \in s : fun[y] \in Int /\ gun[y] \in Int
      OBVIOUS
    <3>q. QED
      BY <3>1, <2>2, SumTakeOut
  <2>4. SumFunctionOnSet(gun, s \ {x})
          = SumFunctionOnSet(fun, s \ {x}) + n * Cardinality(T \cap (s \ {x}))
    BY <1>2
  <2>5. CASE x \in T
    <3>1. T \cap (s \ {x}) = (T \cap s) \ {x}
      OBVIOUS
    <3>2. /\ Cardinality(T \cap s) \in Nat /\ Cardinality((T \cap s) \ {x}) \in Nat
          /\ Cardinality((T \cap s) \ {x}) = Cardinality(T \cap s) - 1
      BY <2>2, <2>5, FS_RemoveElement, FS_CardinalityType, FS_Subset
    <3> DEFINE P == n * Cardinality(T \cap s)
               Q == n * Cardinality((T \cap s) \ {x})
    <3>3. \A c, d \in Int : d = c - 1 => n * c = n * d + n /\ n * d \in Int
      OBVIOUS
    <3>4. P = Q + n /\ Q \in Int
      BY <3>2, <3>3
    <3>5. SumFunctionOnSet(gun, s \ {x}) = SumFunctionOnSet(fun, s \ {x}) + Q
      BY <2>4, <3>1
    <3>6. fun[x] \in Int /\ gun[x] = fun[x] + n
      BY <2>5
    <3>7. SumFunctionOnSet(gun, s) = SumFunctionOnSet(fun, s) + P
      <4> HIDE DEF P, Q
      <4> QED BY <2>3, <3>4, <3>5, <3>6
    <3>q. QED
      BY <3>7
  <2>6. CASE x \notin T
    <3>1. T \cap (s \ {x}) = T \cap s
      BY <2>6
    <3>2. Cardinality(T \cap s) \in Nat
      BY <2>2, FS_CardinalityType
    <3> DEFINE P == n * Cardinality(T \cap s)
    <3>3. P \in Int
      BY <3>2
    <3>4. fun[x] \in Int /\ gun[x] = fun[x]
      BY <2>6
    <3>5. SumFunctionOnSet(gun, s \ {x}) = SumFunctionOnSet(fun, s \ {x}) + P
      BY <2>4, <3>1
    <3>6. SumFunctionOnSet(gun, s) = SumFunctionOnSet(fun, s) + P
      <4> HIDE DEF P
      <4> QED BY <2>3, <3>3, <3>4, <3>5
    <3>q. QED
      BY <3>6
  <2>q. QED
    BY <2>5, <2>6
<1>3. S \in C
  <2> HIDE DEF C
  <2> QED BY <1>1, <1>2, FiniteSetInduction
<1>4. T \cap S = T
  OBVIOUS
<1>q. QED
  BY <1>3, <1>4

\* The sizes of finite sets that share nothing add up to the size of their
\* union.
LEMMA SumCards ==
  ASSUME NEW fam, NEW S, IsFiniteSet(S), \A x \in S : IsFiniteSet(fam[x]),
         \A x, y \in S : x # y => fam[x] \cap fam[y] = {},
         NEW fun, \A x \in S : fun[x] = Cardinality(fam[x])
  PROVE  SumFunctionOnSet(fun, S) = Cardinality(UNION {fam[x] : x \in S})
<1> DEFINE All(s) == UNION {fam[x] : x \in s}
           C == {s \in SUBSET S : /\ IsFiniteSet(All(s))
                                 /\ SumFunctionOnSet(fun, s) = Cardinality(All(s))}
<1>1. {} \in C
  <2>1. All({}) = {}
    OBVIOUS
  <2>2. IsFiniteSet({}) /\ Cardinality({}) = 0
    BY FS_EmptySet
  <2>3. SumFunctionOnSet(fun, {}) = 0
    BY <2>2, SumUnfold
  <2>q. QED
    BY <2>1, <2>2, <2>3
<1>2. ASSUME NEW s \in SUBSET S, s # {}, \A x \in s : s \ {x} \in C PROVE s \in C
  <2>1. PICK x \in s : TRUE
    BY <1>2
  <2> DEFINE rest == s \ {x}
  <2>2. /\ IsFiniteSet(All(rest))
        /\ SumFunctionOnSet(fun, rest) = Cardinality(All(rest))
    BY <1>2
  <2>3. All(s) = All(rest) \cup fam[x] /\ All(rest) \cap fam[x] = {}
    OBVIOUS
  <2>4. IsFiniteSet(fam[x]) /\ fun[x] = Cardinality(fam[x])
    OBVIOUS
  <2>5. SumFunctionOnSet(fun, s) = fun[x] + SumFunctionOnSet(fun, rest)
    <3>1. IsFiniteSet(s) /\ \A y \in s : fun[y] \in Int
      BY FS_Subset, FS_CardinalityType
    <3>q. QED
      BY <3>1, SumTakeOut
  <2> HIDE DEF All, rest
  <2>6. /\ IsFiniteSet(All(rest) \cup fam[x])
        /\ Cardinality(All(rest) \cup fam[x])
             = Cardinality(All(rest)) + Cardinality(fam[x]) - Cardinality(All(rest) \cap fam[x])
    BY <2>2, <2>4, FS_Union
  <2>7. Cardinality(All(rest) \cap fam[x]) = 0
    BY <2>3, FS_EmptySet
  <2>8. Cardinality(All(rest)) \in Nat /\ Cardinality(fam[x]) \in Nat
    BY <2>2, <2>4, FS_CardinalityType
  <2>9. IsFiniteSet(All(s)) /\ SumFunctionOnSet(fun, s) = Cardinality(All(s))
    BY <2>2, <2>3, <2>4, <2>5, <2>6, <2>7, <2>8
  <2>q. QED
    BY <2>9
<1>3. S \in C
  <2> HIDE DEF C
  <2> QED BY <1>1, <1>2, FiniteSetInduction
<1>q. QED
  BY <1>3

=============================================================================
