----------------------------- MODULE MCOperators -----------------------------
(***************************************************************************)
(* Instances of Phrases for TLC: every stream up to a length over small    *)
(* values and groups, for every operator.                                  *)
(***************************************************************************)
EXTENDS Phrases

Numbered(s, base) == [i \in DOMAIN s |-> [id |-> base + i, g |-> s[i][1], v |-> s[i][2]]]
Streams(len, groups, values, base) ==
  {Numbered(s, base) : s \in [1..len -> groups \X values]}

NoDrop      == [kind |-> "none"]
SomeDrop    == {NoDrop, [kind |-> "rate"], [kind |-> "all"], [kind |-> "predicate", keep |-> {1, 2}]}
Box(op, drop, input) ==
  [op |-> op, drop |-> drop, win |-> [size |-> 1, advance |-> 1], input |-> input]
AggBox(op, size, advance, s) ==
  [op |-> op, drop |-> NoDrop, win |-> [size |-> size, advance |-> advance], input |-> <<s>>]

\* Overlapping windows, windows that overlap in part, windows with gaps.
MCWindows == {<<2, 1>>, <<3, 2>>, <<2, 3>>}

(* AllPhrases: every operator over leaves of every type, chains to the     *)
(* right and to the left, and predicates of predicates.                    *)
Leaf(op, val)     == [op |-> op, val |-> val]
Field(type, port, field) == [op |-> "IDENT", type |-> type, port |-> port, field |-> field]
One(op, arg)      == [op |-> op, arg |-> arg]
Two(op, l, r)     == [op |-> op, left |-> l, right |-> r]

Ints    == {Leaf("INT", IntOf(2)), Field("INT", 0, "g"), Field("INT", 1, "v")}
Floats  == {Leaf("FLOAT", FloatOf(3, 2)), Field("FLOAT", 1, "half")}
Others  == {Leaf("STRING", Value("STRING", 1, 1)), Field("STRING", 0, "name"), Field("TIMESTAMP", 1, "at")}
Leaves  == Ints \cup Floats \cup Others
Numbers == Ints \cup Floats

Sums(l, r) == {Two(op, x, y) : op \in Arithmetic, x \in l, y \in r}
Ones(l)    == {One(op, x) : op \in {"ABS", "INT2FLOAT", "FLOAT2INT"}, x \in l}
Short      == {Leaf("INT", IntOf(2)), Field("INT", 1, "v")}
Chains     == Sums(Short, Sums(Short, Short)) \cup Sums(Sums(Short, Short), Short)

Rels(ops, l, r) == {Two(op, x, y) : op \in ops, x \in l, y \in r}
Simple == {Two("EQ", Field("INT", 0, "g"), Leaf("INT", IntOf(1))),
           Two("LT", Field("INT", 1, "v"), Field("INT", 0, "g")),
           Two("EQ", Two("DIVIDE", Leaf("INT", IntOf(2)), Field("INT", 1, "v")), Leaf("INT", IntOf(1)))}
Logic(l, r) == {One("NOT", x) : x \in l} \cup {Two(op, x, y) : op \in {"AND", "OR"}, x \in l, y \in r}

Comparisons == Rels(Relations, Leaves, Leaves)
Computations ==
       Rels({"LT", "NE"}, Ones(Leaves) \cup Sums(Numbers, Numbers), {Leaf("INT", IntOf(1)), Field("FLOAT", 1, "half")})
  \cup Rels({"GT"}, Leaves, Sums({Field("STRING", 0, "name"), Field("INT", 1, "v")}, Ints))
  \cup Rels({"GTE"}, Chains, {Leaf("INT", IntOf(1))})
  \cup Rels({"LTE"}, Ones(Sums(Short \cup Floats, Short \cup Floats)), {Leaf("INT", IntOf(0)), Leaf("FLOAT", FloatOf(1, 2))})
Combinations == Logic(Simple, Simple) \cup Logic(Logic(Simple, Simple), Simple)
AllPhrases == Comparisons \cup Computations \cup Combinations

Predicate(p, cut, input) ==
  [op |-> "predicate", phrase |-> p, cut |-> cut, input |-> input,
   text |-> IF cut THEN SubSeq(Written(p), 1, Len(Written(p)) - 1) ELSE Written(p)]
Asked == <<<<1, 0>>, <<2, 1>>, <<1, 3>>>>

Fold(by, name, type, s) == [op |-> "fold", by |-> by, name |-> name, type |-> type, input |-> <<s>>]

MCTexts ==
     {Predicate(p, FALSE, <<Numbered(Asked, 0)>>) : p \in AllPhrases}
  \cup {Predicate(p, FALSE, <<Numbered(Asked, 0), Numbered(Reverse(Asked), 10)>>) : p \in AllPhrases}
  \cup {Predicate(p, TRUE, <<Numbered(Asked, 0)>>) : p \in Comparisons \cup Combinations}
  \cup {Fold("aggregate", name, type, s) : type \in {"i", "f"},
          name \in DOMAIN ByType \cup Demos \cup {"COUNT"}, s \in Streams(3, {1, 2}, {-2, 0, 3}, 0)}
  \cup {Fold("resample", name, type, s) : type \in {"i", "f"},
          name \in DOMAIN ByType \cup {"COUNT"}, s \in Streams(3, {1}, {-2, 3}, 0)}

MCCases ==
     {Box(op, d, <<s>>) : op \in {"filter", "map"}, d \in SomeDrop, s \in Streams(3, {1}, 0..2, 0)}
  \cup {Box("union", d, <<s, t>>) : d \in SomeDrop, s \in Streams(2, {1}, 0..1, 0), t \in Streams(2, {1}, 0..1, 10)}
  \cup {Box("hello", NoDrop, <<s>>) : s \in Streams(3, {1}, 0..1, 0)}
  \cup {Box("drop", [kind |-> "rate"], <<s>>) : s \in Streams(2, {1}, 0..1, 0)}
  \cup {Box("restream", NoDrop, <<s>>) : s \in Streams(2, {1, 2}, {0}, 0)}
  \cup {Box("experiment", [kind |-> "rate"], <<s, t>>) : s \in Streams(2, {1}, 0..1, 0), t \in Streams(2, {1}, 0..1, 10)}
  \cup {Box("bsort", NoDrop, <<s>>) : s \in Streams(4, {1, 2}, 0..2, 0)}
  \cup {Box("join", NoDrop, <<s, t>>) : s \in Streams(3, {1}, 0..3, 0), t \in Streams(3, {1}, 0..3, 10)}
  \cup {Box("join", d, <<s, t>>) : d \in SomeDrop, s \in Streams(2, {1, 2}, 0..1, 0), t \in Streams(2, {1, 2}, 0..1, 10)}
  \cup {Box("resample", NoDrop, <<s, t>>) : s \in Streams(3, {1}, 0..3, 0), t \in Streams(3, {1}, 0..3, 10)}
  \cup {AggBox("rows", w[1], w[2], s) : w \in MCWindows, s \in Streams(5, {1, 2}, {0}, 0)}
  \cup {AggBox("values", w[1], w[2], s) : w \in MCWindows,
          s \in {r \in Streams(4, {1, 2}, 0..3, 0) : r[1].g = 1}}

MCPredicates    == <<{1}, {1, 2}>>
MCJoinSlack     == <<0, 1>>
MCJoinPredicate == {<<1, 1>>, <<1, 2>>, <<2, 2>>}
MCResampleSlack == <<1, 0>>
=============================================================================
