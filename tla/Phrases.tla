------------------------------- MODULE Phrases -------------------------------
(***************************************************************************)
(* The predicates and the aggregate functions of the boxes, on their own:  *)
(* a text is parsed and its tree asked of tuples, a function is told of    *)
(* the tuples of a window, and the answers are compared with what the text *)
(* says and with the tuples.  Boxes and phrases are checked side by side.  *)
(***************************************************************************)
EXTENDS Operators, Predparser

CONSTANT
  Texts         \* the phrases and functions under test: records [op, input, ...]

\* A predicate is parsed, or the parser exits; a filter asks it of every tuple,
\* a join of pairs (here the i-th tuples of its two inputs).
Parse == /\ Op = "predicate"
         /\ state = <<>>
         /\ LET read == ParsePred(box.text)
            IN state' = IF read.at = 0 THEN <<"exit">> ELSE <<"parsed", read.obj>>
         /\ UNCHANGED <<box, taken, kept, out, clock>>

Side(i) == [p \in Ports |-> Stream(p)[i]]

Ask == /\ Op = "predicate"
       /\ Len(state) = 2
       /\ taken[1] < Len(Stream(1))
       /\ Trapped \notin ToSet(out[1])
       /\ taken' = [p \in Ports |-> taken[p] + 1]
       /\ out' = [out EXCEPT ![1] = Append(@, Evaluate(state[2], Side(taken[1] + 1)))]
       /\ UNCHANGED <<box, kept, state, clock>>

\* The aggregate function of a window is told of one more tuple.
Function(b) == IF b.by = "aggregate" THEN AggregateFunctionOf(b.name, b.type)
               ELSE ResampleFunctionOf(b.name, b.type)

Incr == /\ Op = "fold"
        /\ Function(box) # <<"exit">>
        /\ taken[1] < Len(Stream(1))
        /\ taken' = [taken EXCEPT ![1] = @ + 1]
        /\ state' = Run(Function(box), "incr", state, Stream(1)[taken[1] + 1])
        /\ UNCHANGED <<box, kept, out, clock>>

TextInit == /\ box \in Texts
            /\ taken = [p \in Ports |-> 0]
            /\ kept = [p \in Ports |-> <<>>]
            /\ state = IF Op = "fold" /\ Function(box) # <<"exit">>
                       THEN Run(Function(box), "init", <<>>, Stale) ELSE <<>>
            /\ out = <<<<>>>>
            /\ clock = 0

PhraseSpec == (OpInit \/ TextInit) /\ [][OpNext \/ Parse \/ Ask \/ Incr]_opVars

-----------------------------------------------------------------------------
(* What the texts and the functions mean.  A phrase is [op, ...]: a leaf, a *)
(* function of arg, or a left and a right side.                            *)

Arithmetic == {"PLUS", "MINUS", "TIMES", "DIVIDE"}
Relations  == {"EQ", "LT", "GT", "LTE", "GTE", "NE"}
Functions1 == {"ABS", "INT2FLOAT", "FLOAT2INT", "NOT"}
Symbol(op) == [tok |-> op]
Bracketed(text) == <<Symbol("LPAREN")>> \o text \o <<Symbol("RPAREN")>>

\* How a phrase is written: a side that is arithmetic stands in parentheses on
\* the left of an operator, and without them on the right.
RECURSIVE Written(_)
Written(p) ==
  CASE p.op = "IDENT"      -> <<[tok |-> "IDENT", type |-> p.type, port |-> p.port, field |-> p.field]>>
    [] p.op \in {"INT", "FLOAT", "STRING"} -> <<[tok |-> p.op, val |-> p.val]>>
    [] p.op \in Functions1 -> <<Symbol(p.op)>> \o Bracketed(Written(p.arg))
    [] p.op \in {"AND", "OR"} ->
         <<Symbol(p.op)>> \o Bracketed(Written(p.left) \o <<Symbol("COMMA")>> \o Written(p.right))
    [] p.op \in Relations \cup Arithmetic ->
         (IF p.left.op \in Arithmetic /\ p.op \in Arithmetic THEN Bracketed(Written(p.left)) ELSE Written(p.left))
         \o <<Symbol(p.op)>> \o Written(p.right)

\* The type the parser gives an expression: that of its leftmost part.
RECURSIVE TypeOf(_)
TypeOf(p) == CASE p.op = "IDENT"      -> p.type
               [] p.op = "INT2FLOAT"  -> "FLOAT"
               [] p.op = "FLOAT2INT"  -> "INT"
               [] p.op = "ABS"        -> Written(p.arg)[1].tok
               [] p.op \in Arithmetic -> TypeOf(p.left)
               [] OTHER               -> p.op

\* The phrases the parser takes: strings are only compared for equality and
\* not computed with, ABS needs a number after its parenthesis, and a
\* comparison does not begin with FLOAT2INT.
RECURSIVE Expressible(_)
Expressible(p) ==
  CASE p.op \in {"IDENT", "INT", "FLOAT", "STRING"} -> TRUE
    [] p.op = "ABS" -> Expressible(p.arg) /\ Written(p.arg)[1].tok \in {"INT", "FLOAT"}
    [] p.op \in Functions1 \ {"ABS"} -> Expressible(p.arg)
    [] OTHER -> /\ Expressible(p.left) /\ Expressible(p.right)
                /\ p.op \in Arithmetic => TypeOf(p.left) \in {"INT", "FLOAT"}
                /\ p.op \in Relations  => /\ TypeOf(p.left) = "STRING" => p.op \in {"EQ", "NE"}
                                          /\ Written(p.left)[1].tok # "FLOAT2INT"

\* The whole part of n/d, without the sign lost.
Whole(n, d) == CHOOSE q \in -Size(n)..Size(n) :
                 /\ Size(q * d) <= Size(n) /\ Size(n) < Size(q * d) + Size(d)
                 /\ q * n * d >= 0

Computed(op, x, y) ==
  LET result(n, d) == IF x.type = "INT" THEN {IntOf(Whole(n, d))} ELSE {FloatOf(n, d)}
  IN IF x.type # y.type THEN {}
     ELSE CASE op = "PLUS"   -> result(x.num * y.den + y.num * x.den, x.den * y.den)
            [] op = "MINUS"  -> result(x.num * y.den - y.num * x.den, x.den * y.den)
            [] op = "TIMES"  -> result(x.num * y.num, x.den * y.den)
            [] op = "DIVIDE" -> IF y.num = 0 THEN {}
                                ELSE LET sign == IF y.num < 0 THEN -1 ELSE 1
                                     IN result(sign * x.num * y.den, x.den * Size(y.num))

Related(op, x, y) ==
  LET a == x.num * y.den
      b == y.num * x.den
  IN IF x.type # y.type THEN {}
     ELSE {BoolOf(CASE op = "EQ" -> a = b [] op = "NE" -> a # b [] op = "LT" -> a < b
                    [] op = "GT" -> a > b [] op = "LTE" -> a <= b [] op = "GTE" -> a >= b)}

\* The one value of a phrase on one or two tuples; none, when its types do not
\* fit, it divides by zero, or the build's abs cuts a fraction.
RECURSIVE Denotes(_, _)
Denotes(p, env) ==
  CASE p.op = "IDENT" -> {FieldOf(env[IF p.port = 1 THEN Len(env) ELSE 1], p.field)}
    [] p.op \in {"INT", "FLOAT", "STRING"} -> {p.val}
    [] p.op = "NOT" -> {BoolOf(x.num = 0) : x \in Denotes(p.arg, env)}
    [] p.op = "ABS" -> {Value(x.type, Size(x.num), x.den) :
                          x \in {y \in Denotes(p.arg, env) : y.type = "INT" \/ ~TruncatingAbs}}
    [] p.op = "INT2FLOAT" -> {FloatOf(x.num, 1) : x \in {y \in Denotes(p.arg, env) : y.type = "INT"}}
    [] p.op = "FLOAT2INT" -> {IntOf(Whole(x.num, x.den)) : x \in {y \in Denotes(p.arg, env) : y.type = "FLOAT"}}
    [] p.op \in {"AND", "OR"} ->
         LET decides == BoolOf(p.op = "OR" /\ Len(env) = 1)
         IN UNION {IF x = decides THEN {x} ELSE Denotes(p.right, env) : x \in Denotes(p.left, env)}
    [] p.op \in Arithmetic ->
         UNION {Computed(p.op, x, y) : x \in Denotes(p.left, env), y \in Denotes(p.right, env)}
    [] p.op \in Relations ->
         UNION {Related(p.op, x, y) : x \in Denotes(p.left, env), y \in Denotes(p.right, env)}

\* A text that is written the way the parser groups it, rightmost first, is
\* accepted exactly when it is expressible and complete, and its tree then has
\* the value of the phrase on every tuple, or pair of tuples (where OR is the
\* conjunction that ORPredicate.cpp, line 19, makes of it).
TextMeans ==
  Op = "predicate" =>
    LET accepted == Expressible(box.phrase) /\ ~box.cut
    IN /\ state # <<>> => (state # <<"exit">> <=> accepted)
       /\ accepted => \A i \in DOMAIN out[1] :
            Denotes(box.phrase, Side(i)) # {} => Denotes(box.phrase, Side(i)) = {out[1][i]}

SameRow(r, q) == /\ Len(r) = Len(q)
                 /\ \A i \in DOMAIN r : r[i].type = q[i].type /\ r[i].num * q[i].den = q[i].num * r[i].den
                                        /\ r[i].type # "OTHER"

SumOver(s) == FoldLeft(LAMBDA a, b : a + b, 0, s)

\* The row of a window of the tuples s.
RowOf(fn, s) ==
  LET n == Len(s)
      V == [i \in 1..n |-> s[i].v]
      G == [i \in 1..n |-> s[i].g]
      num(x)  == IF Len(fn) = 2 /\ fn[2] = "f" THEN FloatOf(x, 2) ELSE IntOf(x)
      top     == CHOOSE x \in ToSet(V) : \A y \in ToSet(V) : y <= x
      bottom  == CHOOSE x \in ToSet(V) : \A y \in ToSet(V) : x <= y
      before(f) == IF n = 1 THEN 0 ELSE f[n - 1]
  IN CASE n = 0 -> IF fn[1] = "AVG" THEN <<FloatOf(0, 1)>> ELSE <<num(0)>>
       [] n > 0 /\ fn[1] = "AVG" -> <<FloatOf(SumOver(V), IF fn[2] = "f" THEN 2 * n ELSE n)>>
       [] n > 0 /\ fn[1] = "SUM" -> <<num(SumOver(V))>>
       [] n > 0 /\ fn[1] = "MAX" -> <<num(top)>>
       [] n > 0 /\ fn[1] = "MIN" -> <<num(bottom)>>
       [] n > 0 /\ fn[1] = "COUNT"    -> <<IntOf(n)>>
       [] n > 0 /\ fn[1] = "DELTA"    -> <<num(V[n] - V[1])>>
       [] n > 0 /\ fn[1] = "FIRSTVAL" -> <<num(V[1])>>
       [] n > 0 /\ fn[1] = "LASTVAL"  -> <<num(V[n])>>
       [] n > 0 /\ fn[1] = "ACC1AF"   -> <<IntOf(V[1]), IntOf(V[1]), IntOf(V[1]), IntOf(G[1]),
                                           Flag(\A i \in 2..n : V[i] = V[1] /\ G[i] = G[1])>>
       [] n > 0 /\ fn[1] = "ACC2AF"   -> <<IntOf(s[1].id), Flag(\A i \in 2..n : V[i] # 0 /\ G[i] # G[1])>>
       [] n > 0 /\ fn[1] = "SEG1AF"   -> <<IntOf(SumOver(V)), IntOf(n)>>
       [] n > 0 /\ fn[1] = "SEG2AF"   -> <<IntOf(Whole(SumOver(V), SumOver(G))), IntOf(G[n])>>
       [] n > 0 /\ fn[1] = "SEG3AF"   -> <<IntOf(V[n]), IntOf(Whole(SumOver(V), 4)), IntOf(G[n])>>
       [] n > 0 /\ fn[1] = "MITRE1AF" -> <<FloatOf(V[n], 2), FloatOf(G[n], 1),
                                           FloatOf(Size(V[n] - before(V)), 2), FloatOf(Size(G[n] - before(G)), 1)>>
       [] n > 0 /\ fn[1] = "MITRE2AF" -> <<IntOf(G[n]), IntOf(s[n].id), Flag(V[n] <= 1 \/ V[n] >= 3)>>
       [] n > 0 /\ fn[1] = "CENTER_OF_MASS_AF" -> <<FloatOf(SumOver(V), n), FloatOf(SumOver(G), n)>>
       [] n > 0 /\ fn[1] = "FIDELITY1" -> <<Flag(n = 1), IntOf(G[n])>>

\* Where the sum of a window is negative, SEG2AF and SEG3AF, whose sums are
\* unsigned, divide another number.
UnsignedSum(fn, s) ==
  fn[1] \in {"SEG2AF", "SEG3AF"} /\ SumOver([i \in DOMAIN s |-> s[i].v]) < 0

\* The row that a window's function writes is that of the tuples it was told
\* of, negative and equal ones too; a resample, which has windows without
\* tuples, gets 0 for those.  Two things are excepted: a negative sum of
\* UnsignedSum, and the end of the row of ACC1AF, the lane and whether the car
\* stopped, which is right but is not emitted (Acc1AF.cpp, line 90).
AggregatesExact ==
  (Op = "fold" /\ Function(box) # <<"exit">> /\ (taken[1] > 0 \/ box.by = "resample")) =>
    LET fn == Function(box)
        row == Run(fn, "final", state, Stale)
    IN /\ UnsignedSum(fn, Dequeued(1)) \/ SameRow(row, RowOf(fn, Dequeued(1)))
       /\ IsPrefix(Emitted(fn, state), row)
       /\ fn # <<"ACC1AF">> => Emitted(fn, state) = row
=============================================================================
