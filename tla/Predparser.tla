------------------------------ MODULE Predparser ------------------------------
(***************************************************************************)
(* The predparser library: the parser of predicates and expressions, the   *)
(* classes it builds trees from, and the aggregate functions of windows.   *)
(*                                                                         *)
(* A text is a sequence of tokens [tok, ...]; what the scanner makes of    *)
(* characters is left out.  A value is [type, num, den]: the classes pass  *)
(* plain bytes, and the type is what the bytes were written as.  A float   *)
(* is the fraction num/den; a string and a timestamp are their rank.       *)
(*                                                                         *)
(* A tuple [id, g, v] has the integer fields g and v, the float field half *)
(* (v/2), the string field name (of rank g) and the timestamp field at (v).*)
(***************************************************************************)
EXTENDS QBox

CONSTANT
  TruncatingAbs     \* the build's abs is the one of stdlib.h, for integers

Value(type, num, den) == [type |-> type, num |-> num, den |-> den]
IntOf(n)      == Value("INT", n, 1)
FloatOf(n, d) == Value("FLOAT", n, d)
BoolOf(b)     == Value("BOOL", IF b THEN 1 ELSE 0, 1)

Garbled == Value("OTHER", 0, 0)  \* bytes read as another type; no finite float
Trapped == Value("TRAP", 0, 0)   \* an integer divided by zero: the process ends

\* Division of C: towards zero.
Size(n) == IF n < 0 THEN -n ELSE n
Quotient(a, b) ==
  LET q == Size(a) \div Size(b) IN IF (a < 0) = (b < 0) THEN q ELSE -q

(***************************************************************************)
(* Division of C of two unsigned ints, given and returned as the int that  *)
(* has their bits: 2^32 = 2 * (MaxInt + 1) is added to a negative one.     *)
(***************************************************************************)
MaxInt == 2147483647
UnsignedQuotient(a, b) ==
  IF b < 0 THEN IF a < 0 /\ a >= b THEN 1 ELSE 0
  ELSE IF a >= 0 \/ b = 1 THEN a \div b
  ELSE 2 * (MaxInt \div b) + (2 * (MaxInt % b) + 2 + a) \div b

\* Both sides are evaluated, then read as the type of the class.
Compute(type, l, r, result) ==
  IF Trapped \in {l, r} THEN Trapped
  ELSE IF l.type = type /\ r.type = type THEN result ELSE Garbled

Compare(type, l, r, Holds(_, _)) ==
  Compute(type, l, r, BoolOf(Holds(l.num * r.den, r.num * l.den)))

-----------------------------------------------------------------------------
(* The classes, on what their sides evaluate to.                           *)

IntEqualPredicate(l, r) == Compare("INT", l, r, =)
IntNEPredicate(l, r)    == Compare("INT", l, r, #)
IntLTPredicate(l, r)    == Compare("INT", l, r, <)
IntGTPredicate(l, r)    == Compare("INT", l, r, >)
IntLTEPredicate(l, r)   == Compare("INT", l, r, <=)
IntGTEPredicate(l, r)   == Compare("INT", l, r, >=)

FloatEqualPredicate(l, r) == Compare("FLOAT", l, r, =)
FloatNEPredicate(l, r)    == Compare("FLOAT", l, r, #)
FloatLTPredicate(l, r)    == Compare("FLOAT", l, r, <)
FloatGTPredicate(l, r)    == Compare("FLOAT", l, r, >)
FloatLTEPredicate(l, r)   == Compare("FLOAT", l, r, <=)
FloatGTEPredicate(l, r)   == Compare("FLOAT", l, r, >=)

StringEqualPredicate(l, r) == Compare("STRING", l, r, =)
StringNEPredicate(l, r)    == Compare("STRING", l, r, #)

TsEqualPredicate(l, r) == Compare("TIMESTAMP", l, r, =)
TsNEPredicate(l, r)    == Compare("TIMESTAMP", l, r, #)
TsLTPredicate(l, r)    == Compare("TIMESTAMP", l, r, <)
TsGTPredicate(l, r)    == Compare("TIMESTAMP", l, r, >)
TsLTEPredicate(l, r)   == Compare("TIMESTAMP", l, r, LAMBDA a, b : a < b \/ a = b)
TsGTEPredicate(l, r)   == Compare("TIMESTAMP", l, r, LAMBDA a, b : a > b \/ a = b)

IntAddFunction(l, r)      == Compute("INT", l, r, IntOf(l.num + r.num))
IntSubtractFunction(l, r) == Compute("INT", l, r, IntOf(l.num - r.num))
IntMultiplyFunction(l, r) == Compute("INT", l, r, IntOf(l.num * r.num))
IntDivideFunction(l, r)   ==
  Compute("INT", l, r, IF r.num = 0 THEN Trapped ELSE IntOf(Quotient(l.num, r.num)))

FloatAddFunction(l, r)      == Compute("FLOAT", l, r, FloatOf(l.num * r.den + r.num * l.den, l.den * r.den))
FloatSubtractFunction(l, r) == Compute("FLOAT", l, r, FloatOf(l.num * r.den - r.num * l.den, l.den * r.den))
FloatMultiplyFunction(l, r) == Compute("FLOAT", l, r, FloatOf(l.num * r.num, l.den * r.den))
FloatDivideFunction(l, r)   ==
  Compute("FLOAT", l, r,
          IF r.num = 0 THEN Garbled
          ELSE IF r.num > 0 THEN FloatOf(l.num * r.den, l.den * r.num)
          ELSE FloatOf(-(l.num * r.den), l.den * (-r.num)))

IntAbsoluteFunction(x)   == Compute("INT", x, x, IntOf(Size(x.num)))
FloatAbsoluteFunction(x) ==
  Compute("FLOAT", x, x, IF TruncatingAbs THEN FloatOf(Quotient(Size(x.num), x.den), 1)
                         ELSE FloatOf(Size(x.num), x.den))
Int2Float(x) == Compute("INT", x, x, FloatOf(x.num, 1))
Float2Int(x) == Compute("FLOAT", x, x, IntOf(Quotient(x.num, x.den)))

\* The logical ones; the right side counts only when the left does not decide.
NOTPredicate(x) == Compute("BOOL", x, x, BoolOf(x.num = 0))
ANDPredicate(l, r) == IF l = BoolOf(TRUE) THEN r ELSE l

\* On one tuple an OR; on two, the code has && (ORPredicate.cpp, line 19).
ORPredicate(l, r, two) ==
  IF two THEN ANDPredicate(l, r)
  ELSE IF l = BoolOf(FALSE) THEN r ELSE l

-----------------------------------------------------------------------------
(* Trees.  A class is a type and the token it is built for.                *)

Nothing == [type |-> "NULL", tok |-> "NULL"]

Unary(type, tok, e)     == [type |-> type, tok |-> tok, expr |-> e]
Binary(type, tok, l, r) == [type |-> type, tok |-> tok, ls |-> l, rs |-> r]

\* The constructor with one expression sets the left side only.
SetExpression(e, expr) ==
  IF e.ls = Nothing THEN [e EXCEPT !.ls = expr] ELSE [e EXCEPT !.rs = expr]

IntConstant(mem)    == [type |-> "INT", tok |-> "CONSTANT", mem |-> mem]
FloatConstant(mem)  == [type |-> "FLOAT", tok |-> "CONSTANT", mem |-> mem]
StringConstant(mem) == [type |-> "STRING", tok |-> "CONSTANT", mem |-> mem]

FieldOf(t, field) ==
  CASE field = "g"    -> IntOf(t.g)
    [] field = "v"    -> IntOf(t.v)
    [] field = "half" -> FloatOf(t.v, 2)
    [] field = "name" -> Value("STRING", t.g, 1)
    [] field = "at"   -> Value("TIMESTAMP", t.v, 1)

\* On one tuple the port is not looked at.
FieldExt(port, field, env) ==
  FieldOf(IF Len(env) = 1 \/ port = 0 THEN env[1] ELSE env[2], field)

RECURSIVE Evaluate(_, _)
Evaluate(e, env) ==
  LET x == Evaluate(e.expr, env)
      l == Evaluate(e.ls, env)
      r == Evaluate(e.rs, env)
      class == <<e.type, e.tok>>
  IN CASE e.tok = "CONSTANT" -> e.mem
       [] e.tok = "IDENT"    -> FieldExt(e.port, e.field, env)
       [] class = <<"INT", "EQ">>  -> IntEqualPredicate(l, r)
       [] class = <<"INT", "NE">>  -> IntNEPredicate(l, r)
       [] class = <<"INT", "LT">>  -> IntLTPredicate(l, r)
       [] class = <<"INT", "GT">>  -> IntGTPredicate(l, r)
       [] class = <<"INT", "LTE">> -> IntLTEPredicate(l, r)
       [] class = <<"INT", "GTE">> -> IntGTEPredicate(l, r)
       [] class = <<"FLOAT", "EQ">>  -> FloatEqualPredicate(l, r)
       [] class = <<"FLOAT", "NE">>  -> FloatNEPredicate(l, r)
       [] class = <<"FLOAT", "LT">>  -> FloatLTPredicate(l, r)
       [] class = <<"FLOAT", "GT">>  -> FloatGTPredicate(l, r)
       [] class = <<"FLOAT", "LTE">> -> FloatLTEPredicate(l, r)
       [] class = <<"FLOAT", "GTE">> -> FloatGTEPredicate(l, r)
       [] class = <<"STRING", "EQ">> -> StringEqualPredicate(l, r)
       [] class = <<"STRING", "NE">> -> StringNEPredicate(l, r)
       [] class = <<"TIMESTAMP", "EQ">>  -> TsEqualPredicate(l, r)
       [] class = <<"TIMESTAMP", "NE">>  -> TsNEPredicate(l, r)
       [] class = <<"TIMESTAMP", "LT">>  -> TsLTPredicate(l, r)
       [] class = <<"TIMESTAMP", "GT">>  -> TsGTPredicate(l, r)
       [] class = <<"TIMESTAMP", "LTE">> -> TsLTEPredicate(l, r)
       [] class = <<"TIMESTAMP", "GTE">> -> TsGTEPredicate(l, r)
       [] class = <<"INT", "PLUS">>   -> IntAddFunction(l, r)
       [] class = <<"INT", "MINUS">>  -> IntSubtractFunction(l, r)
       [] class = <<"INT", "TIMES">>  -> IntMultiplyFunction(l, r)
       [] class = <<"INT", "DIVIDE">> -> IntDivideFunction(l, r)
       [] class = <<"FLOAT", "PLUS">>   -> FloatAddFunction(l, r)
       [] class = <<"FLOAT", "MINUS">>  -> FloatSubtractFunction(l, r)
       [] class = <<"FLOAT", "TIMES">>  -> FloatMultiplyFunction(l, r)
       [] class = <<"FLOAT", "DIVIDE">> -> FloatDivideFunction(l, r)
       [] class = <<"INT", "ABS">>   -> IntAbsoluteFunction(x)
       [] class = <<"FLOAT", "ABS">> -> FloatAbsoluteFunction(x)
       [] class = <<"FLOAT", "INT2FLOAT">> -> Int2Float(x)
       [] class = <<"INT", "FLOAT2INT">>   -> Float2Int(x)
       [] class = <<"BOOL", "NOT">> -> NOTPredicate(x)
       [] class = <<"BOOL", "AND">> -> ANDPredicate(l, r)
       [] class = <<"BOOL", "OR">>  -> ORPredicate(l, r, Len(env) = 2)

-----------------------------------------------------------------------------
(* The parser.  It stands before the token at place i of the text s; what  *)
(* was read is [obj, type, at], `at' the next place.  Place 0 is exit(1):  *)
(* no token is there, and so nothing that follows accepts it.              *)

Tok(s, i) == IF i = 0 THEN "EXIT" ELSE IF i > Len(s) THEN "OTHER" ELSE s[i].tok

Read(obj, type, at) == [obj |-> obj, type |-> type, at |-> at]
Exit == Read(Nothing, "NULL", 0)

Match(s, i, tok) == IF Tok(s, i) = tok THEN i + 1 ELSE 0

Const(s, i) ==
  CASE Tok(s, i) = "INT"    -> Read(IntConstant(s[i].val), "INT", i + 1)
    [] Tok(s, i) = "FLOAT"  -> Read(FloatConstant(s[i].val), "FLOAT", i + 1)
    [] Tok(s, i) = "STRING" -> Read(StringConstant(s[i].val), "STRING", i + 1)

MakeIdent(s, i) == Read(s[i], s[i].type, i + 1)

\* Only numbers have arithmetic; its type is that of the left side.
InfAr(s, e) ==
  IF e.type \in {"INT", "FLOAT"}
  THEN Read(Binary(e.type, Tok(s, e.at), e.obj, Nothing), e.type, e.at + 1)
  ELSE Exit

RECURSIVE Expr(_, _)

\* A function over an expression in parentheses.
Wrapped(s, i, type, tok) ==
  LET e == Expr(s, i)
  IN Read(Unary(type, tok, e.obj), type, Match(s, e.at, "RPAREN"))

\* ABS goes by the token after its parenthesis, which must be a number.
SExpr(s, i) ==
  LET inner == Match(s, i + 1, "LPAREN")
  IN CASE Tok(s, i) = "IDENT" -> MakeIdent(s, i)
       [] Tok(s, i) \in {"INT", "FLOAT", "STRING"} -> Const(s, i)
       [] Tok(s, i) = "LPAREN" ->
            LET e == Expr(s, i + 1) IN [e EXCEPT !.at = Match(s, e.at, "RPAREN")]
       [] Tok(s, i) = "INT2FLOAT" -> Wrapped(s, inner, "FLOAT", "INT2FLOAT")
       [] Tok(s, i) = "FLOAT2INT" -> Wrapped(s, inner, "INT", "FLOAT2INT")
       [] Tok(s, i) = "ABS" -> IF Tok(s, inner) \in {"INT", "FLOAT"}
                               THEN Wrapped(s, inner, Tok(s, inner), "ABS")
                               ELSE Exit
       [] OTHER -> Exit

\* Variant of OptAr in which one operand follows the operator, as if the rest
\* were left to the caller.
OptArShort(s, e) ==
  IF Tok(s, e.at) \notin {"PLUS", "MINUS", "TIMES", "DIVIDE"} THEN e
  ELSE LET e1 == InfAr(s, e)
           e2 == SExpr(s, e1.at)
       IN IF e2.at = 0 THEN Exit
          ELSE Read(SetExpression(e1.obj, e2.obj), e1.type, e2.at)

\* What follows an operator is one expression to its end: a - b - c is
\* a - (b - c), and no operator binds closer than another.
OptAr(s, e) ==
  IF Tok(s, e.at) \notin {"PLUS", "MINUS", "TIMES", "DIVIDE"} THEN e
  ELSE LET e1 == InfAr(s, e)
           e2 == Expr(s, e1.at)
       IN IF e2.at = 0 THEN Exit
          ELSE Read(SetExpression(e1.obj, e2.obj), e1.type, e2.at)

Expr(s, i) == OptAr(s, SExpr(s, i))

\* The cases of RelOp lack a break: a type that a case has no class for runs
\* on into the next case, which wants its own token.
RelTokens == <<"EQ", "LT", "GT", "LTE", "GTE", "NE">>
RECURSIVE RelCase(_, _, _)
RelCase(s, e, k) ==
  LET at == IF k > 6 THEN 0 ELSE Match(s, e.at, RelTokens[k])
  IN IF at = 0 THEN Exit
     ELSE IF e.type = "STRING" /\ RelTokens[k] \notin {"EQ", "NE"}
     THEN RelCase(s, [e EXCEPT !.at = at], k + 1)
     ELSE Read(Binary(e.type, RelTokens[k], e.obj, Nothing), "BOOL", at)

RelOp(s, e) ==
  IF Tok(s, e.at) \notin ToSet(RelTokens) THEN Exit
  ELSE RelCase(s, e, CHOOSE k \in 1..6 : RelTokens[k] = Tok(s, e.at))

SPred(s, i) ==
  LET pred  == RelOp(s, Expr(s, i))
      right == Expr(s, pred.at)
  IN IF right.at = 0 THEN Exit
     ELSE Read(SetExpression(pred.obj, right.obj), "BOOL", right.at)

\* A predicate cannot begin with FLOAT2INT.
RECURSIVE Pred(_, _)
Pred(s, i) ==
  LET left  == Pred(s, Match(s, i + 1, "LPAREN"))
      right == Pred(s, Match(s, left.at, "COMMA"))
  IN CASE Tok(s, i) \in {"IDENT", "LPAREN", "INT", "FLOAT", "STRING", "INT2FLOAT", "ABS"} -> SPred(s, i)
       [] Tok(s, i) = "NOT" -> Read(Unary("BOOL", "NOT", left.obj), "BOOL", Match(s, left.at, "RPAREN"))
       [] Tok(s, i) \in {"AND", "OR"} ->
            Read(Binary("BOOL", Tok(s, i), left.obj, right.obj), "BOOL", Match(s, right.at, "RPAREN"))
       [] OTHER -> Exit

\* What comes after the predicate is not looked at.
ParsePred(s) == Pred(s, 1)

------------------------------------------------------------------------------
(***************************************************************************)
(* The aggregate functions: an operator per class, over its members.  The  *)
(* call is "init", "incr" with a tuple t (both return the members that     *)
(* follow s) or "final" (the values that it writes).                       *)
(*                                                                         *)
(* The functions of the demonstrations read fixed places of their tuples;  *)
(* here g stands for the car, the count and the code of a tuple, v for its *)
(* position, speed, sum and angle, and id for its lane.                    *)
(***************************************************************************)
Uninitialised == Value("OTHER", 0, 0)

FloatField(t) == FloatOf(t.v, 2)
Plus(x, y)    == FloatAddFunction(x, y)
Less(x, y)    == x.num * y.den < y.num * x.den
Flag(b)       == IntOf(IF b THEN 1 ELSE 0)

IntAverageAF(call, s, t) ==
  CASE call = "init"  -> [sum |-> 0, num |-> 0]
    [] call = "incr"  -> [sum |-> s.sum + t.v, num |-> s.num + 1]
    [] call = "final" -> <<IF s.num = 0 THEN FloatOf(0, 1) ELSE FloatOf(s.sum, s.num)>>

FloatAverageAF(call, s, t) ==
  CASE call = "init"  -> [sum |-> FloatOf(0, 1), num |-> 0]
    [] call = "incr"  -> [sum |-> Plus(s.sum, FloatField(t)), num |-> s.num + 1]
    [] call = "final" -> <<IF s.num = 0 THEN FloatOf(0, 1) ELSE FloatOf(s.sum.num, s.sum.den * s.num)>>

\* Variant of IntMaxAF without the flag: the maximum starts from 0.
IntMaxFromZero(call, s, t) ==
  CASE call = "init"  -> [set_max |-> FALSE, max |-> 0]
    [] call = "incr"  -> IF t.v > s.max THEN [s EXCEPT !.max = t.v] ELSE s
    [] call = "final" -> <<IntOf(s.max)>>

IntMaxAF(call, s, t) ==
  CASE call = "init"  -> [set_max |-> FALSE, max |-> 0]
    [] call = "incr"  -> IF ~s.set_max THEN [set_max |-> TRUE, max |-> t.v]
                         ELSE IF t.v > s.max THEN [s EXCEPT !.max = t.v] ELSE s
    [] call = "final" -> <<IntOf(s.max)>>

FloatMaxAF(call, s, t) ==
  CASE call = "init"  -> [set_max |-> FALSE, max |-> FloatOf(0, 1)]
    [] call = "incr"  -> IF ~s.set_max THEN [set_max |-> TRUE, max |-> FloatField(t)]
                         ELSE IF Less(s.max, FloatField(t)) THEN [s EXCEPT !.max = FloatField(t)] ELSE s
    [] call = "final" -> <<s.max>>

IntMinAF(call, s, t) ==
  CASE call = "init"  -> [set_min |-> FALSE, min |-> 0]
    [] call = "incr"  -> IF ~s.set_min THEN [set_min |-> TRUE, min |-> t.v]
                         ELSE IF t.v < s.min THEN [s EXCEPT !.min = t.v] ELSE s
    [] call = "final" -> <<IntOf(s.min)>>

FloatMinAF(call, s, t) ==
  CASE call = "init"  -> [set_min |-> FALSE, min |-> FloatOf(0, 1)]
    [] call = "incr"  -> IF ~s.set_min THEN [set_min |-> TRUE, min |-> FloatField(t)]
                         ELSE IF Less(FloatField(t), s.min) THEN [s EXCEPT !.min = FloatField(t)] ELSE s
    [] call = "final" -> <<s.min>>

IntSumAF(call, s, t) ==
  CASE call = "init"  -> 0
    [] call = "incr"  -> s + t.v
    [] call = "final" -> <<IntOf(s)>>

FloatSumAF(call, s, t) ==
  CASE call = "init"  -> FloatOf(0, 1)
    [] call = "incr"  -> Plus(s, FloatField(t))
    [] call = "final" -> <<s>>

CountAF(call, s, t) ==
  CASE call = "init"  -> 0
    [] call = "incr"  -> s + 1
    [] call = "final" -> <<IntOf(s)>>

FloatDeltaAF(call, s, t) ==
  CASE call = "init"  -> [seenFirst |-> FALSE, first |-> Uninitialised, last |-> Uninitialised]
    [] call = "incr"  -> [seenFirst |-> TRUE, last |-> FloatField(t),
                          first |-> IF s.seenFirst THEN s.first ELSE FloatField(t)]
    [] call = "final" -> <<FloatSubtractFunction(s.last, s.first)>>

FloatFirstValueAF(call, s, t) ==
  CASE call = "init"  -> [seenFirst |-> FALSE, first |-> Uninitialised]
    [] call = "incr"  -> [seenFirst |-> TRUE, first |-> IF s.seenFirst THEN s.first ELSE FloatField(t)]
    [] call = "final" -> <<s.first>>

IntLastValueAF(call, s, t) ==
  CASE call = "init"  -> 0
    [] call = "incr"  -> t.v
    [] call = "final" -> <<IntOf(s)>>

FloatLastValueAF(call, s, t) ==
  CASE call = "init"  -> FloatOf(0, 1)
    [] call = "incr"  -> FloatField(t)
    [] call = "final" -> <<s>>

-----------------------------------------------------------------------------
(* Linear Road: has a car stopped, is there an accident, what speed has a  *)
(* segment.                                                                *)

Acc1AF(call, s, t) ==
  CASE call = "init"  -> [first |-> TRUE, stopped |-> TRUE, pos |-> Uninitialised, lane |-> Uninitialised]
    [] call = "incr"  -> IF s.first
                         THEN [s EXCEPT !.first = FALSE, !.pos = IntOf(t.v), !.lane = IntOf(t.g)]
                         ELSE [s EXCEPT !.stopped = @ /\ s.pos = IntOf(t.v) /\ s.lane = IntOf(t.g)]
    [] call = "final" -> <<s.pos, s.pos, s.pos, s.lane, Flag(s.stopped)>>

\* The first tuple is not asked whether its car stopped, and the cars of the
\* others are compared with its car only.
Acc2AF(call, s, t) ==
  CASE call = "init"  -> [first |-> TRUE, acc |-> TRUE, lane |-> Uninitialised, car |-> 0]
    [] call = "incr"  -> IF s.first
                         THEN [s EXCEPT !.first = FALSE, !.lane = IntOf(t.id), !.car = t.g]
                         ELSE [s EXCEPT !.acc = @ /\ t.v # 0 /\ s.car # t.g]
    [] call = "final" -> <<s.lane, Flag(s.acc)>>

Seg1AF(call, s, t) ==
  CASE call = "init"  -> [cnt |-> 0, sum |-> 0]
    [] call = "incr"  -> [cnt |-> s.cnt + 1, sum |-> s.sum + t.v]
    [] call = "final" -> <<IntOf(s.sum), IntOf(s.cnt)>>

\* The members of this class and the next are unsigned.
Seg2AF(call, s, t) ==
  CASE call = "init"  -> [cnt |-> 0, sum |-> 0, totcnt |-> 0]
    [] call = "incr"  -> [cnt |-> t.g, sum |-> s.sum + t.v, totcnt |-> s.totcnt + t.g]
    [] call = "final" -> <<IntOf(IF s.totcnt = 0 THEN 0 ELSE UnsignedQuotient(s.sum, s.totcnt)), IntOf(s.cnt)>>

\* A quarter of the sum, however many tuples the window had.
Seg3AF(call, s, t) ==
  CASE call = "init"  -> [sum |-> 0, lav |-> Uninitialised, cnt |-> Uninitialised]
    [] call = "incr"  -> [sum |-> s.sum + t.v, lav |-> IntOf(t.v), cnt |-> IntOf(t.g)]
    [] call = "final" -> <<s.lav, IntOf(UnsignedQuotient(s.sum, 4)), s.cnt>>

-----------------------------------------------------------------------------
(* The other demonstrations.  The tangents of Mitre2AF are left out.       *)

\* The last place, and how far it is from the one before.
Mitre1AF(call, s, t) ==
  LET Apart(x, y) == LET d == FloatSubtractFunction(x, y) IN FloatOf(Size(d.num), d.den)
  IN CASE call = "init"  -> [new |-> <<FloatOf(0, 1), FloatOf(0, 1)>>, old |-> <<FloatOf(0, 1), FloatOf(0, 1)>>]
       [] call = "incr"  -> [old |-> s.new, new |-> <<FloatField(t), FloatOf(t.g, 1)>>]
       [] call = "final" -> s.new \o <<Apart(s.new[1], s.old[1]), Apart(s.new[2], s.old[2])>>

Mitre2AF(call, s, t) ==
  CASE call = "init"  -> [angle |-> 0, prn |-> Uninitialised, ts |-> Uninitialised]
    [] call = "incr"  -> [angle |-> 90 * t.v, prn |-> IntOf(t.g), ts |-> IntOf(t.id)]
    [] call = "final" -> <<s.prn, s.ts, Flag(s.angle <= 90 \/ s.angle >= 270)>>

MitreCOMAF(call, s, t) ==
  CASE call = "init"  -> [latitude |-> 0, longitude |-> 0, num |-> 0]
    [] call = "incr"  -> [latitude |-> s.latitude + t.v, longitude |-> s.longitude + t.g, num |-> s.num + 1]
    [] call = "final" -> IF s.num = 0 THEN <<FloatOf(0, 1), FloatOf(0, 1)>>
                         ELSE <<FloatOf(s.latitude, s.num), FloatOf(s.longitude, s.num)>>

Fidelity1AF(call, s, t) ==
  CASE call = "init"  -> [cnt |-> 0, feed_exchange |-> Uninitialised]
    [] call = "incr"  -> [cnt |-> s.cnt + 1, feed_exchange |-> IntOf(t.g)]
    [] call = "final" -> <<Flag(s.cnt = 1), s.feed_exchange>>

-----------------------------------------------------------------------------
(* What the boxes make of them.                                            *)

\* The class a box takes for the name and the type of its modifier.
ByType == [AVG |-> {"i", "f"}, SUM |-> {"i", "f"}, MAX |-> {"i", "f"}, MIN |-> {"i", "f"},
           DELTA |-> {"f"}, FIRSTVAL |-> {"f"}, LASTVAL |-> {"i", "f"}]
Demos  == {"FIDELITY1", "SEG1AF", "SEG2AF", "SEG3AF", "ACC1AF", "ACC2AF",
           "MITRE1AF", "MITRE2AF", "CENTER_OF_MASS_AF"}

AggregateFunctionOf(name, type) ==
  IF name \in Demos \cup {"COUNT"} THEN <<name>>
  ELSE IF name \in DOMAIN ByType /\ type \in ByType[name] THEN <<name, type>> ELSE <<"exit">>

ResampleFunctionOf(name, type) ==
  IF name \in Demos \cup {"DELTA", "FIRSTVAL"} THEN <<"exit">> ELSE AggregateFunctionOf(name, type)

Run(fn, call, s, t) ==
  CASE fn = <<"AVG", "i">> -> IntAverageAF(call, s, t)
    [] fn = <<"AVG", "f">> -> FloatAverageAF(call, s, t)
    [] fn = <<"MAX", "i">> -> IntMaxAF(call, s, t)
    [] fn = <<"MAX", "f">> -> FloatMaxAF(call, s, t)
    [] fn = <<"MIN", "i">> -> IntMinAF(call, s, t)
    [] fn = <<"MIN", "f">> -> FloatMinAF(call, s, t)
    [] fn = <<"SUM", "i">> -> IntSumAF(call, s, t)
    [] fn = <<"SUM", "f">> -> FloatSumAF(call, s, t)
    [] fn = <<"DELTA", "f">> -> FloatDeltaAF(call, s, t)
    [] fn = <<"FIRSTVAL", "f">> -> FloatFirstValueAF(call, s, t)
    [] fn = <<"LASTVAL", "i">> -> IntLastValueAF(call, s, t)
    [] fn = <<"LASTVAL", "f">> -> FloatLastValueAF(call, s, t)
    [] fn = <<"COUNT">> -> CountAF(call, s, t)
    [] fn = <<"ACC1AF">> -> Acc1AF(call, s, t)
    [] fn = <<"ACC2AF">> -> Acc2AF(call, s, t)
    [] fn = <<"SEG1AF">> -> Seg1AF(call, s, t)
    [] fn = <<"SEG2AF">> -> Seg2AF(call, s, t)
    [] fn = <<"SEG3AF">> -> Seg3AF(call, s, t)
    [] fn = <<"MITRE1AF">> -> Mitre1AF(call, s, t)
    [] fn = <<"MITRE2AF">> -> Mitre2AF(call, s, t)
    [] fn = <<"CENTER_OF_MASS_AF">> -> MitreCOMAF(call, s, t)
    [] fn = <<"FIDELITY1">> -> Fidelity1AF(call, s, t)

\* emitTuple copies as many bytes of final as getReturnedSize says: all of
\* them, but of Acc1AF the position only, not the lane nor whether it stopped.
Emitted(fn, s) ==
  LET row == Run(fn, "final", s, Stale)
  IN IF fn = <<"ACC1AF">> THEN SubSeq(row, 1, 3) ELSE row
=============================================================================
