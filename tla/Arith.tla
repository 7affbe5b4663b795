------------------------------- MODULE Arith -------------------------------
(***************************************************************************)
(* Arithmetic expansion $(( )) of expand.c: the recursive-descent           *)
(* evaluator over the text of the expression.  A text is a sequence of      *)
(* one-character tokens, except that a numeral and a name are one token     *)
(* each; operators stay split into characters, since the evaluator decides  *)
(* between < and <<, & and &&, * and ** by looking one character ahead.     *)
(***************************************************************************)
EXTENDS Integers, Sequences

CONSTANT Width                 \* the width of long long
ASSUME WidthAssumption == Width \in Nat \ {0, 1}

LOCAL INSTANCE Bitwise

\* A long long: the value reduced to Width bits, two's complement.
Wrap(n) == ((n + 2^(Width - 1)) % 2^Width) - 2^(Width - 1)
Unsigned(n) == n % 2^Width
MinLong == -(2^(Width - 1))

NumeralValue == [t \in {"0", "1", "2", "3", "7"} |->
                   CASE t = "0" -> 0 [] t = "1" -> 1 [] t = "2" -> 2
                     [] t = "3" -> 3 [] t = "7" -> 7]

At(c, p) == IF p <= Len(c.expr) THEN c.expr[p] ELSE "end"

RECURSIVE SkipWs(_, _)
SkipWs(c, p) == IF At(c, p) = " " THEN SkipWs(c, p + 1) ELSE p

Ok(v, p) == [v |-> v, p |-> p, err |-> "none"]
Fail(p) == [v |-> 0, p |-> p, err |-> "error"]
\* The smallest number divided by -1 raises SIGFPE: the shell dies.
Trap(p) == [v |-> 0, p |-> p, err |-> "trap"]

Truth(b) == IF b THEN 1 ELSE 0

\* C division truncates towards zero.
Magnitude(n) == IF n < 0 THEN -n ELSE n
Quotient(a, b) == IF (a < 0) = (b < 0) THEN Magnitude(a) \div Magnitude(b)
                  ELSE -(Magnitude(a) \div Magnitude(b))

DivideStep(op, a, b, p) ==
  CASE op = "*" -> Ok(Wrap(a * b), p)
    [] op # "*" /\ b = 0 -> Fail(p)
    [] op # "*" /\ a = MinLong /\ b = -1 -> Trap(p)
    [] op = "/" /\ b # 0 /\ ~(a = MinLong /\ b = -1) -> Ok(Quotient(a, b), p)
    [] op = "%" /\ b # 0 /\ ~(a = MinLong /\ b = -1) -> Ok(a - b * Quotient(a, b), p)

\* The machine takes a shift count modulo the width.
ShiftStep(op, a, b) ==
  LET n == b % Width IN IF op = "<<" THEN Wrap(a * 2^n) ELSE a \div 2^n

CompareStep(op, a, b) ==
  Truth(CASE op = "<=" -> a <= b [] op = ">=" -> a >= b
          [] op = "<" -> a < b [] op = ">" -> a > b
          [] op = "==" -> a = b [] op = "!=" -> a # b)

BitStep(op, a, b) ==
  LET x == Unsigned(a)
      y == Unsigned(b)
  IN Wrap(CASE op = "&" -> x & y [] op = "|" -> x | y [] op = "^" -> x ^^ y)

\* What a binary operator of the ten left-associative levels does with its
\* operands.  Both are already evaluated: && and || do not short-circuit.
Apply(op, a, b, p) ==
  CASE op \in {"*", "/", "%"} -> DivideStep(op, a, b, p)
    [] op = "+" -> Ok(Wrap(a + b), p)
    [] op = "-" -> Ok(Wrap(a - b), p)
    [] op \in {"<<", ">>"} -> Ok(ShiftStep(op, a, b), p)
    [] op \in {"<=", ">=", "<", ">", "==", "!="} -> Ok(CompareStep(op, a, b), p)
    [] op \in {"&", "|", "^"} -> Ok(BitStep(op, a, b), p)
    [] op = "&&" -> Ok(Truth(a # 0 /\ b # 0), p)
    [] op = "||" -> Ok(Truth(a # 0 \/ b # 0), p)

RECURSIVE PowInt(_, _)
PowInt(base, n) == IF n = 0 THEN 1 ELSE Wrap(base * PowInt(base, n - 1))

-----------------------------------------------------------------------------
(* Which operator of a level stands at position p, as <<operator, length>>;  *)
(* NoOp when the level's loop breaks.                                        *)

NoOp == <<"", 0>>
OneOf(c, p, ops) == IF At(c, p) \in ops THEN <<At(c, p), 1>> ELSE NoOp
Pair(c, p, a, b, op) == IF At(c, p) = a /\ At(c, p + 1) = b THEN <<op, 2>> ELSE NoOp
FirstOp(x, y) == IF x # NoOp THEN x ELSE y

LogicalOrOp(c, p) == Pair(c, p, "|", "|", "||")
LogicalAndOp(c, p) == Pair(c, p, "&", "&", "&&")
BitwiseOrOp(c, p) == IF At(c, p + 1) = "|" THEN NoOp ELSE OneOf(c, p, {"|"})
BitwiseXorOp(c, p) == OneOf(c, p, {"^"})
\* Mutant: & is taken without a look at the next character.
BitwiseAndGreedy(c, p) == OneOf(c, p, {"&"})
BitwiseAndOp(c, p) == IF At(c, p + 1) = "&" THEN NoOp ELSE OneOf(c, p, {"&"})
EqualityOp(c, p) == FirstOp(Pair(c, p, "=", "=", "=="), Pair(c, p, "!", "=", "!="))
ComparisonOp(c, p) ==
  FirstOp(FirstOp(Pair(c, p, "<", "=", "<="), Pair(c, p, ">", "=", ">=")),
          IF At(c, p + 1) = At(c, p) THEN NoOp ELSE OneOf(c, p, {"<", ">"}))
ShiftOp(c, p) == FirstOp(Pair(c, p, "<", "<", "<<"), Pair(c, p, ">", ">", ">>"))
AdditiveOp(c, p) == OneOf(c, p, {"+", "-"})
MultiplicativeOp(c, p) == OneOf(c, p, {"*", "/", "%"})

OpAt(k, c, p) ==
  CASE k = 1 -> LogicalOrOp(c, p) [] k = 2 -> LogicalAndOp(c, p)
    [] k = 3 -> BitwiseOrOp(c, p) [] k = 4 -> BitwiseXorOp(c, p)
    [] k = 5 -> BitwiseAndOp(c, p) [] k = 6 -> EqualityOp(c, p)
    [] k = 7 -> ComparisonOp(c, p) [] k = 8 -> ShiftOp(c, p)
    [] k = 9 -> AdditiveOp(c, p) [] k = 10 -> MultiplicativeOp(c, p)
LastLevel == 10

-----------------------------------------------------------------------------
(* The evaluator.                                                            *)

RECURSIVE ArithTernary(_, _), ArithLevel(_, _, _), ArithRest(_, _, _),
          ArithPower(_, _), ArithUnary(_, _), ArithPrimary(_, _),
          NestedEnd(_, _, _), EvaluateArith(_)

\* Each level reads its first operand and hands the result on: an error, or
\* the value and the place to go on from.
\* arith_parse_nested_expansion: where the )) that closes a $(( stands.
NestedEnd(c, q, depth) ==
  IF q > Len(c.expr) THEN 0
  ELSE IF At(c, q) = "$" /\ At(c, q + 1) = "(" /\ At(c, q + 2) = "("
  THEN NestedEnd(c, q + 3, depth + 1)
  ELSE IF At(c, q) = ")" /\ At(c, q + 1) = ")"
  THEN IF depth = 1 THEN q ELSE NestedEnd(c, q + 2, depth - 1)
  ELSE NestedEnd(c, q + 1, depth)

\* A name or a numeral is a run of letters and digits; these are neither.
Symbols == {"(", ")", "+", "-", "*", "/", "%", "<", ">", "=", "!", "&", "|", "^", "~", "?", ":",
            "$", " ", "\n", ",", ".", ";", "#", "@", "[", "]", "{", "}", "\"", "\\", "end"}
RunEnd(c, p) == CHOOSE q \in p..(Len(c.expr) + 1) :
                  At(c, q) \in Symbols /\ \A k \in p..(q - 1) : At(c, k) \notin Symbols

VariableValue(c, name) == IF name \in DOMAIN c.env THEN c.env[name] ELSE 0


\* name or $name: the whole run is taken, after a $ even one that begins with
\* a digit or is empty; what is not set reads as 0.
Reference(c, p) ==
  Ok(IF RunEnd(c, p) = p + 1 THEN VariableValue(c, At(c, p)) ELSE 0, RunEnd(c, p))

InParentheses(c, r) ==
  LET q == SkipWs(c, r.p)
  IN IF r.err # "none" THEN r
     ELSE IF At(c, q) = ")" THEN Ok(r.v, q + 1) ELSE Fail(q)
InExpansion(r, q) == IF r.err # "none" THEN [r EXCEPT !.p = q] ELSE Ok(r.v, q + 2)

ArithPrimary(c, p0) ==
  LET p == SkipWs(c, p0)
      t == At(c, p)
      q == NestedEnd(c, p + 3, 1)
      nested == t = "$" /\ At(c, p + 1) = "(" /\ At(c, p + 2) = "("
  IN CASE t = "end" -> Fail(p)
       [] t = "(" -> InParentheses(c, ArithTernary(c, p + 1))
       [] nested ->
            IF q = 0 THEN Fail(p)
            ELSE InExpansion(EvaluateArith([c EXCEPT !.expr = SubSeq(@, p + 3, q - 1)]), q)
       [] t = "$" /\ ~nested -> Reference(c, p + 1)
       [] t \notin Symbols \cup DOMAIN NumeralValue -> Reference(c, p)
       [] t \in DOMAIN NumeralValue -> Ok(NumeralValue[t], p + 1)
       [] OTHER -> Fail(p)

Signed(t, r) ==
  IF r.err # "none" THEN r
  ELSE Ok(CASE t = "-" -> Wrap(-r.v) [] t = "+" -> r.v
            [] t = "!" -> Truth(r.v = 0) [] t = "~" -> -r.v - 1, r.p)
ArithUnary(c, p0) ==
  LET p == SkipWs(c, p0)
      t == At(c, p)
  IN IF t \notin {"-", "+", "!", "~"} THEN ArithPrimary(c, p)
     ELSE Signed(t, ArithUnary(c, p + 1))

\* ** is right-associative; its operands are unary expressions.
Raised(l, r) ==
  IF r.err # "none" THEN r
  ELSE IF r.v < 0 THEN Fail(r.p) ELSE Ok(PowInt(l.v, r.v), r.p)
PowerRest(c, l) ==
  LET q == SkipWs(c, l.p)
  IN IF l.err # "none" THEN l
     ELSE IF At(c, q) = "*" /\ At(c, q + 1) = "*" THEN Raised(l, ArithPower(c, q + 2))
     ELSE Ok(l.v, q)
ArithPower(c, p) == PowerRest(c, ArithUnary(c, p))

ArithLevel(k, c, p) ==
  IF k > LastLevel THEN ArithPower(c, p)
  ELSE ArithRest(k, c, ArithLevel(k + 1, c, p))

Combined(op, l, r) == IF r.err # "none" THEN r ELSE Apply(op, l.v, r.v, r.p)
ArithRest(k, c, l) ==
  LET q == SkipWs(c, l.p)
      o == OpAt(k, c, q)
  IN IF l.err # "none" THEN l
     ELSE IF o = NoOp THEN Ok(l.v, q)
     ELSE ArithRest(k, c, Combined(o[1], l, ArithLevel(k + 1, c, q + o[2])))

\* Both branches are evaluated, and neither may be a conditional itself.
Chosen(n, t, f) ==
  IF f.err # "none" THEN f ELSE Ok(IF n.v # 0 THEN t.v ELSE f.v, f.p)
TernaryElse(c, n, t) ==
  LET u == SkipWs(c, t.p)
  IN IF t.err # "none" THEN t
     ELSE IF At(c, u) # ":" THEN Fail(u) ELSE Chosen(n, t, ArithLevel(1, c, u + 1))
TernaryThen(c, n) ==
  LET q == SkipWs(c, n.p)
  IN IF n.err # "none" THEN n
     ELSE IF At(c, q) # "?" THEN Ok(n.v, q) ELSE TernaryElse(c, n, ArithLevel(1, c, q + 1))
ArithTernary(c, p) == TernaryThen(c, ArithLevel(1, c, p))

WholeText(c, r) ==
  IF r.err # "none" THEN r
  ELSE IF SkipWs(c, r.p) <= Len(c.expr) THEN Fail(r.p) ELSE r
EvaluateArith(c) == WholeText(c, ArithTernary(c, 1))

-----------------------------------------------------------------------------
(* The reference: a tree, its value, and its text with the parentheses that  *)
(* C's precedence makes necessary.                                           *)

Precedence(op) ==
  CASE op = "||" -> 1 [] op = "&&" -> 2 [] op = "|" -> 3 [] op = "^" -> 4
    [] op = "&" -> 5 [] op \in {"==", "!="} -> 6 [] op \in {"<", "<=", ">", ">="} -> 7
    [] op \in {"<<", ">>"} -> 8 [] op \in {"+", "-"} -> 9
    [] op \in {"*", "/", "%"} -> 10 [] op = "**" -> 11
BinaryOps == {"||", "&&", "|", "^", "&", "==", "!=", "<", "<=", ">", ">=", "<<", ">>",
              "+", "-", "*", "/", "%", "**"}
Spelling(op) ==
  CASE op = "||" -> <<"|", "|">> [] op = "&&" -> <<"&", "&">> [] op = "==" -> <<"=", "=">>
    [] op = "!=" -> <<"!", "=">> [] op = "<=" -> <<"<", "=">> [] op = ">=" -> <<">", "=">>
    [] op = "<<" -> <<"<", "<">> [] op = ">>" -> <<">", ">">> [] op = "**" -> <<"*", "*">>
    [] OTHER -> <<op>>

\* A tree is <<"leaf", text, value>>, <<"bin", op, left, right>> or
\* <<"cond", c, t, f>>.
RECURSIVE TreeValue(_), TreeText(_, _)
TreeValue(t) ==
  CASE t[1] = "leaf" -> Ok(t[3], 0)
    [] t[1] = "bin" ->
         LET l == TreeValue(t[3])
             r == TreeValue(t[4])
         IN IF l.err # "none" THEN l
            ELSE IF r.err # "none" THEN r
            ELSE IF t[2] # "**" THEN Apply(t[2], l.v, r.v, 0)
            ELSE IF r.v < 0 THEN Fail(0) ELSE Ok(PowInt(l.v, r.v), 0)
    [] t[1] = "cond" ->
         LET n == TreeValue(t[2])
             a == TreeValue(t[3])
             b == TreeValue(t[4])
         IN IF n.err # "none" THEN n ELSE IF a.err # "none" THEN a
            ELSE IF b.err # "none" THEN b ELSE IF n.v # 0 THEN a ELSE b

Bracketed(s) == <<"(">> \o s \o <<")">>
NeedsBrackets(op, child, right) ==
  \/ child[1] = "cond"
  \/ /\ child[1] = "bin"
     /\ \/ Precedence(child[2]) < Precedence(op)
        \/ Precedence(child[2]) = Precedence(op) /\ (right # (op = "**"))
TreeText(t, sep) ==
  CASE t[1] = "leaf" -> t[2]
    [] t[1] = "bin" ->
         LET Side(u, right) == IF NeedsBrackets(t[2], u, right)
                               THEN Bracketed(TreeText(u, sep)) ELSE TreeText(u, sep)
         IN Side(t[3], FALSE) \o sep \o Spelling(t[2]) \o sep \o Side(t[4], TRUE)
    [] t[1] = "cond" ->
         LET Part(u) == IF u[1] = "cond" THEN Bracketed(TreeText(u, sep)) ELSE TreeText(u, sep)
         IN Part(t[2]) \o <<"?">> \o Part(t[3]) \o <<":">> \o Part(t[4])
=============================================================================
