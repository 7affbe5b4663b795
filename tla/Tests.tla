------------------------------- MODULE Tests -------------------------------
(***************************************************************************)
(* The test, [ and [[ built-ins of shell.c: recursive descent over the      *)
(* argument list.  What a single primary says of strings, numbers, files    *)
(* and patterns is given by the constants; the module models how the list   *)
(* is cut into primaries, how the connectives combine their statuses        *)
(* (0 true, 1 false, 2 error), what [[ skips, and BASH_REMATCH.             *)
(***************************************************************************)
EXTENDS Integers, Sequences

CONSTANTS UnaryTrue,      \* pairs <<operator, argument>> a unary test accepts
          BinaryTrue,     \* triples for string order and file comparisons
          Numbers,        \* the arguments strtol accepts, with their values
          GlobMatches,    \* pairs <<text, pattern>> fnmatch accepts
          RegexMatches,   \* pairs <<text, regex>> regexec accepts
          BadRegexes      \* what regcomp rejects
ASSUME TestConstantsAssumption ==
         /\ \A w \in DOMAIN Numbers : Numbers[w] \in Int
         /\ \A pair \in UnaryTrue \cup GlobMatches \cup RegexMatches : Len(pair) = 2

NumericOps == {"-eq", "-ne", "-lt", "-le", "-gt", "-ge"}
\* The operators the look-ahead of test_eval_not recognises.
LookAheadOps == NumericOps \cup {"=", "!=", "<", ">", "-nt", "-ot", "-ef"}

Status(b) == IF b THEN 0 ELSE 1
Negated(s) == IF s = 0 THEN 1 ELSE 0
First(ws) == IF ws = <<>> THEN "end" ELSE ws[1]

NumericTest(op, a, b) ==
  CASE op = "-eq" -> a = b [] op = "-ne" -> a # b [] op = "-lt" -> a < b
    [] op = "-le" -> a <= b [] op = "-gt" -> a > b [] op = "-ge" -> a >= b

\* The binary primaries; an operator that is none of them is simply false.
BinaryPrimary(l, op, r) ==
  CASE op \in {"=", "=="} -> Status(l = r)
    [] op = "!=" -> Status(l # r)
    [] op \in NumericOps ->
         IF {l, r} \subseteq DOMAIN Numbers
         THEN Status(NumericTest(op, Numbers[l], Numbers[r])) ELSE 2
    [] OTHER -> Status(<<l, op, r>> \in BinaryTrue)

\* (The ! of test_primary is out of reach: both callers take ! before it.)
TestPrimary(ws) ==
  CASE Len(ws) = 0 -> 2
    [] Len(ws) = 1 -> Status(ws[1] # "")
    [] Len(ws) = 2 -> Status(<<ws[1], ws[2]>> \in UnaryTrue)
    [] Len(ws) = 3 -> BinaryPrimary(ws[1], ws[2], ws[3])
    [] OTHER -> 1

-----------------------------------------------------------------------------
(* test: nothing is skipped, every operand is evaluated; an error ends the    *)
(* evaluation.  A result is the status and the arguments left.               *)

RECURSIVE TestEval(_), TestOrRest(_), TestAnd(_), TestAndRest(_), TestNot(_),
          CollectPrimary(_, _)

Result(s, rest) == [s |-> s, rest |-> rest]

TestEval(ws) == TestOrRest(TestAnd(ws))
TestOrRest(l) ==
  LET r == TestAnd(Tail(l.rest))
  IN IF l.s > 1 \/ First(l.rest) # "-o" THEN l
     ELSE IF r.s > 1 THEN r
     ELSE TestOrRest(Result(Status(l.s = 0 \/ r.s = 0), r.rest))

TestAnd(ws) == TestAndRest(TestNot(ws))
TestAndRest(l) ==
  LET r == TestNot(Tail(l.rest))
  IN IF l.s > 1 \/ First(l.rest) # "-a" THEN l
     ELSE IF r.s > 1 THEN r
     ELSE TestAndRest(Result(Status(l.s = 0 /\ r.s = 0), r.rest))

\* The arguments of a primary: up to the next connective or closing
\* parenthesis, at most 15, with a look-ahead of two after the first.
CollectPrimary(got, ws) ==
  IF First(ws) \in {"end", "-a", "-o", ")"} \/ Len(got) >= 15 THEN <<got, ws>>
  ELSE IF Len(got) = 1 /\ Len(ws) >= 3 /\ ws[2] \in LookAheadOps
  THEN <<got \o SubSeq(ws, 1, 3), SubSeq(ws, 4, Len(ws))>>
  ELSE CollectPrimary(Append(got, ws[1]), Tail(ws))

TestNot(ws) ==
  IF First(ws) = "!"
  THEN LET v == TestNot(Tail(ws))
       IN IF v.s > 1 THEN v ELSE Result(Negated(v.s), v.rest)
  ELSE IF First(ws) = "("
  THEN LET g == TestEval(Tail(ws))
       IN IF g.s > 1 THEN g
          ELSE IF First(g.rest) # ")" THEN Result(2, g.rest)
          ELSE Result(g.s, Tail(g.rest))
  ELSE LET c == CollectPrimary(<<>>, ws)
       IN Result(IF c[1] = <<>> THEN 2 ELSE TestPrimary(c[1]), c[2])

CommandTest(ws) ==
  LET r == TestEval(ws)
  IN IF ws = <<>> THEN 1 ELSE IF r.s <= 1 /\ r.rest # <<>> THEN 2 ELSE r.s
CommandLbracket(ws) ==
  IF ws = <<>> \/ ws[Len(ws)] # "]" THEN 2 ELSE CommandTest(SubSeq(ws, 1, Len(ws) - 1))

-----------------------------------------------------------------------------
(* [[: && and || skip what they do not need; bm is BASH_REMATCH.             *)

\* double_bracket_primary_eval: <<status, BASH_REMATCH>>.
DoubleBracketPrimary(ws) ==
  LET binary == Len(ws) = 3
  IN IF binary /\ ws[2] \in {"==", "="} THEN <<Status(<<ws[1], ws[3]>> \in GlobMatches), "">>
     ELSE IF binary /\ ws[2] = "!=" THEN <<Status(<<ws[1], ws[3]>> \notin GlobMatches), "">>
     ELSE IF binary /\ ws[2] = "=~"
     THEN IF ws[3] \in BadRegexes THEN <<2, "">>
          ELSE IF <<ws[1], ws[3]>> \in RegexMatches THEN <<0, ws[1]>> ELSE <<1, "">>
     ELSE <<TestPrimary(ws), "">>

\* Where a primary ends: at a connective or a parenthesis that closes none
\* of its own, and for an evaluated one after at most lim arguments.
RECURSIVE PrimaryEnd(_, _, _, _)
PrimaryEnd(ws, i, depth, lim) ==
  IF \/ i > Len(ws) \/ i > lim
     \/ depth = 0 /\ ws[i] \in {"&&", "||", ")"}
  THEN i - 1
  ELSE PrimaryEnd(ws, i + 1, CASE ws[i] = "(" -> depth + 1
                               [] ws[i] = ")" /\ depth > 0 -> depth - 1
                               [] OTHER -> depth, lim)
Drop(ws, n) == SubSeq(ws, n + 1, Len(ws))

RECURSIVE SkipPrimary(_), SkipAnd(_), SkipOr(_), SkipRest(_, _, _)
\* A skip is <<failed, arguments left>>.
SkipPrimary(ws) ==
  IF ws = <<>> THEN <<TRUE, ws>>
  ELSE IF ws[1] = "!" THEN SkipPrimary(Tail(ws))
  ELSE IF ws[1] = "("
  THEN LET g == SkipOr(Tail(ws))
       IN IF g[1] THEN g ELSE IF First(g[2]) # ")" THEN <<TRUE, g[2]>>
          ELSE <<FALSE, Tail(g[2])>>
  ELSE <<FALSE, Drop(ws, PrimaryEnd(ws, 1, 0, Len(ws)))>>
SkipRest(k, op, l) ==
  IF l[1] \/ First(l[2]) # op THEN l
  ELSE SkipRest(k, op, IF k = "and" THEN SkipPrimary(Tail(l[2])) ELSE SkipAnd(Tail(l[2])))
\* Mutant: || skips one primary, not the whole conjunction after it.
SkipOnePrimary(ws) == SkipPrimary(ws)
SkipAnd(ws) == SkipRest("and", "&&", SkipPrimary(ws))
SkipOr(ws) == SkipRest("or", "||", SkipAnd(ws))

RECURSIVE BracketOr(_, _), BracketOrRest(_), BracketAnd(_, _), BracketAndRest(_), BracketNot(_, _)
Evaluated(s, rest, bm) == [s |-> s, rest |-> rest, bm |-> bm]
Broken(l, rest) == [l EXCEPT !.s = 2, !.rest = rest]

\* An error of the first operand ends the evaluation; one of a later
\* operand is a status that the next operand replaces.
BracketOr(ws, bm) ==
  LET l == BracketAnd(ws, bm) IN IF l.s = 2 THEN l ELSE BracketOrRest(l)
BracketOrRest(l) ==
  IF First(l.rest) # "||" THEN l
  ELSE LET k == SkipAnd(Tail(l.rest))
       IN IF l.s # 0 THEN BracketOrRest(BracketAnd(Tail(l.rest), l.bm))
          ELSE IF k[1] THEN Broken(l, k[2]) ELSE BracketOrRest([l EXCEPT !.rest = k[2]])

BracketAnd(ws, bm) ==
  LET l == BracketNot(ws, bm) IN IF l.s = 2 THEN l ELSE BracketAndRest(l)
BracketAndRest(l) ==
  IF First(l.rest) # "&&" THEN l
  ELSE LET k == SkipPrimary(Tail(l.rest))
       IN IF l.s = 0 THEN BracketAndRest(BracketNot(Tail(l.rest), l.bm))
          ELSE IF k[1] THEN Broken(l, k[2]) ELSE BracketAndRest([l EXCEPT !.rest = k[2]])

BracketNot(ws, bm) ==
  IF ws = <<>> THEN Evaluated(2, ws, bm)
  ELSE IF ws[1] = "!"
  THEN LET v == BracketNot(Tail(ws), bm)
       IN IF v.s = 2 THEN v ELSE [v EXCEPT !.s = Negated(@)]
  ELSE IF ws[1] = "("
  THEN LET g == BracketOr(Tail(ws), bm)
       IN IF g.s = 2 THEN g
          ELSE IF First(g.rest) # ")" THEN Broken(g, g.rest)
          ELSE [g EXCEPT !.rest = Tail(@)]
  ELSE LET n == PrimaryEnd(ws, 1, 0, 16)
           r == DoubleBracketPrimary(SubSeq(ws, 1, n))
       IN IF n = 0 THEN Evaluated(2, ws, bm) ELSE Evaluated(r[1], Drop(ws, n), r[2])

\* <<status, BASH_REMATCH>> of [[ ws.
CommandDoubleLbracket(ws, bm) ==
  LET body == SubSeq(ws, 1, Len(ws) - 1)
      r == BracketOr(body, bm)
  IN IF ws = <<>> \/ ws[Len(ws)] # "]]" THEN <<2, bm>>
     ELSE IF body = <<>> THEN <<1, bm>>
     ELSE <<IF r.s # 2 /\ r.rest # <<>> THEN 2 ELSE r.s, r.bm>>

-----------------------------------------------------------------------------
(* The reference: an expression as a tree, its arguments, and its meaning.   *)
(* <<"prim", arguments>>, <<"not", t>>, <<"and", l, r>>, <<"or", l, r>>.       *)

Rank(t) == CASE t[1] = "or" -> 1 [] t[1] = "and" -> 2 [] OTHER -> 3
RECURSIVE Arguments(_, _, _), TestMeaning(_), BracketMeaning(_, _)
Arguments(t, and, or) ==
  LET Grouped(u) == IF Rank(u) < Rank(t) THEN <<"(">> \o Arguments(u, and, or) \o <<")">>
                    ELSE Arguments(u, and, or)
  IN CASE t[1] = "prim" -> t[2]
       [] t[1] = "not" -> <<"!">> \o Grouped(t[2])
       [] t[1] = "and" -> Grouped(t[2]) \o <<and>> \o Grouped(t[3])
       [] t[1] = "or" -> Grouped(t[2]) \o <<or>> \o Grouped(t[3])

TestMeaning(t) ==
  CASE t[1] = "prim" -> TestPrimary(t[2])
    [] t[1] = "not" -> LET v == TestMeaning(t[2]) IN IF v = 2 THEN 2 ELSE Negated(v)
    [] OTHER ->
         LET l == TestMeaning(t[2])
             r == TestMeaning(t[3])
         IN IF 2 \in {l, r} THEN 2
            ELSE Status(IF t[1] = "and" THEN l = 0 /\ r = 0 ELSE l = 0 \/ r = 0)

\* With short-circuit: <<status, BASH_REMATCH>>.
BracketMeaning(t, bm) ==
  CASE t[1] = "prim" -> DoubleBracketPrimary(t[2])
    [] t[1] = "not" -> LET v == BracketMeaning(t[2], bm) IN <<Negated(v[1]), v[2]>>
    [] OTHER -> LET l == BracketMeaning(t[2], bm)
                IN IF (l[1] = 0) = (t[1] = "or") THEN l ELSE BracketMeaning(t[3], l[2])
=============================================================================
