------------------------------ MODULE MCWords ------------------------------
EXTENDS Words

\* Words: one or two of these parts.
Par(name, op, colon, long, arg, repl) ==
  <<"par", [name |-> name, sub |-> "", keys |-> FALSE, op |-> op, colon |-> colon,
            long |-> long, arg |-> arg, repl |-> repl]>>
Plain(name) == Par(name, "", FALSE, FALSE, <<>>, <<>>)
Sub(sub, keys, op) ==
  <<"par", [name |-> "m", sub |-> sub, keys |-> keys, op |-> op, colon |-> FALSE,
            long |-> FALSE, arg |-> <<>>, repl |-> <<>>]>>
MCParts ==
  {<<"lit", "a">>, <<"lit", " ">>, <<"lit", "*">>, <<"lit", "/">>, <<"esc", "*">>, <<"tilde">>,
   <<"sq", <<>> >>, <<"sq", <<" ", "a">> >>, <<"dq", <<Plain("x"), <<"esc", "n">>, <<"esc", "$">> >> >>,
   <<"dq", <<Plain("@"), <<"lit", " ">> >> >>,
   Plain("x"), Plain("y"), Plain("r"), Plain("@"), Plain("1"), Plain("?"), Sub("@", FALSE, ""),
   Sub("k", FALSE, ""), Sub("@", TRUE, ""), Sub("@", FALSE, "len"), Par("x", "len", FALSE, FALSE, <<>>, <<>>),
   <<"arith", <<"x", "+", "7">> >>, <<"arith", <<"1", "/", "0">> >>,
   <<"cmd", 0, <<"a", ":", "b", "\n", "\n">> >>, <<"cmd", 1, <<"a">> >>}
MCPatterns == UNION {[1..n -> {"*", "?", "a", "b"}] : n \in 0..3} \cup {<<"\\", "*">>}
MCOperators ==
  {Par("x", op, FALSE, l, p, <<"z">>) : op \in {"#", "%", "/"}, l \in BOOLEAN, p \in MCPatterns}
  \cup {Par(n, op, c, FALSE, <<"b", " ">>, <<>>) : n \in {"x", "y", "r", "1"}, op \in {"-", "=", "+", "?"}, c \in BOOLEAN}
MCWordForms == {<<p>> : p \in MCParts \cup MCOperators}
               \cup {<<p, q>> : p, q \in MCParts}

\* The variables: x some text, y unset or set, r a nameref or a cycle of them.
MCTexts == {<<>>, <<"a">>, <<" ", "a", " ", " ", "b">>, <<"a", ":", ":", " ", "b", ":">>,
            <<"a", "b", "a", "b">>, <<"*">>, <<"2">>}
MCIfs == {<<>>, <<" ">>, <<":", " ">>}
MCVars ==
  {("x" :> Text(t)) @@ ("IFS" :> Text(i)) @@ ("r" :> <<"ref", "x">>) : t \in MCTexts, i \in MCIfs}
  \cup {("x" :> Text(<<"a", " ", "b">>)) @@ ("y" :> <<"ref", "r">>) @@ ("r" :> <<"ref", "y">>)
          @@ ("HOME" :> Text(<<"/", "a">>)),
        ("x" :> Text(<<"b">>)) @@ ("y" :> Text(<<>>)) @@ ("r" :> <<"ref", "y">>)}
MCNoVars == "x" :> Text(<<>>)

\* The arguments of getopts and its option strings.
MCArgLists ==
  {<<>>, << <<"-", "a", "b">>, <<"-", "c">>, <<"w">> >>, << <<"-", "c", "b">>, <<"-", "-">>, <<"-", "a">> >>,
   << <<"-", "a">>, <<"-", "z", "a">>, <<"-", "c">> >>, << <<"-", "b", "a", "c">>, <<"-", "a">>, <<"-">> >>}
MCOptStrings == {[silent |-> s, flags |-> {"a", "b", "c"}, valued |-> {"c"}] : s \in BOOLEAN}

MCScript(kind, v, u, ps, o, in) ==
  [kind |-> kind, vars |-> v, nounset |-> u, params |-> ps, spec |-> o, input |-> in]
MCSpecOne == [silent |-> FALSE, flags |-> {"a"}, valued |-> {}]
MCInputs == UNION {[1..n -> {"a", " ", "\\", "\n", ":"}] : n \in 0..4}
            \cup {[k \in 1..n |-> IF k \in {s, s + 1} THEN c ELSE "a"] :
                    n \in 6..10, s \in 0..9, c \in {" ", ":", "\\"}}
MCScripts ==
  {MCScript("words", v, u, << <<"a", " ">>, <<"b">> >>, MCSpecOne, <<>>) : v \in MCVars, u \in BOOLEAN}
  \cup {MCScript("read", ("IFS" :> Text(i)) @@ MCNoVars, FALSE, <<>>, MCSpecOne, in) : i \in MCIfs, in \in MCInputs}
  \cup {MCScript(k, MCNoVars, FALSE, <<>>, MCSpecOne, <<>>) : k \in {"arith", "tests"}}
  \cup {MCScript("options", MCNoVars, FALSE, a, o, <<>>) : a \in MCArgLists, o \in MCOptStrings}

\* Expressions: every pair of operators in both shapes, unary leaves, and a
\* conditional over an operator.
MCLeaves == {<<"leaf", <<"0">>, 0>>, <<"leaf", <<"3">>, 3>>, <<"leaf", <<"-", "x">>, -2>>}
MCArithTrees ==
  {<<"bin", p, a, <<"bin", q, b, c>> >> : p, q \in BinaryOps, a, b, c \in MCLeaves}
  \cup {<<"bin", p, <<"bin", q, a, b>>, c>> : p, q \in BinaryOps, a, b, c \in MCLeaves}
  \cup {<<"cond", <<"bin", p, a, b>>, <<"bin", q, b, a>>, <<"leaf", <<"!", "$", "x">>, 0>> >> :
          p, q \in BinaryOps, a, b \in MCLeaves}
  \cup {<<"bin", "/", <<"bin", "<<", <<"leaf", <<"1">>, 1>>, <<"leaf", <<"7">>, 7>> >>,
          <<"leaf", <<"-", "1">>, -1>> >>,
        <<"bin", "-", <<"leaf", <<"$", "1">>, 0>>, <<"leaf", <<"3">>, 3>> >>,
        <<"bin", "+", <<"leaf", <<"$", "2", "x">>, 0>>, <<"leaf", <<"y">>, 0>> >>,
        <<"bin", "*", <<"leaf", <<"$", "(", "(", "x", "+", "1", ")", ")">>, 3>>,
          <<"leaf", <<"~", "(", "2", ")">>, -3>> >>}

\* Conditions: trees of three primaries.
MCPrims == {<<"prim", w>> : w \in {<<"a">>, <<"">>, <<"2", "-gt", "1">>, <<"t", "=~", "re">>, <<"-n", "t">>}}
MCErrors == {<<"prim", <<"a", "-eq", "1">> >>}
Pairs(S) == {<<k, a, b>> : k \in {"and", "or"}, a, b \in S}
MCTestTrees ==
  LET once == Pairs(MCPrims \cup MCErrors)
      some == MCPrims \cup {<<"not", <<"prim", <<"t", "=~", "re">> >> >>}
  IN MCPrims \cup MCErrors \cup once \cup {<<"not", t>> : t \in once}
     \cup {<<k, a, b>> : k \in {"and", "or"}, a \in some, b \in Pairs(some)}
     \cup {<<k, b, a>> : k \in {"and", "or"}, a \in some, b \in Pairs(some)}
     \cup {<<k, <<"not", b>>, a>> : k \in {"and", "or"}, a \in some, b \in Pairs(some)}
MCUnaryTrue == {<<"-n", "t">>}
MCBinaryTrue == {<<"a", "<", "t">>}
MCNumbers == ("1" :> 1) @@ ("2" :> 2)
MCGlobMatches == {<<"a", "a">>}
MCRegexMatches == {<<"t", "re">>}
MCBadRegexes == {"("}

MCDirectory == << <<"a">>, <<"a", " ", "b">>, <<"b">> >>
MCAssoc == "m" :> << <<"l", <<>> >>, <<"k", <<"a", " ">> >> >>
MCSpecials == "?" :> <<"0">>
=============================================================================
