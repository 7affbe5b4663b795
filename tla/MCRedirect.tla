---------------------------- MODULE MCRedirect ----------------------------
EXTENDS Redirect

W(op, n, m, word) == [op |-> op, n |-> n, m |-> m, word |-> word]
\* One of each operator; "missing" cannot be opened, "empty" is a text of length 0.
Every == {W("<", 0, 0, "a"), W(">", 0, 0, "a"), W(">>", 0, 0, "a"), W("2>", 0, 0, "b"), W("2>>", 0, 0, "b"),
  W("2>&1", 0, 0, "a"), W("<<", 0, 0, "empty"), W("<<", 0, 0, "doc"), W("n<", 0, 0, "missing"), W("n>", 3, 0, "b"),
  W("n>>", 4, 0, "b"), W("n>&m", 1, 2, "a"), W("n<&m", 0, 3, "a"), W("n>&-", 0, 0, "a")}
\* The ones every interleaving of two commands is checked with.
Mixed == {w \in Every : w.op \notin {">>", "2>", "2>&1", "n>>", "n<&m"}}
=============================================================================
