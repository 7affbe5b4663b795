------------------------------- MODULE Words -------------------------------
(***************************************************************************)
(* How the shell turns words into arguments: parameter expansion, pattern   *)
(* trimming and substitution, arithmetic, command substitution results,     *)
(* quoting, globbing and field splitting (expand.c), and the built-ins that *)
(* take words apart again: read, getopts, test, [ and [[ (shell.c).         *)
(*                                                                          *)
(* A text is a sequence of one-character strings.  A word is a sequence of  *)
(* parts: a literal character, an escaped one, a single- or double-quoted   *)
(* run, a tilde, a parameter, an arithmetic or a command substitution.      *)
(***************************************************************************)
EXTENDS Arith, Tests, SequencesExt

CONSTANTS Directory,     \* the file names of the directory, in glob(3)'s order
          Assoc,         \* the associative arrays: name -> sequence of <<key, text>>
          Specials,      \* $$, $!, $PPID ...: name -> text
          MaxFields,     \* room for the fields of one word
          MaxHops,       \* how far a chain of namerefs is followed
          Scripts,       \* the scripts: [kind, vars, nounset, params, spec, input]
          WordForms,     \* the words a script of kind "words" expands
          ArithTrees,    \* the expressions one of kind "arith" evaluates
          TestTrees,     \* the conditions one of kind "tests" tests
          ArgLists,      \* the arguments one of kind "options" scans
          MaxScans,      \* how often it starts over
          MaxJunk,       \* where the memory behind a word holds a zero at last
          MaxLine,       \* characters read keeps of a line: ARKSH_MAX_LINE - 2
          MaxValue       \* of a text a variable holds: ARKSH_MAX_VAR_VALUE - 1
ASSUME WordsAssumption == /\ MaxFields \in Nat \ {0} /\ MaxHops \in Nat
                          /\ MaxLine \in Nat \ {0} /\ MaxValue \in Nat \ {0}

VARIABLES script,      \* what the script does: the kind of its commands
          vars,        \* variable -> <<"text", text>> or <<"ref", name>>
          params,      \* the positional parameters
          nounset,     \* set -u
          opt,         \* what getopts keeps between calls, and its scan so far
          input,       \* what standard input still holds
          rematch,     \* BASH_REMATCH
          out          \* the command just run and its result; idle in between
vars_ == <<script, vars, params, nounset, opt, input, rematch, out>>

White == {" ", "\n"}
Text(t) == <<"text", t>>

-----------------------------------------------------------------------------
(* Patterns                                                                  *)

\* glob_match_full and glob_match_prefix read a pattern element at a time;
\* a backslash makes the next character literal.
Literal(p) == IF p[1] = "\\" /\ Len(p) > 1 THEN Tail(p) ELSE p

RECURSIVE GlobMatchFull(_, _), GlobMatchPrefix(_, _)
GlobMatchFull(p, s) ==
  IF p = <<>> THEN s = <<>>
  ELSE IF p[1] = "*" THEN \E k \in 0..Len(s) : GlobMatchFull(Tail(p), Drop(s, k))
  ELSE IF p[1] = "?" THEN s # <<>> /\ GlobMatchFull(Tail(p), Tail(s))
  ELSE LET q == Literal(p)
       IN s # <<>> /\ q[1] = s[1] /\ GlobMatchFull(Tail(q), Tail(s))

\* The length matched at the start of s, or -1; a star takes all it can.
GlobMatchPrefix(p, s) ==
  IF p = <<>> THEN 0
  ELSE IF p[1] = "*"
  THEN LET fits == {k \in 0..Len(s) : GlobMatchPrefix(Tail(p), Drop(s, k)) >= 0}
       IN IF fits = {} THEN -1
          ELSE LET k == CHOOSE k \in fits : \A j \in fits : j <= k
               IN k + GlobMatchPrefix(Tail(p), Drop(s, k))
  ELSE LET q == IF p[1] = "?" THEN p ELSE Literal(p)
           n == GlobMatchPrefix(Tail(q), Tail(s))
       IN IF s = <<>> \/ (p[1] # "?" /\ q[1] # s[1]) \/ n < 0 THEN -1 ELSE 1 + n

Least(S) == CHOOSE x \in S : \A y \in S : x <= y
Greatest(S) == CHOOSE x \in S : \A y \in S : x >= y

\* Mutant: the scan for the shortest suffix starts at the front too.
SuffixTrimFromFront(v, p, longest) ==
  LET cuts == {k \in 0..Len(v) : GlobMatchFull(p, Drop(v, k))}
  IN IF cuts = {} THEN v ELSE SubSeq(v, 1, Least(cuts))

ApplySuffixTrim(v, p, longest) ==
  LET cuts == {k \in 0..Len(v) : GlobMatchFull(p, Drop(v, k))}
  IN IF cuts = {} THEN v
     ELSE SubSeq(v, 1, IF longest THEN Least(cuts) ELSE Greatest(cuts))

ApplyPrefixTrim(v, p, longest) ==
  LET cuts == {k \in 0..Len(v) : GlobMatchFull(p, SubSeq(v, 1, k))}
  IN IF cuts = {} THEN v
     ELSE Drop(v, IF longest THEN Greatest(cuts) ELSE Least(cuts))

\* ${v/p/r} and ${v//p/r}: from the left, at position i of v; a match of no
\* character also copies the character it stands before.
RECURSIVE SubstFrom(_, _, _, _, _)
SubstFrom(v, i, p, r, global) ==
  LET n == IF i <= Len(v) \/ p = <<>> THEN GlobMatchPrefix(p, Drop(v, i - 1)) ELSE -1
      next == IF n = 0 /\ i <= Len(v) THEN i + 1 ELSE i + n
      copied == IF n = 0 /\ i <= Len(v) THEN <<v[i]>> ELSE <<>>
  IN IF i > Len(v) + 1 THEN <<>>
     ELSE IF n < 0
     THEN (IF i <= Len(v) THEN <<v[i]>> ELSE <<>>) \o SubstFrom(v, i + 1, p, r, global)
     ELSE IF ~global THEN r \o copied \o Drop(v, next - 1)
     ELSE r \o copied \o SubstFrom(v, next, p, r, global)
ApplyPatternSubst(v, p, r, global) == SubstFrom(v, 1, p, r, global)
\* ${v//}: the empty pattern matches at the end of v without advancing.
NeverEnds(p, global) == global /\ p = <<>>

-----------------------------------------------------------------------------
(* Parameters                                                                *)

Digit(d) == <<"0", "1", "2", "3", "4", "5", "6", "7", "8", "9">>[d + 1]
RECURSIVE Numeral(_)
Numeral(n) == IF n < 0 THEN <<"-">> \o Numeral(-n)
              ELSE IF n < 10 THEN <<Digit(n)>> ELSE Append(Numeral(n \div 10), Digit(n % 10))

Positions == [d \in {"1", "2", "3"} |-> CASE d = "1" -> 1 [] d = "2" -> 2 [] d = "3" -> 3]

\* Texts joined by spaces; an empty one is an item too.
JoinTexts(ts) == FoldLeft(LAMBDA acc, k : acc \o (IF k > 1 THEN <<" ">> ELSE <<>>) \o ts[k],
                          <<>>, [k \in 1..Len(ts) |-> k])
ExpandPositionalList == JoinTexts(params)      \* $@ and $* are one text

IsSpecial(name) == name \in {"#", "@", "*"} \cup DOMAIN Positions \cup DOMAIN Specials
SpecialText(name) ==
  CASE name = "#" -> Numeral(Len(params))
    [] name \in {"@", "*"} -> ExpandPositionalList
    [] name \in DOMAIN Positions ->
         IF Positions[name] <= Len(params) THEN params[Positions[name]] ELSE <<>>
    [] OTHER -> Specials[name]

Unset == [set |-> FALSE, text |-> <<>>]
IsSet(t) == [set |-> TRUE, text |-> t]

\* What arksh_shell_set_var accepts, cut to the room of a variable; ${1=x} uses
\* x and sets nothing.
Cut(t) == SubSeq(t, 1, Least({Len(t), MaxValue}))
IsIdentifier(name) == name \notin {"#", "@", "*", "?", "!", "-", "$"} \cup DOMAIN Positions
Assigned(vs, name, t) == IF IsIdentifier(name) THEN (name :> Text(Cut(t))) @@ vs ELSE vs

\* A special name is always set; a chain of namerefs is followed up to a
\* limit, and a longer one (a cycle) reads as unset.
RECURSIVE LookupVar(_, _, _)
LookupVar(vs, name, hops) ==
  IF hops > MaxHops THEN Unset
  ELSE IF IsSpecial(name) THEN IsSet(SpecialText(name))
  ELSE IF name \notin DOMAIN vs THEN Unset
  ELSE IF vs[name][1] = "ref" THEN LookupVar(vs, vs[name][2], hops + 1)
  ELSE IsSet(vs[name][2])

\* ${m[k]}, ${m[@]} and ${!m[@]} of an associative array.
RenderAssocValue(name, sub, keys) ==
  LET m == Assoc[name]
      hits == {k \in 1..Len(m) : m[k][1] = sub}
  IN IF sub \in {"@", "*"}
     THEN IsSet(JoinTexts([k \in 1..Len(m) |-> IF keys THEN <<m[k][1]>> ELSE m[k][2]]))
     ELSE IF keys \/ hits = {} THEN Unset
     ELSE IsSet(m[CHOOSE k \in hits : TRUE][2])

\* A parameter is [name, sub, keys, op, colon, long, arg, repl]: sub is "" for
\* no subscript, op the operator ("" for none, "len" for ${#name}), colon the
\* colon before it, long the doubled %%, ## or //, arg its operand as written.
ParameterValue(vs, f) ==
  IF f.sub = "" THEN LookupVar(vs, f.name, 0)
  ELSE IF f.name \in DOMAIN Assoc THEN RenderAssocValue(f.name, f.sub, f.keys)
  ELSE Unset

LengthOf(f, v) == IF f.sub \in {"@", "*"} /\ f.name \in DOMAIN Assoc THEN Len(Assoc[f.name])
                  ELSE IF f.sub \in {"@", "*"} THEN 0 ELSE Len(v.text)

\* The result of a substitution: its text, the variables after it, and
\* whether it failed, or never came back.
Gives(t, vs) == [text |-> t, vars |-> vs, err |-> "none"]
Fails(vs) == [text |-> <<>>, vars |-> vs, err |-> "error"]
Hangs(vs) == [text |-> <<>>, vars |-> vs, err |-> "hang"]

ResolveVariable(vs, f) ==
  LET v == ParameterValue(vs, f)
      trigger == ~v.set \/ (f.colon /\ v.text = <<>>)
  IN CASE f.op = "len" -> Gives(Numeral(LengthOf(f, v)), vs)
       [] f.op = "" -> IF nounset /\ ~v.set THEN Fails(vs) ELSE Gives(v.text, vs)
       [] f.op = "-" -> Gives(IF trigger THEN f.arg ELSE v.text, vs)
       [] f.op = "=" -> IF trigger THEN Gives(f.arg, Assigned(vs, f.name, f.arg))
                        ELSE Gives(v.text, vs)
       [] f.op = "+" -> Gives(IF trigger THEN <<>> ELSE f.arg, vs)
       [] f.op = "?" -> IF trigger THEN Fails(vs) ELSE Gives(v.text, vs)
       [] f.op = "%" -> Gives(ApplySuffixTrim(v.text, f.arg, f.long), vs)
       [] f.op = "#" -> Gives(ApplyPrefixTrim(v.text, f.arg, f.long), vs)
       [] f.op = "/" -> IF NeverEnds(f.arg, f.long) THEN Hangs(vs)
                        ELSE Gives(ApplyPatternSubst(v.text, f.arg, f.repl, f.long), vs)

\* The numbers the variables hold, for arithmetic: a text that is no number
\* reads as 0.
NumberOf(vs, n) ==
  IF vs[n][1] = "text" /\ \E d \in 0..9 : vs[n][2] = <<Digit(d)>>
  THEN CHOOSE d \in 0..9 : vs[n][2] = <<Digit(d)>> ELSE 0
ArithContext(vs, e) == [expr |-> e, env |-> [n \in DOMAIN vs |-> NumberOf(vs, n)]]

\* A command substitution that fails is an expansion error; trailing
\* newlines of its output are dropped.
RECURSIVE TrimTrailingNewlines(_)
TrimTrailingNewlines(t) ==
  IF t # <<>> /\ Last(t) = "\n" THEN TrimTrailingNewlines(Front(t)) ELSE t

ArithText(vs, r) == IF r.err = "none" THEN Gives(Numeral(r.v), vs) ELSE Fails(vs)

Substitution(vs, part) ==
  CASE part[1] = "par" -> ResolveVariable(vs, part[2])
    [] part[1] = "arith" -> ArithText(vs, EvaluateArith(ArithContext(vs, part[2])))
    [] part[1] = "cmd" -> IF part[2] # 0 THEN Fails(vs)
                          ELSE Gives(TrimTrailingNewlines(part[3]), vs)

-----------------------------------------------------------------------------
(* A word                                                                    *)

\* The expanded token: each character with two marks, may it be split by IFS
\* (it came from an unquoted parameter or command) and is it live in a pattern.
Marked(t, split, glob) == [k \in 1..Len(t) |-> <<t[k], split, glob>>]

EmptyToken(vs) == [text |-> <<>>, quoted |-> FALSE, vars |-> vs, err |-> "none"]
Add(tok, t, split, glob) == [tok EXCEPT !.text = @ \o Marked(t, split, glob)]
AddResult(tok, r, split, glob) ==
  IF r.err # "none" THEN [tok EXCEPT !.err = r.err, !.vars = r.vars]
  ELSE [Add(tok, r.text, split, glob) EXCEPT !.vars = r.vars]
AddSubstitution(tok, part, split, glob) == AddResult(tok, Substitution(tok.vars, part), split, glob)

\* Inside double quotes a backslash escapes only these.
DoubleQuoteEscapes == {"$", "\"", "\\", "\n"}
QuotedPart(tok, part) ==
  IF tok.err # "none" THEN tok
  ELSE CASE part[1] = "lit" -> Add(tok, <<part[2]>>, FALSE, FALSE)
         [] part[1] = "esc" -> Add(tok, IF part[2] \in DoubleQuoteEscapes THEN <<part[2]>>
                                        ELSE <<"\\", part[2]>>, FALSE, FALSE)
         [] OTHER -> AddSubstitution(tok, part, FALSE, FALSE)

HomeText(vs) == LET h == LookupVar(vs, "HOME", MaxHops)
                IN IF h.text # <<>> THEN h.text ELSE <<"~">>

UnquotedPart(tok, word, i, glob) ==
  LET part == word[i]
      home == i = 1 /\ (Len(word) = 1 \/ word[2] = <<"lit", "/">>)
  IN IF tok.err # "none" THEN tok
     ELSE CASE part[1] = "sq" -> [Add(tok, part[2], FALSE, FALSE) EXCEPT !.quoted = TRUE]
            [] part[1] = "dq" -> FoldLeft(QuotedPart, [tok EXCEPT !.quoted = TRUE], part[2])
            [] part[1] = "esc" -> Add(tok, <<part[2]>>, FALSE, FALSE)
            [] part[1] = "tilde" -> Add(tok, IF home THEN HomeText(tok.vars) ELSE <<"~">>, FALSE, glob)
            [] part[1] = "lit" -> Add(tok, <<part[2]>>, FALSE, glob)
            [] part[1] = "arith" -> AddSubstitution(tok, part, FALSE, glob)
            [] OTHER -> AddSubstitution(tok, part, TRUE, glob)

ExpandRawToken(vs, word, mode) ==
  FoldLeft(LAMBDA tok, i : UnquotedPart(tok, word, i, mode = "command"),
           EmptyToken(vs), [i \in 1..Len(word) |-> i])

\* What is live for glob(3) and what is escaped.
GlobMeta == {"*", "?"}
HasGlob(text) == \E k \in 1..Len(text) : text[k][3] /\ text[k][1] \in GlobMeta
PatternOf(text) ==
  FoldLeft(LAMBDA acc, ch : acc \o (IF (ch[1] \in GlobMeta /\ ~ch[3]) \/ ch[1] = "\\"
                                    THEN <<"\\", ch[1]>> ELSE <<ch[1]>>), <<>>, text)
PlatformGlob(text) == SelectSeq(Directory, LAMBDA f : GlobMatchFull(PatternOf(text), f))

\* apply_ifs_splitting, a character at a time; cur is the field being built,
\* after says that the last character was a separator other than white space.
IfsOf(vs) == IF "IFS" \in DOMAIN vs /\ vs["IFS"][1] = "text"
             THEN {vs["IFS"][2][k] : k \in 1..Len(vs["IFS"][2])} ELSE White
\* Mutant: a quoted separator splits like any other.
SplitCharAnywhere(ifs, st, ch) ==
  LET separator == ch[1] \in ifs
      white == ch[1] \in White
  IN IF ~separator THEN [st EXCEPT !.cur = Append(@, ch[1]), !.after = FALSE]
     ELSE IF white /\ st.cur = <<>> THEN [st EXCEPT !.after = FALSE]
     ELSE [fields |-> Append(st.fields, st.cur), cur |-> <<>>, after |-> ~white]
SplitChar(ifs, st, ch) ==
  LET separator == ch[2] /\ ch[1] \in ifs
      white == ch[1] \in White
  IN IF ~separator THEN [st EXCEPT !.cur = Append(@, ch[1]), !.after = FALSE]
     ELSE IF white /\ st.cur = <<>> THEN [st EXCEPT !.after = FALSE]
     ELSE [fields |-> Append(st.fields, st.cur), cur |-> <<>>, after |-> ~white]
ApplyIfsSplitting(text, quoted, ifs) ==
  LET plain == [k \in 1..Len(text) |-> text[k][1]]
      st == FoldLeft(LAMBDA s, ch : SplitChar(ifs, s, ch),
                     [fields |-> <<>>, cur |-> <<>>, after |-> FALSE], text)
      all == IF st.cur # <<>> \/ st.after THEN Append(st.fields, st.cur) ELSE st.fields
  IN IF ifs = {} THEN (IF text # <<>> \/ quoted THEN <<plain>> ELSE <<>>)
     ELSE IF all = <<>> /\ quoted THEN << <<>> >> ELSE all

\* The arguments a word becomes: globbing looks at the whole word, before and
\* instead of splitting; only arguments of commands are globbed and split.
FieldsOf(tok, mode) ==
  LET found == PlatformGlob(tok.text)
      split == ApplyIfsSplitting(tok.text, tok.quoted, IfsOf(tok.vars))
      fields == IF mode # "command" THEN << [k \in 1..Len(tok.text) |-> tok.text[k][1]] >>
                ELSE IF HasGlob(tok.text) /\ found # <<>> THEN found ELSE split
      err == IF tok.err = "none" /\ Len(fields) > MaxFields THEN "error" ELSE tok.err
  IN [tok |-> tok, vars |-> tok.vars, err |-> err,
      fields |-> IF err # "none" THEN <<>> ELSE fields]
ExpandWord(word, mode) == FieldsOf(ExpandRawToken(vars, word, mode), mode)

-----------------------------------------------------------------------------
(* read                                                                      *)

\* The loop of command_read: n is the limit of -n, 0 for none.  The limit is
\* looked at after a character was taken, which is then lost; what the line
\* has no room for is read and dropped.
Kept(line, ch) == IF Len(line) < MaxLine THEN Append(line, ch) ELSE line
RECURSIVE ReadChars(_, _, _, _)
ReadChars(in, raw, n, line) ==
  IF in = <<>> THEN [line |-> line, rest |-> <<>>, eof |-> TRUE]
  ELSE IF in[1] = "\n" \/ (n > 0 /\ Len(line) >= n)
  THEN [line |-> line, rest |-> Tail(in), eof |-> FALSE]
  ELSE IF ~raw /\ in[1] = "\\" /\ Len(in) > 1
  THEN ReadChars(Drop(in, 2), raw, n, IF in[2] = "\n" THEN line ELSE Kept(line, in[2]))
  ELSE ReadChars(Tail(in), raw, n, Kept(line, in[1]))

\* strcspn and strspn: the first character of t from k on that is (not) in S.
SpanEnd(t, k, S) == Least({j \in k..(Len(t) + 1) : j > Len(t) \/ t[j] \notin S})
CspanEnd(t, k, S) == Least({j \in k..(Len(t) + 1) : j > Len(t) \/ t[j] \in S})

\* The texts the names get: each but the last a field, the last what is left.
\* What a field has no room for is left to the next name, and the last is cut.
RECURSIVE ReadFields(_, _, _)
ReadFields(t, ifs, n) ==
  LET k == Least({CspanEnd(t, 1, ifs), MaxValue + 1})
  IN IF n = 1 THEN <<Cut(t)>>
     ELSE <<SubSeq(t, 1, k - 1)>> \o ReadFields(Drop(t, SpanEnd(t, k, ifs) - 1), ifs, n - 1)

ReadNames == <<"x", "y">>

\* read [-r] [-n limit] x y
Read(raw, n) ==
  LET r == ReadChars(input, raw, n, <<>>)
      fs == ReadFields(r.line, IfsOf(vars), Len(ReadNames))
  IN /\ input' = r.rest
     /\ vars' = FoldLeft(LAMBDA vs, k : Assigned(vs, ReadNames[k], fs[k]), vars,
                         [k \in 1..Len(ReadNames) |-> k])
     /\ out' = <<"read", r.line, fs, IF r.eof /\ r.line = <<>> THEN 1 ELSE 0>>
     /\ UNCHANGED <<script, params, nounset, opt, rematch>>

-----------------------------------------------------------------------------
(* getopts                                                                   *)

\* An option string is [silent, flags, valued]: the options it lists, those
\* followed by a colon.  arg[k] of a C string: past its end it is whatever the
\* memory holds (junk), which a script reaches by going back to OPTIND=1.
CharAt(w, k, junk) == IF k < Len(w) THEN w[k + 1] ELSE IF k = Len(w) THEN "nul" ELSE junk

GetoptsResult(st, name, optarg, ind, sub) ==
  [st |-> st, name |-> name, optarg |-> optarg, ind |-> ind, sub |-> sub]
NoMore(ind) == GetoptsResult(1, "?", <<>>, ind, 1)

\* The letter at sub of word i is no option.
IllegalOption(o, i, sub, ch, last) ==
  GetoptsResult(0, "?", IF o.silent THEN <<ch>> ELSE <<>>,
                IF last THEN i + 1 ELSE i, IF last THEN 1 ELSE sub + 1)

\* An option with an argument: the rest of its word, or the next word.
OptionArgument(o, i, sub, ch, last) ==
  IF ~last THEN GetoptsResult(0, ch, Drop(params[i], sub + 1), i + 1, 1)
  ELSE IF i + 1 <= Len(params) THEN GetoptsResult(0, ch, params[i + 1], i + 2, 1)
  ELSE GetoptsResult(0, IF o.silent THEN ":" ELSE "?", IF o.silent THEN <<ch>> ELSE <<>>, i + 1, 1)

RECURSIVE GetoptsAt(_, _, _, _)
GetoptsAt(o, i, sub, junk) ==
  LET w == params[i]
      ch == CharAt(w, sub, junk)
      last == CharAt(w, sub + 1, junk) = "nul"
  IN IF i > Len(params) THEN NoMore(i)
     ELSE IF sub <= 1 /\ w = <<"-", "-">> THEN NoMore(i + 1)
     ELSE IF sub <= 1 /\ (Len(w) < 2 \/ w[1] # "-") THEN NoMore(i)
     ELSE IF ch = "nul" THEN GetoptsAt(o, i + 1, 1, junk)
     ELSE IF ch \notin o.flags THEN IllegalOption(o, i, sub, ch, last)
     ELSE IF ch \in o.valued THEN OptionArgument(o, i, sub, ch, last)
     ELSE GetoptsResult(0, ch, <<>>, IF last THEN i + 1 ELSE i, IF last THEN 1 ELSE sub + 1)

\* Mutant: the place inside a word is kept whatever happened to OPTIND.
KeepSub == opt.sub

\* The place inside a word is forgotten when OPTIND is not the one it left.
ResumeSub == IF opt.ind # opt.last THEN 1 ELSE opt.sub

\* One turn of "while getopts optstring name"; seen is what the loop saw.
Getopts(junk) ==
  LET r == GetoptsAt(opt.spec, opt.ind, ResumeSub, junk)
  IN /\ ~opt.done /\ (junk = "nul" \/ ResumeSub < MaxJunk)
     /\ opt' = [opt EXCEPT !.ind = r.ind, !.last = r.ind, !.sub = r.sub,
                           !.seen = IF r.st = 0 THEN Append(@, <<r.name, r.optarg>>) ELSE @,
                           !.done = r.st # 0]
     /\ UNCHANGED <<script, vars, params, nounset, input, rematch, out>>

\* The script starts over: OPTIND=1, with these parameters.  clean records
\* that the last scan had not stopped inside its first word.
ScanAgain(args) ==
  /\ opt.scans < MaxScans /\ opt.seen # <<>>
  /\ params' = args
  /\ opt' = [opt EXCEPT !.ind = 1, !.seen = <<>>, !.done = FALSE, !.scans = @ + 1,
                        !.clean = opt.last # 1 \/ opt.sub = 1]
  /\ UNCHANGED <<script, vars, nounset, input, rematch, out>>

-----------------------------------------------------------------------------
(* Commands                                                                  *)

Idle == out = <<"idle">>

\* A word of a command line in one of the expansion modes.
Expand(word, mode) ==
  \E r \in {ExpandWord(word, mode)} :
     /\ vars' = r.vars
     /\ out' = IF r.err = "hang" THEN <<"stuck", word>> ELSE <<"word", word, mode, r>>
     /\ UNCHANGED <<script, params, nounset, opt, input, rematch>>

\* echo $(( ... )) of an expression without and with blanks.
Evaluate(tree, sep) ==
  \E r \in {EvaluateArith([expr |-> TreeText(tree, sep), env |-> [n \in {"x"} |-> 2]])} :
     /\ out' = IF r.err = "trap" THEN <<"died", tree>> ELSE <<"arith", tree, r.err, r.v>>
     /\ UNCHANGED <<script, vars, params, nounset, opt, input, rematch>>

\* test, [ and [[ with the arguments of a condition.
Test(tree, form) ==
  LET words == Arguments(tree, IF form = "[[" THEN "&&" ELSE "-a", IF form = "[[" THEN "||" ELSE "-o")
      r == CommandDoubleLbracket(Append(words, "]]"), rematch)
      s == IF form = "[[" THEN r[1] ELSE IF form = "[" THEN CommandLbracket(Append(words, "]"))
           ELSE CommandTest(words)
  IN /\ rematch' = IF form = "[[" THEN r[2] ELSE rematch
     /\ out' = <<form, tree, s, rematch>>
     /\ UNCHANGED <<script, vars, params, nounset, opt, input>>

NextCommand ==
  /\ out[1] \notin {"idle", "stuck", "died"}
  /\ out' = <<"idle">>
  /\ UNCHANGED <<script, vars, params, nounset, opt, input, rematch>>

FreshScan(o) == [spec |-> o, ind |-> 1, last |-> 1, sub |-> 1, seen |-> <<>>, done |-> FALSE,
                 clean |-> TRUE, scans |-> 1]

Init ==
  \E s \in Scripts :
    /\ script = s.kind /\ vars = s.vars /\ nounset = s.nounset /\ params = s.params
    /\ opt = FreshScan(s.spec) /\ input = s.input /\ rematch = "" /\ out = <<"idle">>

Running(kind) == script = kind /\ Idle

Next ==
  \/ Running("words") /\ \E w \in WordForms, m \in {"command", "name"} : Expand(w, m)
  \/ Running("arith") /\ \E t \in ArithTrees, sep \in {<<>>, <<" ">>} : Evaluate(t, sep)
  \/ Running("tests") /\ \E t \in TestTrees, f \in {"test", "[", "[["} : Test(t, f)
  \/ Running("read") /\ \E raw \in BOOLEAN, n \in {0, 1} : Read(raw, n)
  \/ Running("options") /\ \E junk \in {"nul", "a"} : Getopts(junk)
  \/ Running("options") /\ \E args \in ArgLists : ScanAgain(args)
  \/ NextCommand

Spec == Init /\ [][Next]_vars_
-----------------------------------------------------------------------------
(* Properties                                                                *)

IsSeparator(ch, ifs) == ch[2] /\ ch[1] \in ifs
\* The maximal runs of characters that separate nothing.
RunStarts(text, ifs) ==
  {i \in 1..Len(text) : ~IsSeparator(text[i], ifs) /\ (i = 1 \/ IsSeparator(text[i - 1], ifs))}
RunFrom(text, ifs, i) ==
  LET j == Greatest({j \in i..Len(text) : \A k \in i..j : ~IsSeparator(text[k], ifs)})
  IN [k \in 1..(j - i + 1) |-> text[i + k - 1][1]]
Runs(text, ifs) == LET starts == SetToSortSeq(RunStarts(text, ifs), <)
                   IN [k \in 1..Len(starts) |-> RunFrom(text, ifs, starts[k])]
Quoted(part) == part[1] \in {"sq", "dq"}

\* Field splitting loses and joins nothing (apply_ifs_splitting): the
\* non-empty arguments of a word are, in order, the maximal runs of its text
\* between separators that came out of an unquoted expansion; an empty one
\* needs a quote or a separator other than white space; a word of quotes only
\* is exactly one argument, whatever its text; and read divides the line it
\* kept into a first field, separators and the rest, which its last name gets:
\* a field ends at a separator unless a variable holds no more, and then the
\* rest begins right there; a rest longer than a variable is cut.
FieldsExact ==
  /\ out[1] = "word" /\ out[3] = "command" /\ out[4].err = "none" =>
       LET r == out[4]
           ifs == IfsOf(r.vars)
           globbed == HasGlob(r.tok.text) /\ PlatformGlob(r.tok.text) # <<>>
           hard == {k \in 1..Len(r.tok.text) : IsSeparator(r.tok.text[k], ifs \ White)}
       IN /\ ~globbed => /\ SelectSeq(r.fields, LAMBDA f : f # <<>>) = Runs(r.tok.text, ifs)
                         /\ (\E k \in 1..Len(r.fields) : r.fields[k] = <<>>)
                               => r.tok.quoted \/ hard # {}
          /\ (\A k \in 1..Len(out[2]) : Quoted(out[2][k])) => Len(r.fields) = 1
  /\ out[1] = "read" =>
       LET ifs == IfsOf(vars)
           a == out[3][1]
           rest == Drop(out[2], Len(a))
       IN /\ IsPrefix(a, out[2]) /\ \A k \in 1..Len(a) : a[k] \notin ifs
          /\ \E m \in 0..Len(rest) :
               /\ \A k \in 1..m : rest[k] \in ifs
               /\ m < Len(rest) => rest[m + 1] \notin ifs
               /\ m = 0 /\ rest # <<>> => Len(a) = MaxValue
               /\ out[3][2] = SubSeq(rest, m + 1, Least({m + MaxValue, Len(rest)}))

\* What a pattern means, without the matcher: cut points divide the text
\* among the pattern's elements.
Elements(p) == \* the pattern without its backslashes: <<character, live>>
  LET Step(acc, c) == IF acc.esc THEN [esc |-> FALSE, out |-> Append(acc.out, <<c, FALSE>>)]
                      ELSE IF c = "\\" THEN [acc EXCEPT !.esc = TRUE]
                      ELSE [acc EXCEPT !.out = Append(@, <<c, TRUE>>)]
      r == FoldLeft(Step, [esc |-> FALSE, out |-> <<>>], p)
  IN IF r.esc THEN Append(r.out, <<"\\", FALSE>>) ELSE r.out
Means(p, s) ==
  LET e == Elements(p)
  IN \E cut \in [0..Len(e) -> 0..Len(s)] :
       /\ cut[0] = 0 /\ cut[Len(e)] = Len(s)
       /\ \A k \in 1..Len(e) :
            /\ cut[k - 1] <= cut[k]
            /\ e[k] # <<"*", TRUE>> =>
                 /\ cut[k] = cut[k - 1] + 1
                 /\ e[k] # <<"?", TRUE>> => s[cut[k]] = e[k][1]

\* r is v without the shortest (longest) prefix that the pattern means.
TrimmedPrefix(v, p, longest, r) ==
  LET cuts == {k \in 0..Len(v) : Means(p, SubSeq(v, 1, k))}
  IN r = IF cuts = {} THEN v ELSE Drop(v, IF longest THEN Greatest(cuts) ELSE Least(cuts))
TrimmedSuffix(v, p, longest, r) ==
  LET cuts == {k \in 0..Len(v) : Means(p, Drop(v, k))}
  IN r = IF cuts = {} THEN v ELSE SubSeq(v, 1, IF longest THEN Least(cuts) ELSE Greatest(cuts))
\* r is v with the leftmost, longest match replaced once.
ReplacedOnce(v, p, repl, r) ==
  LET spans == {<<i, j>> \in (1..Len(v)) \X (0..Len(v)) : j >= i - 1 /\ Means(p, SubSeq(v, i, j))}
      i == Least({x[1] : x \in spans})
      j == Greatest({x[2] : x \in {x \in spans : x[1] = i}})
  IN r = IF spans = {} THEN (IF p = <<>> THEN repl ELSE v) ELSE SubSeq(v, 1, i - 1) \o repl \o Drop(v, j)

\* A pattern operator removes or replaces what the pattern means, whatever
\* stars it has: the trims the shortest or longest affix (apply_prefix_trim,
\* apply_suffix_trim), a single substitution the leftmost longest piece
\* (apply_pattern_subst, whose star is greedy); and ${x=w} leaves x with the
\* text it produced, as far as a variable holds it, unless the name cannot be
\* set or is followed elsewhere.
ParametersExact ==
  out[1] = "word" /\ out[3] = "name" /\ Len(out[2]) = 1 /\ out[2][1][1] = "par"
    /\ out[4].err = "none" =>
    LET f == out[2][1][2]
        v == ParameterValue(vars, f).text
        r == out[4].fields[1]
    IN /\ f.op = "#" => TrimmedPrefix(v, f.arg, f.long, r)
       /\ f.op = "%" => TrimmedSuffix(v, f.arg, f.long, r)
       /\ f.op = "/" /\ ~f.long => ReplacedOnce(v, f.arg, f.repl, r)
       /\ f.op = "=" /\ ~IsSpecial(f.name) => LookupVar(vars, f.name, 0) = IsSet(Cut(r))

\* An expression means what C's precedence makes of it: the evaluator gives
\* the text of a tree, written with the fewest parentheses and with or without
\* blanks, the value of that tree, and fails where some operator of it fails
\* (evaluate_arith and the thirteen levels below it).
ArithmeticAgrees ==
  out[1] \in {"arith", "died"} =>
    LET r == TreeValue(out[2])
    IN IF out[1] = "died" THEN r.err = "trap"
       ELSE out[3] = r.err /\ (r.err = "none" => out[4] = r.v)

RECURSIVE ErrorFree(_)
ErrorFree(t) == IF t[1] = "prim" THEN DoubleBracketPrimary(t[2])[1] # 2
                ELSE \A k \in 2..Len(t) : ErrorFree(t[k])
\* A condition means what its tree means: test evaluates all of it, [[ as much
\* as decides it, and what [[ skips is exactly the operand it does not need -
\* no token of a skipped operand is evaluated or left over, and BASH_REMATCH is
\* that of the last primary that really was evaluated.
ConditionsAgree ==
  /\ out[1] \in {"test", "["} => out[3] = TestMeaning(out[2])
  /\ out[1] = "[[" /\ ErrorFree(out[2]) =>
       <<out[3], rematch>> = BracketMeaning(out[2], out[4])

\* One pass over the arguments, without the three variables getopts keeps
\* between calls: <<the options seen, the first argument left>>.
RECURSIVE ScanWord(_, _, _), ScanFrom(_, _)
ScanFrom(o, i) ==
  IF i > Len(params) \/ Len(params[i]) < 2 \/ params[i][1] # "-" THEN << <<>>, i>>
  ELSE IF params[i] = <<"-", "-">> THEN << <<>>, i + 1>> ELSE ScanWord(o, i, 2)
ScanWord(o, i, k) ==
  LET w == params[i]
      ch == w[k]
      more == k < Len(w)
      Then(event, rest) == << <<event>> \o rest[1], rest[2]>>
      missing == IF o.silent THEN <<":", <<ch>> >> ELSE <<"?", <<>> >>
      illegal == <<"?", IF o.silent THEN <<ch>> ELSE <<>> >>
  IN IF ch \in o.valued
     THEN IF more THEN Then(<<ch, Drop(w, k)>>, ScanFrom(o, i + 1))
          ELSE IF i < Len(params) THEN Then(<<ch, params[i + 1]>>, ScanFrom(o, i + 2))
          ELSE Then(missing, ScanFrom(o, i + 1))
     ELSE Then(IF ch \in o.flags THEN <<ch, <<>> >> ELSE illegal,
               IF more THEN ScanWord(o, i, k + 1) ELSE ScanFrom(o, i + 1))

ScanOnce ==
  LET r == ScanFrom(opt.spec, 1)
  IN /\ IsPrefix(opt.seen, r[1])
     /\ opt.done => opt.seen = r[1] /\ opt.ind = r[2]

\* A loop of getopts sees every option once and in order, grouped or not, and
\* leaves OPTIND at the first operand (command_getopts resumes from OPTIND and
\* two private variables) - in a scan that did not begin where the one before
\* had stopped inside its first word.
OptionsOnce == script = "options" /\ opt.clean => ScanOnce
=============================================================================
