------------------------------ MODULE Pipeline ------------------------------
(***************************************************************************)
(* Object expressions: a value, the stages |> and the methods -> applied   *)
(* to it one after another (executor.c), and the blocks they call, which   *)
(* run in a scope frame of their own.  The chain ends at the first error.  *)
(***************************************************************************)
EXTENDS Formats

CONSTANTS Sources,    \* the values a chain starts from
          Texts,      \* texts given to stages: separators, patterns, property names
          PathTexts,  \* paths given to methods
          Items,      \* values given to methods
          Blocks,     \* the blocks given to stages
          MaxSteps    \* length of a chain (model bound)

VARIABLES value,   \* the current value, Error once an operation failed
          input,   \* the value before the last operation
          op,      \* the last operation: its name, then its arguments
          frames,  \* the bindings: the global ones, then one frame per running block
          steps
vars == <<value, input, op, frames, steps>>

-----------------------------------------------------------------------------
(* Bindings and blocks.  A block has parameters and a body: statements      *)
(* <<"local", name, expression>> and <<"result", expression>>.              *)

BindingOf(fs, x) ==
    LET where == { i \in DOMAIN fs : x \in DOMAIN fs[i] }
    IN IF where = {} THEN Error ELSE fs[Max(where)][x]
SetBinding(fs, x, v) == [fs EXCEPT ![Len(fs)] = (x :> v) @@ @]

(* A name, a member of a name or a literal, as a line of its own.           *)
LineValue(fs, a) ==
    CASE a[1] = "literal" -> a[2]
      [] a[1] = "name"    -> BindingOf(fs, a[2])
      [] a[1] = "member"  -> IF BindingOf(fs, a[2]) = Error THEN Error
                             ELSE Property(BindingOf(fs, a[2]), a[3])

(* evaluate_expression_atom: a text that is not a value names a path.       *)
Atom(fs, a) == IF LineValue(fs, a) = Error THEN Path(<<ToString(a)>>) ELSE LineValue(fs, a)

(* add_values                                                               *)
AddValues(l, r) == IF Kind(l) = "number" /\ Kind(r) = "number" THEN Number(l[2] + r[2])
                   ELSE Text(Render(l) \o Render(r))

(* evaluate_additive_expression: a sum with a term that has no value is     *)
(* taken as an atom, that is, as a path.                                    *)
Additive(fs, terms) ==
    IF \E i \in DOMAIN terms : LineValue(fs, terms[i]) = Error THEN Path(<<ToString(terms)>>)
    ELSE FoldLeft(LAMBDA s, a : AddValues(s, LineValue(fs, a)), LineValue(fs, terms[1]), Tail(terms))

(* evaluate_expression_text: ternary, then equality of the rendered texts,  *)
(* then sum, then atom.                                                     *)
Expression(fs, e) ==
    CASE e[1] = "ternary" -> IF Truthy(Atom(fs, e[2][1])) THEN Atom(fs, e[2][2]) ELSE Atom(fs, e[2][3])
      [] e[1] = "equal"   -> Bool(Render(Atom(fs, e[2][1])) = Render(Atom(fs, e[2][2])))
      [] e[1] = "sum"     -> Additive(fs, e[2])
      [] e[1] = "atom"    -> Atom(fs, e[2][1])

(* evaluate_block_body: locals first; the first statement that is not one   *)
(* is the result, and there must be one.                                    *)
RECURSIVE BlockBody(_, _)
BlockBody(fs, body) ==
    IF body = <<>> THEN [val |-> Error, fs |-> fs]
    ELSE IF body[1][1] = "result" THEN [val |-> Expression(fs, body[1][2]), fs |-> fs]
    ELSE BlockBody(SetBinding(fs, body[1][2], Expression(fs, body[1][3])), Tail(body))

(* evaluate_block: the frame is popped however the body ends.               *)
PushFrame(fs) == Append(fs, <<>>)
PopFrame(fs)  == Front(fs)
EvaluateBlockLeaks(fs, b, args) ==
    LET bound == FoldLeft(LAMBDA f, i : SetBinding(f, b.params[i], args[i]),
                          PushFrame(fs), [i \in DOMAIN args |-> i])
        ran   == BlockBody(bound, b.body)
    IN IF Len(args) # Len(b.params) THEN [val |-> Error, fs |-> fs]
       ELSE IF ran.val = Error THEN ran
       ELSE [ran EXCEPT !.fs = PopFrame(ran.fs)]
EvaluateBlock(fs, b, args) ==
    LET bound == FoldLeft(LAMBDA f, i : SetBinding(f, b.params[i], args[i]),
                          PushFrame(fs), [i \in DOMAIN args |-> i])
        ran   == BlockBody(bound, b.body)
    IN IF Len(args) # Len(b.params) THEN [val |-> Error, fs |-> fs]
       ELSE [ran EXCEPT !.fs = PopFrame(ran.fs)]

(* A block called on each item in turn, up to the first error.              *)
Each(fs, b, items) ==
    FoldLeft(LAMBDA s, x : IF ~ s.ok THEN s
                           ELSE LET r == EvaluateBlock(s.fs, b, <<x>>)
                                IN [ok |-> r.val # Error, vals |-> Append(s.vals, r.val), fs |-> r.fs],
             [ok |-> TRUE, vals |-> <<>>, fs |-> fs], items)

-----------------------------------------------------------------------------
(* Filtering, ordering, grouping.                                           *)

Indexed(q) == [i \in DOMAIN q |-> i]

(* move_list_item and discard_list_tail: the kept items are moved down in   *)
(* place, what is left behind is emptied, the tail is cut.                  *)
MoveDown(s, i) == [q |-> IF s.w + 1 = i THEN s.q ELSE [s.q EXCEPT ![s.w + 1] = s.q[i], ![i] = Empty],
                   w |-> s.w + 1]
CompactSkips(q, keep) ==
    LET s == FoldLeft(LAMBDA st, i : IF keep[i] THEN MoveDown(st, i) ELSE [st EXCEPT !.w = IF i = 1 THEN 1 ELSE @],
                      [q |-> q, w |-> 0], Indexed(q))
    IN SubSeq(s.q, 1, s.w)
Compact(q, keep) ==
    LET s == FoldLeft(LAMBDA st, i : IF keep[i] THEN MoveDown(st, i) ELSE st,
                      [q |-> q, w |-> 0], Indexed(q))
    IN SubSeq(s.q, 1, s.w)

(* get_item_property_text of every item; Error in the place of a missing one *)
PropertyTexts(q, p) == [i \in DOMAIN q |-> IF Property(q[i], p) = Error THEN Error
                                           ELSE Text(Render(Property(q[i], p)))]
Missing(q, p) == \E i \in DOMAIN q : Property(q[i], p) = Error

Where(v, p, text) ==
    IF Kind(v) # "list" \/ Missing(v[2], p) THEN Error
    ELSE List(Compact(v[2], [i \in DOMAIN v[2] |-> PropertyTexts(v[2], p)[i] = Text(text)]))

(* strcmp                                                                   *)
Ascii == << " ", "!", "\"", "#", "$", "%", "&", "'", "(", ")", "*", "+", ",", "-", ".", "/",
            "0", "1", "2", "3", "4", "5", "6", "7", "8", "9", ":", ";", "<", "=", ">", "?", "@",
            "A", "B", "C", "D", "E", "F", "G", "H", "I", "J", "K", "L", "M", "N", "O", "P", "Q",
            "R", "S", "T", "U", "V", "W", "X", "Y", "Z", "[", "\\", "]", "^", "_", "bq",
            "a", "b", "c", "d", "e", "f", "g", "h", "i", "j", "k", "l", "m", "n", "o", "p", "q",
            "r", "s", "t", "u", "v", "w", "x", "y", "z", "{", "|", "}", "~" >>
IsAscii(c) == c = "nl" \/ \E i \in DOMAIN Ascii : Ascii[i] = c
Code(c) == IF c = "nl" THEN 10 ELSE IF IsAscii(c) THEN 31 + (CHOOSE i \in DOMAIN Ascii : Ascii[i] = c) ELSE 127
Strcmp(s, t) ==
    LET diff == { i \in 1..Min({Len(s), Len(t)}) : s[i] # t[i] }
    IN IF diff = {} THEN Len(s) - Len(t) ELSE Code(s[Min(diff)]) - Code(t[Min(diff)])

(* compare_items_by_property: by number when both are, else by text.        *)
Compare(a, b) == IF IsUnsigned(a) /\ IsUnsigned(b) THEN Unsigned(a) - Unsigned(b) ELSE Strcmp(a, b)
Swap(q, i, j) == [q EXCEPT ![i] = q[j], ![j] = q[i]]
Pairs(n) == FlattenSeq([i \in 1..n |-> [k \in 1..(n - i) |-> <<i, i + k>>]])
Sort(v, p, descending) ==
    LET Key(x) == Render(Property(x, p))
        Wrong(x, y) == IF descending THEN Compare(Key(x), Key(y)) < 0 ELSE Compare(Key(x), Key(y)) > 0
        Exchange(q, ij) == IF Wrong(q[ij[1]], q[ij[2]]) THEN Swap(q, ij[1], ij[2]) ELSE q
    IN IF Kind(v) # "list" \/ (Len(v[2]) > 1 /\ Missing(v[2], p)) THEN Error
       ELSE List(FoldLeft(Exchange, v[2], Pairs(Len(v[2]))))

Take(v, n)  == IF Kind(v) # "list" THEN Error ELSE List(Truncated(v[2], n))
First(v)    == IF Kind(v) # "list" \/ v[2] = <<>> THEN Error ELSE v[2][1]
Count(v)    == IF Kind(v) \in {"list", "map", "dict"} THEN Number(Len(v[2]))
               ELSE IF Kind(v) \in {"string", "number", "boolean", "object"} THEN Number(1)
               ELSE Error

(* apply_group_by_stage: the items of a group keep their order, the groups  *)
(* the order of their first items; an empty key cannot be stored.           *)
GroupByRuns(items, keys) ==
    FoldLeft(LAMBDA m, i :
               IF m = Error THEN m
               ELSE LET group == IF i = 1 \/ keys[i - 1] # keys[i] THEN List(<<>>) ELSE MapGet(m, keys[i])
                    IN MapSet(m, keys[i], List(Append(group[2], items[i]))),
             Map(<<>>), Indexed(items))
GroupBy(items, keys) ==
    FoldLeft(LAMBDA m, i :
               IF m = Error THEN m
               ELSE LET group == IF MapGet(m, keys[i]) = Error THEN List(<<>>) ELSE MapGet(m, keys[i])
                    IN MapSet(m, keys[i], List(Append(group[2], items[i]))),
             Map(<<>>), Indexed(items))
GroupByProperty(v, p) ==
    IF Kind(v) # "list" \/ Missing(v[2], p) THEN Error
    ELSE GroupBy(v[2], [i \in DOMAIN v[2] |-> Render(Property(v[2][i], p))])

(* item_as_number: atof of a text is its leading digits.                    *)
Leading(t) == LET n == { k \in 0..Len(t) : \A i \in 1..k : Digit(t[i]) >= 0 } IN SubSeq(t, 1, Max(n))
AsNumber(v) == IF Kind(v) = "number" THEN v
               ELSE IF Kind(v) = "string" THEN Number(Unsigned(Leading(v[2]))) ELSE Error
Numbers(v) == [i \in DOMAIN v[2] |-> AsNumber(v[2][i])[2]]
NotNumbers(v) == Kind(v) # "list" \/ \E i \in DOMAIN v[2] : AsNumber(v[2][i]) = Error
Sum(v) == IF NotNumbers(v) THEN Error ELSE Number(FoldLeft(LAMBDA a, b : a + b, 0, Numbers(v)))
MinOf(v) == IF NotNumbers(v) \/ v[2] = <<>> THEN Error
            ELSE Number(FoldLeft(LAMBDA a, b : IF b < a THEN b ELSE a, Numbers(v)[1], Tail(Numbers(v))))
MaxOf(v) == IF NotNumbers(v) \/ v[2] = <<>> THEN Error
            ELSE Number(FoldLeft(LAMBDA a, b : IF b > a THEN b ELSE a, Numbers(v)[1], Tail(Numbers(v))))

-----------------------------------------------------------------------------
(* Texts.                                                                   *)

Blank == {" ", "nl"}
At(t, sep, i) == i + Len(sep) - 1 <= Len(t) /\ SubSeq(t, i, i + Len(sep) - 1) = sep
NextAt(t, sep, i) == LET m == { j \in i..Len(t) : At(t, sep, j) } IN IF m = {} THEN Len(t) + 1 ELSE Min(m)

(* split_text_delimiter_into_value: a separator at the end leaves an empty  *)
(* last text; what is longer than the buffer of a piece is cut.             *)
RECURSIVE Between(_, _, _)
Between(t, sep, i) ==
    LET m == NextAt(t, sep, i)
    IN <<SubSeq(t, i, m - 1)>> \o (IF m > Len(t) THEN <<>> ELSE Between(t, sep, m + Len(sep)))
Pieces(t, sep) == [i \in DOMAIN Between(t, sep, 1) |-> Truncated(Between(t, sep, 1)[i], MaxPiece)]

(* split_text_lines_into_value: a newline at the end ends the last line.    *)
LinesOf(t) ==
    LET q == Pieces(t, <<"nl">>)
    IN IF Last(q) = <<>> THEN Front(q) ELSE q
Words(t) ==    \* split_text_whitespace_into_value
    LET Word(u) == u # <<>>
        Spaced  == [i \in DOMAIN t |-> IF t[i] \in Blank THEN " " ELSE t[i]]
    IN SelectSeq(Pieces(Spaced, <<" ">>), Word)
TextList(q) == List([i \in DOMAIN q |-> Text(q[i])])

Original(v) == Truncated(v[2], MaxOutput)    \* the copy a stage reads
Lines(v) == IF Kind(v) # "string" THEN Error ELSE TextList(LinesOf(Original(v)))
Split(v, sep) == IF Kind(v) # "string" \/ sep = <<>> THEN Error ELSE TextList(Pieces(Original(v), sep))
SplitBlanks(v) == IF Kind(v) # "string" THEN Error ELSE TextList(Words(Original(v)))

(* A text that does not fit the buffer of its stage is refused.             *)
Bounded(t) == IF Len(t) > MaxOutput THEN Error ELSE Text(t)
Join(v, sep) == IF Kind(v) # "list" THEN Error
                ELSE Bounded(Joined([i \in DOMAIN v[2] |-> Truncated(Render(v[2][i]), MaxOutput)], sep))
Trimmed(t) == LET in == { i \in DOMAIN t : t[i] \notin Blank }
              IN IF in = {} THEN <<>> ELSE SubSeq(t, Min(in), Max(in))
Trim(v) == CASE Kind(v) = "string" -> Text(Trimmed(Original(v)))
             [] Kind(v) = "list"   -> List([i \in DOMAIN v[2] |->
                    IF Kind(v[2][i]) = "string" THEN Text(Trimmed(Truncated(v[2][i][2], MaxPiece))) ELSE v[2][i]])
             [] OTHER -> Error
Holds(t, pattern) == pattern = <<>> \/ NextAt(t, pattern, 1) <= Len(t)    \* strstr
Grep(v, pattern) ==
    LET w == IF Kind(v) = "string" THEN Lines(v) ELSE v
    IN IF Kind(w) # "list" THEN Error
       ELSE List(Compact(w[2], [i \in DOMAIN w[2] |-> Holds(Truncated(Render(w[2][i]), MaxOutput), pattern)]))

(* apply_base64_encode_stage, apply_base64_decode_stage: three bytes to     *)
(* four digits; the missing ones of the last group are written as =.        *)
Alphabet == << "A", "B", "C", "D", "E", "F", "G", "H", "I", "J", "K", "L", "M", "N", "O", "P", "Q", "R",
               "S", "T", "U", "V", "W", "X", "Y", "Z", "a", "b", "c", "d", "e", "f", "g", "h", "i", "j",
               "k", "l", "m", "n", "o", "p", "q", "r", "s", "t", "u", "v", "w", "x", "y", "z",
               "0", "1", "2", "3", "4", "5", "6", "7", "8", "9", "+", "/" >>
Group64Pads(b) ==
    LET B(i) == IF i <= Len(b) THEN b[i] ELSE 0
    IN << Alphabet[(B(1) \div 4) + 1], Alphabet[(B(1) % 4) * 16 + (B(2) \div 16) + 1],
          IF Len(b) > 2 THEN Alphabet[(B(2) % 16) * 4 + (B(3) \div 64) + 1] ELSE "=",
          IF Len(b) > 2 THEN Alphabet[(B(3) % 64) + 1] ELSE "=" >>
Group64(b) ==
    LET B(i) == IF i <= Len(b) THEN b[i] ELSE 0
    IN << Alphabet[(B(1) \div 4) + 1], Alphabet[(B(1) % 4) * 16 + (B(2) \div 16) + 1],
          IF Len(b) >= 2 THEN Alphabet[(B(2) % 16) * 4 + (B(3) \div 64) + 1] ELSE "=",
          IF Len(b) >= 3 THEN Alphabet[(B(3) % 64) + 1] ELSE "=" >>
Chunks(t, n) == [k \in 1..((Len(t) + n - 1) \div n) |-> SubSeq(t, n * (k - 1) + 1, Min({n * k, Len(t)}))]
Bytes(t) == [i \in DOMAIN t |-> Code(t[i])]
Encode64(v) == IF Kind(v) # "string" \/ \E i \in DOMAIN v[2] : ~ IsAscii(v[2][i]) THEN Error
               ELSE Bounded(FlattenSeq([k \in DOMAIN Chunks(v[2], 3) |-> Group64(Bytes(Chunks(v[2], 3)[k]))]))
Sextet(c) == IF \E i \in DOMAIN Alphabet : Alphabet[i] = c
             THEN (CHOOSE i \in DOMAIN Alphabet : Alphabet[i] = c) - 1
             ELSE IF c = "=" THEN -2 ELSE -1
Ungroup64(q) ==
    LET C(i) == Sextet(q[i])
    IN <<C(1) * 4 + (C(2) \div 16)>>
       \o (IF C(3) # -2 THEN <<(C(2) % 16) * 16 + (C(3) \div 4)>> ELSE <<>>)
       \o (IF C(4) # -2 THEN <<(C(3) % 4) * 64 + C(4)>> ELSE <<>>)
Decode64(v) ==
    LET q == Chunks(v[2], 4)
        Decoded(k) == FlattenSeq([j \in 1..k |-> Ungroup64(q[j])])
        bytes == Decoded(Len(q))
        Char(n) == IF n = 10 THEN "nl" ELSE IF n \in 32..126 THEN Ascii[n - 31] ELSE ToString(n)
        nul == { i \in DOMAIN bytes : bytes[i] % 256 = 0 }
    IN IF Kind(v) # "string" \/ Len(v[2]) % 4 # 0
          \/ \E k \in DOMAIN q : Sextet(q[k][1]) < 0 \/ Sextet(q[k][2]) < 0
                                 \/ Sextet(q[k][3]) = -1 \/ Sextet(q[k][4]) = -1
                                 \/ Len(Decoded(k - 1)) + 3 > MaxOutput
       THEN Error
       ELSE Text([i \in 1..(IF nul = {} THEN Len(bytes) ELSE Min(nul) - 1) |-> Char(bytes[i] % 256)])

(* apply_pluck_stage: the path of a map or list item, else the property;    *)
(* what is not there is empty.                                              *)
Nested(path) == \E i \in DOMAIN path : path[i] \in {".", "[", "]"}
PluckOne(x, path) ==
    LET found == IF Kind(x) \in {"map", "dict", "list"} THEN Follow(x, Segments(path)) ELSE Error
    IN CASE found # Error -> found
         [] found = Error /\ ~ Nested(path) /\ Property(x, path) # Error -> Property(x, path)
         [] OTHER -> Empty
Pluck(v, path) ==
    IF \/ Kind(v) # "list" \/ path = <<>>
       \/ Segments(path) = <<>> /\ \E i \in DOMAIN v[2] : Kind(v[2][i]) \in {"map", "dict", "list"}
    THEN Error
    ELSE List([i \in DOMAIN v[2] |-> PluckOne(v[2][i], path)])

-----------------------------------------------------------------------------
(* The operations of a chain.                                               *)

Globals == "x" :> Number(7)
Init == /\ value \in Sources
        /\ input = Empty
        /\ op = <<"source">>
        /\ frames = <<Globals>>
        /\ steps = 0

Apply(name, args, result) ==
    /\ value # Error
    /\ steps < MaxSteps
    /\ steps' = steps + 1
    /\ input' = value
    /\ op' = <<name>> \o args
    /\ value' = result
Plain(name, args, result) == Apply(name, args, result) /\ UNCHANGED frames

(* A stage that calls a block on the items of a list.                       *)
WithBlock(name, b, Result(_)) ==
    LET r == Each(frames, b, value[2])
    IN IF Kind(value) # "list" THEN Plain(name, <<b>>, Error)
       ELSE /\ Apply(name, <<b>>, IF r.ok THEN Result(r.vals) ELSE Error)
            /\ frames' = r.fs

WhereProperty == \E p, t \in Texts : Plain("where", <<p, t>>, Where(value, p, t))
WhereBlock == \E b \in Blocks :
    LET Kept(vals) == List(Compact(value[2], [i \in DOMAIN vals |-> Truthy(vals[i])]))
    IN WithBlock("filter", b, Kept)
SortBy == \E p \in Texts, d \in BOOLEAN : Plain("sort", <<p, d>>, Sort(value, p, d))
TakeN == \E n \in 0..2 : Plain("take", <<n>>, Take(value, n))
FirstItem == Plain("first", <<>>, First(value))
CountItems == Plain("count", <<>>, Count(value))
LinesStage == Plain("lines", <<>>, Lines(value))
GrepStage == \E t \in Texts : Plain("grep", <<t>>, Grep(value, t))
TrimStage == Plain("trim", <<>>, Trim(value))
SplitStage == \E t \in Texts : Plain("split", <<t>>, Split(value, t))
SplitWords == Plain("words", <<>>, SplitBlanks(value))
JoinStage == \E t \in Texts : Plain("join", <<t>>, Join(value, t))
PluckStage == \E p \in PathTexts : Plain("pluck", <<p>>, Pluck(value, p))
ToJsonStage == Plain("to_json", <<>>, Bounded(ToJson(value)))
FromJsonStage == Plain("from_json", <<>>, IF Kind(value) # "string" THEN Error ELSE FromJson(value[2]))
RenderStage == Plain("render", <<>>, Text(Truncated(Render(value), MaxOutput)))
(* each(): a block, the rendered item, a property as text, or a method.      *)
Selected(name, Of(_)) ==
    LET q == [i \in DOMAIN value[2] |-> Of(value[2][i])]
    IN Plain("each", <<name>>, IF Kind(value) # "list" \/ \E i \in DOMAIN q : q[i] = Error THEN Error ELSE List(q))
Rendered(x) == Text(Render(x))
EachRender   == Selected("render", Rendered)
EachProperty == \E p \in Texts :
    LET Named(x) == IF Property(x, p) = Error THEN Error ELSE Rendered(Property(x, p))
    IN Selected(p, Named)
EachMethod   == Selected("entries()", MapEntries)
EachBlock    == \E b \in Blocks : WithBlock("each", b, List)
MapStage == \E b \in Blocks : WithBlock("map", b, List)
FlatMap == \E b \in Blocks :
    LET Flat(vals) == List(FlattenSeq([i \in DOMAIN vals |-> IF Kind(vals[i]) = "list" THEN vals[i][2]
                                                             ELSE <<vals[i]>>]))
    IN WithBlock("flat_map", b, Flat)
GroupByBlock == \E b \in Blocks :
    LET Grouped(vals) == GroupBy(value[2], [i \in DOMAIN vals |-> Render(vals[i])])
    IN WithBlock("group_by {}", b, Grouped)
GroupByName == \E p \in Texts : Plain("group_by", <<p>>, GroupByProperty(value, p))

(* apply_reduce_stage: from the given value, or from the first item.        *)
Reduced(b, start, items) ==
    FoldLeft(LAMBDA s, x : IF s.val = Error THEN s ELSE EvaluateBlock(s.fs, b, <<s.val, x>>),
             [val |-> start, fs |-> frames], items)
Reduce == \E b \in Blocks, init \in Items \cup {Error} :
    LET q == IF init = Error THEN Tail(value[2]) ELSE value[2]
        r == Reduced(b, IF init = Error THEN value[2][1] ELSE init, q)
    IN IF Kind(value) # "list" \/ (init = Error /\ value[2] = <<>>) THEN Plain("reduce", <<b>>, Error)
       ELSE Apply("reduce", <<b>>, r.val) /\ frames' = r.fs

SumStage == Plain("sum", <<>>, Sum(value))
MinStage == Plain("min", <<>>, MinOf(value))
MaxStage == Plain("max", <<>>, MaxOf(value))
EncodeStage == Plain("base64_encode", <<>>, Encode64(value))
DecodeStage == Plain("base64_decode", <<>>, Decode64(value))
TransposeStage == Plain("transpose", <<>>, Transpose(value))
FillNaStage == \E c, t \in Texts : Plain("fill_na", <<c, t>>, FillNa(value, c, t))

GetPathMethod == \E p \in PathTexts : Plain("get_path", <<p>>, IF MapLike(value) THEN GetPath(value, p) ELSE Error)
HasPathMethod == \E p \in PathTexts : Plain("has_path", <<p>>, HasPath(value, p))
SetPathMethod == \E p \in PathTexts, v \in Items : Plain("set_path", <<p, v>>, SetPath(value, p, v))
PickMethod == \E k, l \in Texts : Plain("pick", <<k, l>>, Pick(value, <<k, l>>))
MergeMethod == \E v \in Sources : Plain("merge", <<v>>, Merge(value, v))
MapMethods == \/ Plain("keys", <<>>, MapKeys(value))
              \/ Plain("values", <<>>, MapValues(value))
              \/ Plain("entries", <<>>, MapEntries(value))
              \/ \E k \in Texts : Plain("get", <<k>>, GetOrEmpty(value, k))
DictMethods == \/ \E k \in Texts, v \in Items : Plain("set", <<k, v>>, DictSet(value, k, v))
               \/ \E k \in Texts : Plain("delete", <<k>>, DictDelete(value, k))
MatrixMethods == \/ \E v, w \in Items : Plain("add_row", <<v, w>>, AddRow(value, <<v, w>>))
                 \/ \E n \in 0..1 : Plain("drop_row", <<n>>, DropRow(value, n))
                 \/ \E k, l \in Texts : Plain("rename_col", <<k, l>>, RenameCol(value, k, l))
                 \/ \E n \in 0..1 : Plain("row", <<n>>, Row(value, n))
                 \/ \E k \in Texts : Plain("col", <<k>>, Col(value, k))
                 \/ \E k, l \in Texts : Plain("select", <<k, l>>, Select(value, <<k, l>>))
                 \/ \E k \in Texts, v \in Items : Plain("where_rows", <<k, v>>, WhereRows(value, k, v))
                 \/ Plain("to_maps", <<>>, ToMaps(value))
                 \/ Plain("from_maps", <<>>, FromMaps(value))
                 \/ Plain("to_csv", <<>>, ToCsv(value))
                 \/ Plain("from_csv", <<>>, IF Kind(value) # "string" THEN Error ELSE FromCsv(value[2]))

Stages == \/ WhereProperty \/ WhereBlock \/ SortBy \/ TakeN \/ FirstItem \/ CountItems
          \/ LinesStage \/ GrepStage \/ TrimStage \/ SplitStage \/ SplitWords \/ JoinStage
          \/ PluckStage \/ ToJsonStage \/ FromJsonStage \/ RenderStage \/ EachRender \/ EachProperty \/ EachMethod \/ EachBlock \/ MapStage
          \/ FlatMap \/ GroupByBlock \/ GroupByName \/ Reduce \/ SumStage \/ MinStage \/ MaxStage
          \/ EncodeStage \/ DecodeStage \/ TransposeStage \/ FillNaStage
Methods == \/ GetPathMethod \/ HasPathMethod \/ SetPathMethod \/ PickMethod \/ MergeMethod
           \/ MapMethods \/ DictMethods \/ MatrixMethods
Next == Stages \/ Methods
Spec == Init /\ [][Next]_vars

-----------------------------------------------------------------------------
(* Properties.                                                              *)

Done(name) == op[1] = name /\ value # Error
Count1(q, x) == Cardinality({ i \in DOMAIN q : q[i] = x })
SameItems(p, q) == Len(p) = Len(q) /\ \A x \in ToSet(p) \cup ToSet(q) : Count1(p, x) = Count1(q, x)

(* What a block gives for an item, called with the bindings of the caller.  *)
Given(b, x) == EvaluateBlock(<<Globals>>, b, <<x>>).val

(* where() and filter() keep exactly the matching items and their order,    *)
(* though they move them inside the list they read, filter() while its      *)
(* block runs; sort() loses and duplicates nothing and orders the list      *)
(* whenever its keys are all numbers or all not.                            *)
SelectsAndSorts ==
    /\ Done("where") => LET Match(x) == Render(Property(x, op[2])) = op[3]
                        IN value = List(SelectSeq(input[2], Match))
    /\ Done("filter") => LET Wanted(x) == Truthy(Given(op[2], x))
                         IN value = List(SelectSeq(input[2], Wanted))
    /\ Done("sort") =>
         LET Key(x)  == Render(Property(x, op[2]))
             numbers == { i \in DOMAIN value[2] : IsUnsigned(Key(value[2][i])) }
         IN /\ SameItems(input[2], value[2])
            /\ numbers \in {{}, DOMAIN value[2]} /\ Len(value[2]) > 1 =>
                 \A i \in 1..(Len(value[2]) - 1) :
                    LET c == Compare(Key(value[2][i]), Key(value[2][i + 1]))
                    IN IF op[3] THEN c >= 0 ELSE c <= 0

(* group_by(), by a property or by a block, puts every item in exactly one  *)
(* group, under the key it has.  When every key fits the key of a map, each *)
(* key has one group: exactly the items with that key, in their order.  A   *)
(* longer key is stored cut and never found again, so that its items get    *)
(* groups of their own under what is left of it.                            *)
GroupsPartition ==
    Done("group_by") \/ Done("group_by {}") =>
      LET KeyOf(x) == IF op[1] = "group_by" THEN Render(Property(x, op[2])) ELSE Render(Given(op[2], x))
          Group(i) == value[2][i][2][2]
          Fits     == \A x \in ToSet(input[2]) : Len(KeyOf(x)) <= MaxName
      IN /\ SameItems(FlattenSeq([i \in DOMAIN value[2] |-> Group(i)]), input[2])
         /\ \A i \in DOMAIN value[2] : \A x \in ToSet(Group(i)) :
               value[2][i][1] = Truncated(KeyOf(x), MaxName)
         /\ Fits => \A i \in DOMAIN value[2] :
               LET Here(x) == KeyOf(x) = value[2][i][1]
               IN /\ Group(i) = SelectSeq(input[2], Here)
                  /\ \A j \in DOMAIN value[2] : value[2][i][1] = value[2][j][1] => i = j

(* What set_path() stores is what get_path() then finds, and every path     *)
(* that does not run through the one that was set leads to what it did;     *)
(* merge() gives every key the right value's entry, or else the left one's. *)
(* A path with a key too long for a map is stored under the cut key, where  *)
(* get_path() does not look: it is excepted.                                *)
PathsExact ==
    /\ Done("set_path") /\ (\A i \in DOMAIN Segments(op[2]) : Len(Segments(op[2])[i].text) <= MaxName) =>
         LET set == Segments(op[2])
         IN /\ Follow(value, set) = op[3]
            /\ \A p \in PathTexts :
                 LET q == Segments(p)
                 IN q # <<>> /\ (\E i \in 1..Min({Len(q), Len(set)}) : q[i].text # set[i].text)
                    => Follow(value, q) = Follow(input, q)
    /\ Done("merge") =>
         \A k \in Texts : Follow(value, <<[text |-> k, bracketed |-> FALSE]>>) =
             (IF k \in Keys(op[2][2]) THEN MapGet(op[2], k) ELSE MapGet(input, k))

(* What can be written and read back comes back: a text split and joined    *)
(* with the same separator, a value written as JSON (a dict comes back as a *)
(* map, an object as its path, a key that was stored twice once), a matrix  *)
(* written as CSV (as texts, without empty single cells), a text in Base64, *)
(* a matrix transposed twice.  Two writers lose text silently, and exactly  *)
(* then nothing is claimed: split() cuts a piece, or a text, longer than    *)
(* its buffer, and to_csv() leaves out the fields that do not fit its own.  *)
RECURSIVE AsMaps(_)
AsMaps(v) == CASE MapLike(v) -> FoldLeft(LAMBDA m, e : MapSet(m, e[1], AsMaps(e[2])), Map(<<>>), v[2])
               [] Kind(v) = "list" -> List([i \in DOMAIN v[2] |-> AsMaps(v[2][i])])
               [] Kind(v) = "object" -> Text(v[2])
               [] OTHER -> v
RECURSIVE Depth(_)    \* how deep the value at the bottom is nested
Depth(v) == LET inner == CASE MapLike(v) -> { Depth(v[2][i][2]) : i \in DOMAIN v[2] }
                           [] Kind(v) = "list" -> { Depth(v[2][i]) : i \in DOMAIN v[2] }
                           [] OTHER -> {}
            IN IF inner = {} THEN 0 ELSE 1 + Max(inner)
SplitWhole(t, sep) == /\ Len(t) <= MaxOutput
                      /\ \A i \in DOMAIN Between(t, sep, 1) : Len(Between(t, sep, 1)[i]) <= MaxPiece
Total(q) == FoldLeft(LAMBDA a, b : a + b, 0, q)
CsvSize(m) ==    \* every field with the comma or the newline after it
    LET Size(text) == Total([c \in DOMAIN text |-> Len(Field(text[c])) + 1])
    IN Size(Cols(m)) + Total([r \in DOMAIN Rows(m) |-> Size([c \in DOMAIN Cols(m) |-> CellText(Rows(m)[r][c])])])
RoundTrips ==
    /\ Done("split") /\ SplitWhole(input[2], op[2]) => Join(value, op[2]) = input
    /\ Done("base64_encode") => Decode64(value) = input
    /\ Done("to_json") /\ Kind(input) # "matrix" =>
         (FromJson(value[2]) = IF Depth(input) <= MaxJsonDepth THEN AsMaps(input) ELSE Error)
    /\ Done("to_csv") /\ Cols(input) # <<>> /\ Last(Cols(input)) # <<>> /\ CsvSize(input) <= MaxOutput =>
         LET Kept(row) == Len(row) > 1 \/ CellText(row[1]) # <<>>
             rows == SelectSeq(Rows(input), Kept)
         IN FromCsv(value[2]) = Matrix(Cols(input), [r \in DOMAIN rows |->
                                   [c \in DOMAIN rows[r] |-> Text(CellText(rows[r][c]))]])
    /\ Done("transpose") /\ Len(Rows(input)) <= MaxCols => Rows(Transpose(value)) = Rows(input)

(* However a block ends, with a result, a missing one or the wrong number   *)
(* of arguments, the bindings of the caller are what they were.             *)
BindingsKept == frames = <<Globals>>
=============================================================================
